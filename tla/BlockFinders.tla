----------------------------- MODULE BlockFinders -----------------------------
(***************************************************************************)
(* What the daemon (cmd/daemon/main.go) says of the blocks the pool found  *)
(* besides their payouts: who found each of them, which was the last, how  *)
(* many there are, and the effort since.  One action per stretch of a      *)
(* cycle between two points at which p2pool, the main chain or a crash can *)
(* be seen.  PayoutLedger has the payouts of the same cycle.               *)
(*                                                                         *)
(* The main chain gives a block by its height; p2pool appends the blocks   *)
(* it found to a list; the finder of a block is not in its entry, and is   *)
(* looked for among the shares that the cycle loaded before it read the    *)
(* list.                                                                   *)
(***************************************************************************)
EXTENDS Integers, FiniteSetsExt, SequencesExt

CONSTANTS
  Shares,       \* the shares of the side chain, in the order they are mined
  Capacity,     \* shares the circular buffer holds
  Solves,       \* the shares that solve their main-chain block as well
  Miner,
  MinerOf,      \* of a share
  MainHeight,   \* of a share: the height of the block it is mined for
  TimeOf,       \* of a share
  FoundTime,    \* of a block: the time in its entry of the list
  Foreign,      \* a block of the main chain that is not the pool's
  None,         \* no block, no finder
  CrashPoint,   \* where the daemon may die
  GetMayFail,   \* the GETs of the finders that may fail: "cold", "warm"
  SetMayFail    \* the keys whose SET may fail

Key   == {"found", "number", "last", "finders", "effort"}
Share == Range(Shares)
Height == {MainHeight[s] : s \in Share}

ASSUME FinderAssumption ==
  /\ Shares \in Seq(Share) /\ IsInjective(Shares)
  /\ Capacity \in Nat \ {0}
  /\ Solves \subseteq Share
  /\ MinerOf \in [Share -> Miner]
  /\ TimeOf \in [Share -> Nat]
  /\ FoundTime \in [Solves -> Nat]
  /\ Foreign \notin Share /\ None \notin Share \cup Miner
  /\ GetMayFail \subseteq {"cold", "warm"}
  /\ SetMayFail \subseteq Key

VARIABLES
  (* p2pool and the main chain *)
  mined,          \* how many of Shares there are
  list,           \* p2pool:found_blocks
  reported,       \* the blocks p2pool has appended so far
  chain,          \* the block the node reports for a height
  (* Redis *)
  findersKey,     \* cache:block_finders, None for a height it does not have
  published,      \* cache:found_blocks
  blocksFound,    \* stats:pool:blocks_found
  lastFound,      \* stats:pool:last_found_time, last_found_height
  effort,         \* stats:pool:effort
  (* the daemon *)
  shares,
  blockFinders,
  foundBlocks,
  pc

world  == <<mined, list, reported, chain>>
redis  == <<findersKey, published, blocksFound, lastFound, effort>>
daemon == <<shares, blockFinders, foundBlocks>>
vars   == <<world, redis, daemon, pc>>

Point == {"down", "idle", "load", "read", "publish", "count", "last", "save",
          "check", "republish", "recount", "effort"}

Finders == [Height -> Miner \cup {None}]
Entry   == [block : Solves, finder : Miner \cup {None}]
Effort  == [block : Solves, round : Nat, total : Nat]

TypeOK ==
  /\ mined \in 0..Len(Shares)
  /\ reported \subseteq Solves
  /\ list \in Seq(reported)
  /\ chain \in [Height -> Solves \cup {Foreign}]
  /\ findersKey \in Finders /\ blockFinders \in Finders
  /\ published \in Seq(Entry) /\ foundBlocks \in Seq(Entry)
  /\ blocksFound \in Nat
  /\ lastFound \in Solves \cup {None}
  /\ effort \in Effort \cup {None}
  /\ shares \subseteq Share
  /\ pc \in Point

NoFinders == [h \in Height |-> None]

Init ==
  /\ mined = 0 /\ list = << >> /\ reported = {}
  /\ chain = [h \in Height |-> Foreign]
  /\ findersKey = NoFinders
  /\ published = << >> /\ blocksFound = 0
  /\ lastFound = None /\ effort = None
  /\ shares = {} /\ blockFinders = NoFinders /\ foundBlocks = << >>
  /\ pc = "down"

-----------------------------------------------------------------------------
(***************************************************************************)
(* p2pool and the main chain.  A share is in the buffer before its block   *)
(* is in the list, the better case for the daemon.                         *)
(***************************************************************************)
Index(s) == CHOOSE k \in DOMAIN Shares : Shares[k] = s

Buffer == {Shares[k] : k \in {i \in 1..mined : i > mined - Capacity}}

MineShare ==
  /\ mined < Len(Shares)
  /\ mined' = mined + 1
  /\ UNCHANGED <<list, reported, chain, redis, daemon, pc>>

ReportBlock(b) ==
  /\ b \notin reported /\ Index(b) <= mined
  /\ list' = Append(list, b)
  /\ reported' = reported \cup {b}
  /\ \E c \in {b, chain[MainHeight[b]]} : chain' = [chain EXCEPT ![MainHeight[b]] = c]
  /\ UNCHANGED <<mined, redis, daemon, pc>>

ChainMoves(h) ==
  /\ \E c \in {b \in reported : MainHeight[b] = h} \cup {Foreign} :
       chain' = [chain EXCEPT ![h] = c]
  /\ UNCHANGED <<mined, list, reported, redis, daemon, pc>>

-----------------------------------------------------------------------------
(***************************************************************************)
(* One cycle.                                                              *)
(***************************************************************************)
(* LoadAllShares.  A cycle that finds no shares ends here.  The RPCs of    *)
(* the cycle come between this and the reading of the list.                *)
BeginCycle ==
  /\ pc \in {"down", "idle"}
  /\ Buffer # {}
  /\ shares' = Buffer
  /\ pc' = "load"
  /\ UNCHANGED <<world, redis, blockFinders, foundBlocks>>

(* Mutation: the stored finders are not read.                              *)
MergedNone == blockFinders

(* What json.Unmarshal leaves in the map: the stored finders, and those of *)
(* the other heights it had.                                               *)
Merged == [h \in Height |-> IF findersKey[h] # None THEN findersKey[h]
                                                    ELSE blockFinders[h]]

LoadBlockFinders ==
  /\ pc = "load"
  /\ blockFinders' = Merged
  /\ pc' = "read"
  /\ UNCHANGED <<world, redis, shares, foundBlocks>>

(* The GET fails.  A daemon is cold until its map has a finder.            *)
SkipBlockFinders ==
  /\ pc = "load"
  /\ (IF blockFinders = NoFinders THEN "cold" ELSE "warm") \in GetMayFail
  /\ pc' = "read"
  /\ UNCHANGED <<world, redis, daemon>>

Distance(s, b) == IF TimeOf[s] >= FoundTime[b] THEN TimeOf[s] - FoundTime[b]
                                               ELSE FoundTime[b] - TimeOf[s]

(* Mutation: any share of the cycle is as good as one of that height.      *)
CandidatesAll(h) == shares

Candidates(h) == {s \in shares : MainHeight[s] = h}

(* Mutation: the finder is looked for anew in every cycle that can.        *)
AlreadyKnownNever(h) == Candidates(h) = {} /\ blockFinders[h] # None

AlreadyKnown(h) == blockFinders[h] # None

(* The first block of the list at a height gets the miner of a nearest     *)
(* share, of equally near ones the one the map iteration finds first; later*)
(* blocks of that height find it in the map.                               *)
FirstAt(h) == list[CHOOSE k \in DOMAIN list :
                     /\ MainHeight[list[k]] = h
                     /\ \A j \in 1..(k - 1) : MainHeight[list[j]] # h]

Nearest(h) == {s \in Candidates(h) :
                 \A t \in Candidates(h) : Distance(s, FirstAt(h)) <= Distance(t, FirstAt(h))}

Listed == {MainHeight[list[k]] : k \in DOMAIN list}

Resolved ==
  {f \in Finders :
     \A h \in Height :
       IF h \notin Listed \/ AlreadyKnown(h) \/ Candidates(h) = {}
       THEN f[h] = blockFinders[h]
       ELSE f[h] \in {MinerOf[s] : s \in Nearest(h)}}

ReadFoundList ==
  /\ pc = "read"
  /\ list # << >>
  /\ blockFinders' \in Resolved
  /\ foundBlocks' = [k \in DOMAIN list |->
       [block |-> list[k], finder |-> blockFinders'[MainHeight[list[k]]]]]
  /\ pc' = "publish"
  /\ UNCHANGED <<world, redis, shares>>

(* LRANGE fails, or the list is empty: foundBlocks stays as it is.         *)
SkipFoundList ==
  /\ pc = "read"
  /\ pc' = "effort"
  /\ UNCHANGED <<world, redis, daemon>>

(* What a key may hold after its SET, whose error nobody looks at.         *)
Stores(key, old, new) == IF key \in SetMayFail THEN {old, new} ELSE {new}

PublishFound ==
  /\ pc = "publish"
  /\ published' \in Stores("found", published, foundBlocks)
  /\ pc' = "count"
  /\ UNCHANGED <<world, findersKey, blocksFound, lastFound, effort, daemon>>

(* Their number, here and once the orphans are gone.                       *)
StoreNumber ==
  /\ pc \in {"count", "recount"}
  /\ blocksFound' \in Stores("number", blocksFound, Len(foundBlocks))
  /\ pc' = IF pc = "count" THEN "last" ELSE "effort"
  /\ UNCHANGED <<world, findersKey, published, lastFound, effort, daemon>>

(* Mutation: the last block is stored once.                                *)
LastOnce(bs) == IF lastFound = None THEN Last(bs).block ELSE lastFound

LastBlock(bs) == Last(bs).block

StoreLastFound ==
  /\ pc = "last"
  /\ lastFound' \in Stores("last", lastFound, LastBlock(foundBlocks))
  /\ pc' = "save"
  /\ UNCHANGED <<world, findersKey, published, blocksFound, effort, daemon>>

SaveFinders ==
  /\ pc = "save"
  /\ findersKey' \in Stores("finders", findersKey, blockFinders)
  /\ pc' = "check"
  /\ UNCHANGED <<world, published, blocksFound, lastFound, effort, daemon>>

(* seq without the entries in gone: the j-th entry is the j-th kept one.   *)
Without(seq, gone) ==
  LET kept == {k \in DOMAIN seq : seq[k] \notin gone}
  IN [j \in 1..Cardinality(kept) |->
        seq[CHOOSE k \in kept : Cardinality({n \in kept : n <= k}) = j]]

(* removeOrphanedBlocks: an unanswered question keeps the block.  Each     *)
(* orphan is taken off the list, and foundBlocks is a new one when there   *)
(* was any.                                                                *)
RemoveOrphanedBlocks ==
  /\ pc = "check"
  /\ \E orphans \in SUBSET {e \in Range(foundBlocks) : chain[MainHeight[e.block]] # e.block} :
       IF orphans = {}
       THEN pc' = "effort" /\ UNCHANGED <<foundBlocks, list>>
       ELSE /\ foundBlocks' = Without(foundBlocks, orphans)
            /\ list' = Without(list, {e.block : e \in orphans})
            /\ pc' = "republish"
  /\ UNCHANGED <<mined, reported, chain, redis, shares, blockFinders>>

(* Mutation: the orphans are taken off the list only.                      *)
RepublishNothing ==
  /\ pc = "republish"
  /\ pc' = "effort"
  /\ UNCHANGED <<world, redis, daemon>>

Republish ==
  /\ pc = "republish"
  /\ published' \in Stores("found", published, foundBlocks)
  /\ pc' = "recount"
  /\ UNCHANGED <<world, findersKey, blocksFound, lastFound, effort, daemon>>

(* Mutation: the block may be ahead of the tip.                            *)
RoundHashesSigned(b) == Max({Index(s) : s \in shares}) - Index(b)

(* Hashes since the last block: the cumulative difficulty of the tip less  *)
(* that of the block, here their places in the side chain; nothing when    *)
(* the block is later than the tip the cycle began with.                   *)
RoundHashes(b) ==
  LET tip == Max({Index(s) : s \in shares})
  IN IF tip > Index(b) THEN tip - Index(b) ELSE 0

StoreEffort ==
  /\ pc = "effort"
  /\ IF foundBlocks = << >> THEN UNCHANGED effort
     ELSE effort' \in Stores("effort", effort,
                             [block |-> Last(foundBlocks).block,
                              round |-> RoundHashes(Last(foundBlocks).block),
                              total |-> Len(foundBlocks)])
  /\ pc' = "idle"
  /\ UNCHANGED <<world, findersKey, published, blocksFound, lastFound, daemon>>

Crash ==
  /\ pc \in CrashPoint /\ pc # "down"
  /\ shares' = {} /\ blockFinders' = NoFinders /\ foundBlocks' = << >>
  /\ pc' = "down"
  /\ UNCHANGED <<world, redis>>

-----------------------------------------------------------------------------
World == MineShare \/ (\E b \in Solves : ReportBlock(b)) \/ (\E h \in Height : ChainMoves(h))

Cycle ==
  \/ BeginCycle
  \/ LoadBlockFinders \/ SkipBlockFinders
  \/ ReadFoundList \/ SkipFoundList
  \/ PublishFound \/ StoreNumber \/ StoreLastFound \/ SaveFinders
  \/ RemoveOrphanedBlocks \/ Republish
  \/ StoreEffort

Next == World \/ Cycle \/ Crash

Spec == Init /\ [][Next]_vars

(* The ticker starts cycles, a daemon that died is started again, every    *)
(* call has a timeout.  A list that is read again and again is read at     *)
(* last, the daemon does not die at the same SETs in every cycle, and the  *)
(* SET of the last block does not fail in every one.                       *)
FairSpec ==
  /\ Spec /\ WF_vars(Cycle)
  /\ SF_vars(ReadFoundList) /\ SF_vars(PublishFound) /\ SF_vars(StoreNumber)
  /\ SF_vars(StoreLastFound /\ lastFound' = LastBlock(foundBlocks))

-----------------------------------------------------------------------------
(***************************************************************************)
(* Properties.                                                             *)
(***************************************************************************)
(* "Cache it", "Persist block finders": a finder in cache:block_finders is *)
(* never lost or replaced, whatever leaves the buffer or the list, wherever*)
(* the daemon dies and whichever SETs fail.                                *)
FindersKept ==
  [][\A h \in Height : findersKey[h] # None => findersKey'[h] = findersKey[h]]_vars

(* Once the finder of a height is stored, every block published for that   *)
(* height shows this finder, also between the SETs of a cycle and after a  *)
(* crash between them; but for a SET of the published blocks that fails.   *)
FinderShown ==
  \A k \in DOMAIN published :
    LET stored == findersKey[MainHeight[published[k].block]]
    IN stored # None => published[k].finder = stored

(* No miner is named for a height it mined no share for: shares that have  *)
(* left the buffer count, those of other heights do not.                   *)
FinderHadShare ==
  \A h \in Height : findersKey[h] # None =>
    \E k \in 1..mined : MainHeight[Shares[k]] = h /\ MinerOf[Shares[k]] = findersKey[h]

(* At rest, what is published, its number, and the block that the effort   *)
(* counts from belong together: orphans removed by this cycle are in none. *)
(* A SET of one of the three that fails leaves them apart for a cycle.     *)
AgreeAtRest ==
  pc = "idle" /\ foundBlocks # << >> =>
    /\ published = foundBlocks
    /\ blocksFound = Len(published)
    /\ effort.block = Last(published).block
    /\ effort.total = blocksFound

(* The last block that the API names is the last one of the list once that *)
(* no longer changes, although the cycle that removes an orphan does not   *)
(* correct it and its SET may fail.                                        *)
LastFoundSettles ==
  <>[][UNCHANGED list]_list => <>[](list # << >> => lastFound = Last(list))

=============================================================================
