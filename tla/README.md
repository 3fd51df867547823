# Verification of p2pool-salvium-observer

TLA+ models of the observer of a Salvium p2pool side chain, TLC runs on small
instances, and TLAPS proofs for every value of the constants.

## The system

```
 C++ p2pool -- HSET p2pool:cache (circular buffer of shares) ----.
      |                                                          v
      '------- RPUSH p2pool:found_blocks --------------------> Redis <--SET/LREM-- daemon --RPC--> Salvium nodes
                                                                 |                                 (fallback list)
                                                                 '--GET--> API --HTTP--> web site, static pages
```

| Part | Code | State it keeps | Operations |
|---|---|---|---|
| C++ p2pool (external) | - | hash `p2pool:cache`, list `p2pool:found_blocks` | appends shares and found blocks |
| Daemon, finders | `cmd/daemon/main.go` 663-858, 1030-1070 | `blockFinders`; in Redis `cache:block_finders`, the number of blocks, the last one, the effort | resolve, keep and publish who found a block |
| Daemon, ledger | `cmd/daemon/main.go` 663-1103 | `foundBlocks`, `processedPayouts`, `minerPayouts`, `pplnsSnapshots`; the same in Redis | load found blocks, remove orphans, calculate payouts |
| Daemon, rebuild | `cmd/daemon/main.go` 233-268, 1105-1234 | the same fields in a process of its own (`-rebuild-payouts`) | pay all heights again, overwrite the ledger in Redis, exit |
| Daemon, cycle and statistics | `cmd/daemon/main.go` 220-662 | `mainchainDiff`, statistics keys | `syncCycle` every 10 s: load shares, ask the node, PPLNS, store |
| PPLNS | `p2pool/pplns.go` | none beyond a call | `CalculatePPLNS`, `TopMiners`, `EstimatedPayout(Ordered)`, position buckets |
| RPC client | `p2pool/rpc.go` | `currentIndex` into the endpoints | `jsonrpc` with failover |
| Share parser | `p2pool/cache.go`, `parser.go`, the readers in `types.go` | none | `LoadAllShares`: the buffer's entries become a map of shares |
| Arithmetic, addresses | `p2pool/types.go` | none | difficulties of two words, base58 |
| API | `cmd/api` | in-process TTL cache | one handler per endpoint: lookup, GETs, store |
| Web site | `cmd/web` | page cache, `lastPoolInfo`, a goroutine for each stream | ask the API through the cache, render, stream |
| Static pages | `html` | none | poll the API |

The parts meet in Redis. The daemon is one goroutine: what interleaves with it
is the p2pool process that appends to the list, the main chain, its own death,
and a second process of the same program, started with `-rebuild-payouts`
("Rebuild all payouts from on-chain data and exit", `cmd/daemon/main.go:158`),
which takes no lock. SIGTERM cancels the context of every later call, so it is a crash at
whatever point the cycle has reached. The API serves each request in a
goroutine of its own and shares one locked map.

What is hard here, and the property that makes each part correct:

- **Ledger.** Payouts are a read-modify-write of several Redis keys without a
  transaction, by a process that may die between two SETs, from a chain that is
  reorganised and a node that may not answer. It must pay each height once, in
  full, along the order recorded when the block was found; never lose a
  recorded payout; drop orphans from the list and from what is published; and
  pay what was postponed. With a rebuild beside it, two processes overwrite the
  same keys, and what is stored must make sense again after the last of them.
- **PPLNS.** Penalties are rounded, uncles can be near or beyond the window's
  end, shares can be missing, the tip is ambiguous. Weight must be conserved,
  limit and window kept, and rewards split without loss.
- **RPC.** A call must reach every endpoint from wherever the last one left the
  index, and an answer without a result must not leave the daemon without a
  difficulty for good.
- **API.** Overlapping requests store out of order, and GETs fail one by one:
  staleness must be bounded and a bad entry must not live on.
- **Finders.** The miner of a block is not in its entry. It is looked for among
  the shares of a circular buffer that move on, once, and kept by height through
  restarts and orphans. A finder must stay what it was, be what is shown, and
  have mined there; list, count, last block and effort must agree.
- **Parser.** Formats of two versions, optional parts recognised by their looks,
  entries that may be cut off anywhere: an entry is its share or nothing.
- **Arithmetic.** Carries, columns of half words, remainders, differences of
  unsigned clocks.
- **Web site.** Overlapping requests share a cache and one `lastPoolInfo`, both
  of which store failures too; a stream goes through a channel of one place to a
  template that may panic before it reads. Pages must be recent, failures must
  fade, goroutines must end.

`PROJECT.json` lists every hazard at its line, with the properties that cover
it or the reason why none does.

## Modules

| Module | Models | Notes |
|---|---|---|
| `PayoutLedger` | the daemon's found blocks and payouts | one action per stretch of a cycle between two points at which a crash, the chain or a reader can be seen |
| `PayoutRebuild` | the same daemon beside the process that rebuilds | extends `PayoutLedger`, and instantiates it for the second process; loads are one call of Redis at a time |
| `PayoutBook` | what the ledger promises | a page per height, open until it is settled whole |
| `PPLNSWindow` | `CalculatePPLNS` and what is derived from it | one action per uncle and per share |
| `SalviumRpc` | `jsonrpc` and the uptake of the difficulty | one action per attempt |
| `ApiCache` | one API endpoint, its cache entry, concurrent requests | one action per GET, store and write |
| `BlockFinders` | the same cycle for finders, published blocks, last block, effort | one action per SET or stretch without one |
| `Difficulty` | the arithmetic on two words of any width | operators |
| `PPLNSWords` | the split, `storeShares` and `storeHashrate` over a PPLNS result | extends `PPLNSWindow` and `Difficulty` |
| `ShareParser` | `ParseCacheEntry` and its readers | operators on sequences of bytes |
| `ShareBuffer` | the buffer in Redis and `LoadAllShares` | extends `ShareParser` with what p2pool writes |
| `WebSite` | requests, cache, `lastPoolInfo`, streams | one action per lookup, call, store and item |
| `*Proofs` | theorems about the module of that name; `PPLNSWindowProofs` also those about `PPLNSWords` and `Difficulty`, `ShareBufferProofs` those about `ShareParser` | |
| `InductionLemmas` | induction stated with sets, and what it gives for folds, finite sums, ranks and iterations | no code; lemmas for the proofs |
| `MC*` | constants for TLC | |

### PayoutLedger

The variables of the first group in `VARIABLES` are the world: `chain` (what
the node reports for a height) and `mined`. Then Redis, then the fields of the
`Daemon` struct under their Go names, then where the daemon is (`pc`) and the
locals of the call it is in. The cycle is

```
idle -BeginCycle-> found -ReadFoundList-> publish -PublishFound-> check
 check: KeepBlock | DetectOrphan (-> lrem -RemoveOrphan-> check) | EndCheck -> load
 load -LoadLedger-> pay: RefetchReward | PayNewBlock | SnapshotOnly | EndPay
 pay -> save: SavePayouts(m) for each miner, SaveProcessed -> snap -SaveSnapshots-> reward
 reward -EndCycle-> idle
```

`SkipFoundList` is the early return of `loadFoundBlocks` (an LRANGE error, or
an empty list), which leaves `foundBlocks` as an earlier cycle left it.
`Mine` and `ChainMoves` are the world, `Crash` the loss of the daemon's memory.
The module, its runs and its theorems are about a daemon that has Redis to
itself; `PayoutRebuild` has the rebuild.

Data: an amount is a coinbase output, named by the block whose coinbase it is
and its rank after the sort. That keeps apart what the properties need to tell
apart: whose coinbase was paid, and to whom each output went. `SetMayFail` and
`GetMayFail` name the keys whose commands may fail; the code ignores these
errors, so a failed SET leaves the old value and a failed GET the empty one.

`BookSpec` shows the refinement. The page of a height is empty until the height
is in `cache:processed_payouts`, and is then the set of the entries in all
payouts keys. The SET of the processed heights is therefore the step that
settles a page, and PayoutBook says that the page is then the settlement of
exactly one coinbase along exactly one order, for good.

### PayoutRebuild

Two processes, and every step of one may come between any two of the other. The
variables with an `r` are the memory of the second one. It runs the code of the
first: `R` is `PayoutLedger` over these variables, and `RebuildFinds` is
`R`'s `loadFoundBlocks`, LREM of orphans included. `RebuildClear`,
`RebuildBlock`, `RebuildSave` and `RebuildEnds` are `RebuildAllPayouts`. The
daemon's steps are those of `PayoutLedger`, except that `LoadLedger` is taken
apart (`LoadProcessed`, `ListPayouts`, `LoadPayouts(m)`, `LoadSnapshots`),
because a rebuild may SET keys between its GETs; `loading` and `unread` say how
far it is.

What two processes without a lock can do to each other, the model does too:

- Saves that overlap mix payouts of one with processed heights of the other. The
  rebuild SETs its payouts for heights 1 and 2, the daemon overwrites them with
  those for height 1 and SETs its processed heights, then the rebuild SETs its
  own: height 2 is processed and its payouts are not stored. The daemon's memory
  does not have height 2 as processed and its next cycle repairs this; if it is
  restarted before, the payouts of height 2 are gone for good.
- A daemon that starts while the rebuild saves reads heights and payouts of two
  ledgers; so does one that has payouts and no processed height in memory, since
  it reads the heights again in each cycle.
- A daemon that has loaded before the rebuild undoes it with its next save.

The history variable `torn` follows this. `"daemon"` and `"rebuild"` are saves
into which the other process has SET a payouts key, `"memory"` is a daemon that
read a mixture, `"redis"` says that what is stored is not the whole of one such
save. `PaidUnlessTorn` claims nothing while `"redis"` is in `torn`, that is
during a save and after one that was torn. What it does claim is that the next
save of an untorn memory that runs through, by whichever process, makes every
processed height paid again, whatever is in the keys that this process does not
SET. The SETs of the rebuild for finders and counters are left out.

### PPLNSWindow

`tip`, `cur`, `u` and the sums are the locals of `CalculatePPLNS`; `counted` is
history, used by properties only. The map is any member of `ShareMap`, from
which any share may be missing. `TopMiners` is the set of orders the unstable
sort may return. Sums over the result are folds of the community modules.
`WindowAssumption` has of the map what p2pool verifies of a share before it
writes it: heights go up by one, and no branch has a share twice, be it as a
share or as an uncle (`OnceOnBranch`). Neither is checked by the observer, and
without the second the code would count an uncle twice.

### SalviumRpc

The health of an endpoint may change before every attempt. `Refused` returns an
RPC error without failing over, and `Answered` takes an answer without a result
for a success, as the code does: the difficulty is then 0 (`Unset`) until the
next answer. `first` and `tried` are history.

### ApiCache

A response is the sequence of the versions of its Redis keys. A GET that fails
and a key that is absent are one case for the handlers. A request whose client
has hung up reads nothing more, because its context is cancelled, but still
stores what it has. `age` is history; `left` is the time to expiry. All handlers
have this shape, so the map of `PROJECT.json` names for each action the lines of
one handler that show it. Two handlers (`cmd/api/main.go:701-720`, 929-949) try
a second name of a key when the GET of the first fails; that alternative has no
counterpart, and stands as one GET of one key.

### BlockFinders

The world is `mined` (how much of the side chain `Shares` there is; the buffer
is its last `Capacity` shares), `list`, `reported` and `chain`. Redis has five
values, the daemon the three fields under their Go names. The cycle is

```
down/idle -BeginCycle-> load -LoadBlockFinders | SkipBlockFinders-> read
 read: ReadFoundList -> publish -PublishFound-> count -StoreNumber-> last
       SkipFoundList -> effort
 last -StoreLastFound-> save -SaveFinders-> check
 check -RemoveOrphanedBlocks-> effort, or republish -Republish-> recount -StoreNumber-> effort
 effort -StoreEffort-> idle
```

`Resolved` is the set of maps that the loop of `loadFoundBlocks` may leave: the
iteration over the shares is unordered, so of equally near shares any may come
first. `Merged` is what `json.Unmarshal` does
to a map that is not empty. The GET of the finders fails `"cold"` in a daemon
that has no finder in memory, `"warm"` in one that has. `SetMayFail` names the
values whose SET may fail and leave the old one, as the code ignores these
errors. Effort counts in places
of the side chain instead of cumulative difficulties. `ReportBlock` needs the
block's share to have been mined, so p2pool never reports ahead of its buffer.

### Difficulty and PPLNSWords

A word is `HalfWord` squared; the code has `HalfWord` 2^32, the run 16. `Value`
is the reference. `Div` of a two-word divisor is the long division: `Rounds` has
quotient and remainder after each bit, and `Pow2` is the shift of 1. `PPLNSWords` repeats the walk of `storeShares`, the
split `EstimatedPayoutOrdered` and the hashrate for the result of `PPLNSWindow`;
timestamps come from `Clock`, since the walk does not look at them.

### ShareParser and ShareBuffer

A position is the index of the next byte, or `Fail`, which every reader passes
on: it stands for the error returns. `ParseCacheEntry` is the set of the share,
or the empty set. Fields whose lengths only say how much is skipped are shorter
than in the code, by constants. `ShareBuffer` writes blocks as p2pool does,
damages at most one entry (cut off in its value or in its block, version 0,
trailing bytes) and loads the slots in any order; `dead` is a daemon that
panicked on an entry whose block is empty. The writers are p2pool's and external:
each lists the parts of what it writes in the order in which the parser takes
them apart.

Sizes and blocks have assumptions. `SizesAssumption`: a hash has a byte at least,
a varint two. `BlocksAssumption`: blocks are records whose numbers fit varints
of one or two bytes (`Short`, a bound; the readers take longer ones), with at
most `MaxUncles` uncles, fewer than 256 hashes in the Merkle proof, fewer than
2^32 bytes, and different names. `CutsAssumption`: a cut takes at least one byte.
`ShortProtocols` is a hypothesis of the theorems rather than an assumption of
the module; the instance satisfies it (`ProtocolsAreShort`), and what happens
without it is told below.

### WebSite

A request goes through the calls of its handler in order. A pool information is
the number of ticks since the API was asked for it, `Nil` for any failure, or
`Bare` when it has no last block. The API may answer with a `Bare` one at any
time: `handlePoolInfo` writes each field only if its GET succeeds. The
`handlePoolInfo` of this repository writes no last block of the side chain at
all, so that the site would not start with it; `StartUp` is a site whose API
does.

A page stands for the handlers that use pool information in the same way.
`Lookup`, `Call`, `Cache` and `StorePool` are apart, because the lock is not
held between them. `/miners` goes on to the shares in the window (`FindList`,
`CallList`, `KeepList`), which have a cache time of their own (`ListTime`: 30 or
60 s in the code, against 5 s), and has an error page for a list that is nil or
empty (`ShowList`). Lists of other windows have entries of their own, which work
the same. On the blocks page a list that failed looks like one without blocks
and counts as a page.

`stream` is the goroutine with its channel; `Decode`, `Send` and `Receive` move
one item each. `fit` says whether the templates have what they use before they
read the stream: a last block in the header, the raw share on the share page.
`sinceBad` (the ticks since a call failed or gave nothing to show) and `served`
(the response of the last step) are history.

`FailureFades` has one exception. A page that asks for no pool information shows
`lastPoolInfo` in its header, and `/api` uses it when it is not nil. If that is
`Bare`, it stays `Bare` until another page asks, and until then these pages
fail, however long ago the call was.

## Runs

| Run | What it explores | Bounds | Result |
|---|---|---|---|
| `LedgerBook` | two heights, reorganisations, failing RPCs, failing SETs of the snapshots, crashes outside the save | 2 blocks, 2 heights, 2 miners in 2 orders, coinbases of 1 and 2 outputs | `BookSpec` (refinement of `PayoutBook`), `OncePerHeight`, `SnapshotStable`, `TypeOK` |
| `LedgerCrash` | crashes between any two SETs of a save, failing SETs of the processed heights | as above, histories up to `MaxHistory` = 2 before a crash; miners symmetric | `LedgerAppendOnly`; `ProcessedIsPaid` |
| `LedgerLive` | two own blocks at one height, failing RPCs and LREMs, fairness | 2 blocks, 1 height, 1 miner | `EventuallyPaid`, `OrphanLeaves`, `OrphanUnpublished`, `RewardRestored` |
| `LedgerRebuild` | a rebuild beside the daemon, every interleaving of their steps, restarts whose GET of the processed heights fails | 2 blocks, 2 heights, 2 miners in one order; `MaxRebuilds` = 1; reorganisations at one height (`Moving`); `MaxHistory` = 2 before a crash; the daemon dies while it rests, the rebuild before it pays | `PaidUnlessTorn` |
| `LedgerDoublePay` | a crash inside a save | 1 block, 2 miners | `OncePerHeight` is violated |
| `LedgerLegacy` | an orphan whose entry has four fields | 1 block, 1 miner | `OrphanLeaves` is violated |
| `PplnsWindow` | 1536 share maps, 4 limits, 4 clocks | 4 shares, 2 uncles, 2 tips, window 3, words of 8 bits | `WeightConserved`, `LimitKept`, `WindowIsRecent`, `PositionsShown`, `SplitExact`, `MatchedWithinDust`, `WordsExact`, `WindowStored`, `HashrateInSpan`, `TypeOK` |
| `SalviumRpc` | every change of health between attempts | 3 endpoints, 2 of them on one fork | `EachTried`, `IndexComesRound`, `ZeroFades`, `Recovers` |
| `ApiCache` | two requests, a daemon that writes, Redis down, hang-ups, restarts | 2 keys, 2 versions, `TTL` = 1, `MaxFetch` = 1 | `FreshEnough`, `CachedIsUsable`, `Converges`, `ExpiredLeaves` |
| `BlockFinders` | shares that leave the buffer, two solved blocks at one height, reorganisations, a crash between the first two SETs, failing SETs of the last block, failing GETs of the finders | 3 shares, buffer of 2, 3 miners, 2 heights; `CrashPoint` = `"count"`, `GetMayFail` = `"warm"`, `SetMayFail` = `"last"` | `FindersKept`, `FinderShown`, `FinderHadShare`, `AgreeAtRest`, `LastFoundSettles`, `TypeOK` |
| `WebSite` | overlapping requests of six kinds of page, an API that fails, comes back and answers without a last block, restarts | 2 requests, one of which may stream 2 items, `CacheTime` = 1, `ListTime` = 2, `MaxRequest` = 1 | `PageFresh`, `FailureFades`, `StreamHasReader` |
| `ShareBuffer` | blocks of every form, one entry damaged in every way | 2 slots, 5 blocks, hashes of 2 bytes, every cut | `UsableLoaded`, `NothingElse` |

Why the bounds are enough to meet the hard cases:

- Ledger: two miners are what a save needs to be interrupted half way, two
  orders to tell the recorded one from today's, two heights for one to be paid
  while the other is postponed, coinbases shorter than the order for outputs to
  run out. Everything but liveness is also proved without bounds.
- Rebuild: two heights for one process to have paid a height the other has not,
  two miners for a save to be interleaved half way, and one rebuild is enough to
  tear a save of the daemon, its memory, and what is stored. Orders that differ,
  more rebuilds and crashes anywhere are in the theorem.
- PPLNS: window 3 over four shares has shares and uncles inside, at and beyond
  its end, `base` 0 has the genesis share in the window, difficulties 101
  and 143 and uncles of 83 and 147 do not divide evenly by a penalty of 20 %,
  and limits of 80 to 400 stop the walk at each of its ends. Two or three shares
  fill a word of 8 bits, and rewards go up to 250, so that products carry into
  the high word, high words are divided, and some products pass both. One clock
  agrees with the heights, one differs within a height, one stands still, one
  has a tip behind its ancestors.
- RPC: with three endpoints a call can begin at one, pass a second and end at a
  third, and wrap around.
- API: the first request can be overtaken by a whole life of an entry. Versions
  stop at 2, so that `Converges` (a lasting state of Redis is served in the
  end) has something to converge to.
- Finders: two blocks of different miners compete at one height, so that the
  second could replace the first's finder; a block found one second after its
  share is equally near to the shares of two miners; the third share pushes the
  first out of the buffer while its block is still listed. A daemon that dies
  between the SETs of the list and of its number comes back with everything
  newer in one value than in the others. Crashes elsewhere and failing SETs of
  the other values are in the theorems.
- Web site: with two requests one can overwrite the cache and `lastPoolInfo`
  with an older result while the other has found or fetched a newer one, which
  is the longest way a pool information can go (see the proof). A list of two
  items fills the channel. `ListTime` is longer than `CacheTime`, as in the code.
- Buffer: the five blocks have compact and Carrot outputs, none, one and two of
  them, protocol transactions without and with outputs, none and several
  transactions (one count equals the byte a protocol transaction begins with),
  uncles, proofs, merge-mined chains with one repeated, one- and two-byte
  varints. A cut is tried at every byte.

`PplnsWindow` ends when a walk does, so deadlock is not checked there; it is
everywhere else.

### Fairness

- `WF(Daemon)`: the ticker keeps starting cycles and nothing in a cycle waits
  for ever, since every RPC has a timeout of 10 s. `WF(Start)`: the service file
  restarts a daemon that failed, and one that was stopped is started again.
- `SF` of reading the list, paying a height, detecting and removing an orphan,
  refetching a reward: each is retried by every cycle, and a call that is
  retried for ever is taken not to fail every single time. No fairness is
  assumed of the world.
- `SalviumRpc`: `WF(Call)` only. `ApiCache`: `WF` of time, of a handler that has
  begun and of the cleanup goroutine's ticker; requests need not come.
- `BlockFinders`: `WF(Cycle)` as for the ledger; `SF` of reading the list, of
  the SETs after it, and of a SET of the last block that succeeds, which are
  retried by every cycle: the daemon does not die at the same SET for ever, and
  the same SET does not fail for ever. `WebSite` and `ShareBuffer` claim no liveness.

### The two violations

- `LedgerDoublePay`. The payouts keys are SET before
  `cache:processed_payouts`. A daemon that dies in between pays the height again
  after its restart, and the history of each miner whose key was already stored
  shows the block twice. The API's block page relies on "Only one payout per
  miner per block" (`cmd/api/main.go:1064`). The order itself is the safe one:
  the other way round, a crash would lose a payout (this is the mutation
  `EndPayMarkFirst`, which `ProcessedIsPaid` rejects).
- `LedgerLegacy`. LREM needs the exact string. The daemon formats the entry
  again with five fields; one that it had accepted with four has then a trailing
  space and matches nothing.

### Behaviour of the code that the models show and no run singles out

- After a crash between the LREM of the last entry of the list and the SET of
  `cache:found_blocks`, or when that SET fails, the orphan stays published: an
  empty list returns before anything is published.
- The orphan check and the coinbase are two RPCs. A reorganisation between them,
  or a check that got no answer, pays the miners from the coinbase of a block
  the pool did not mine (`PayoutBook` admits `Foreign` for this reason).
- Processed heights stand for blocks: a second own block at a paid height, for
  instance after a reorganisation, is never paid.
- A KEYS or GET of the payouts that fails at start leaves the map empty, and the
  next save overwrites the history. A SET of a payouts key that fails while that
  of the processed heights succeeds loses the payout if the daemon then dies.
  `"payouts"` is in neither `GetMayFail` nor `SetMayFail` in any run for that
  reason, and `HistoryReadable`, `SavesWhole` and `RestReadable` name it in the
  proofs.
- A rebuild pays every height along today's order and SETs only the keys of
  today's miners, so that keys of miners who left keep their old entries. Beside
  a running daemon its save can be mixed with, or undone by, the daemon's (see
  `PayoutRebuild` above).
- A SET of the published blocks, of their number or of the effort that fails
  leaves these three apart, and may leave a block published without the finder
  that is stored, until the next cycle that finds the list not empty.
- While an endpoint goes on answering without a result, the difficulty of the
  daemon may be 0 in cycle after cycle; `ZeroFades` is about what comes after.
- `removeOrphanedBlocks` compares hashes case-sensitively
  (`cmd/daemon/main.go:774`) below a comment that says otherwise (line 772).
- A cycle loads the shares before it reads the list. A block that is reported in
  between is given to the miner of the nearest share the cycle has, and by
  height and for good (`cmd/daemon/main.go:696`). A second block at a height
  inherits the finder of the first. `FinderHadShare` is what can be said.
- A daemon that has just started and cannot GET `cache:block_finders` resolves
  the finders anew and stores them over the old ones: those whose shares have
  left the buffer are lost. `"cold"` is therefore not in `GetMayFail` in the run,
  and `FinderStays` assumes so.
- The cycle that removes an orphan does not correct `last_found_time` and
  `last_found_height`. They name it until a cycle reads a list that is not empty,
  and so does the effort when no block is left.
- The time span of the hashrate is an unsigned difference. When the tip's clock
  is behind that of the bottom share it wraps and the hashrate is next to zero;
  `HashrateInSpan` is for clocks that agree with the heights.
- An entry with an empty block panics the daemon (`p2pool/parser.go:41` indexes
  the empty block for the error message) although `p2pool/cache.go:69` skips
  entries that do not parse.
- A protocol transaction is recognised by its looks. A Carrot block without one,
  whose transaction hashes look like one, would be misread; p2pool writes one in
  every such block, so the instance has none without.
- A Carrot block that is cut off inside its protocol transaction is read as one
  without: `skipProtocolTx` steps back (`p2pool/parser.go:445`), the version of
  the transaction, 4, becomes the number of the other transactions, and what is
  left after four hashes is read as the data of the side chain. It fails at the
  end of the entry when the protocol transaction is short; with more than seven
  outputs (hashes of 32 bytes) enough may be left for a share of arbitrary fields
  to come out under the name of the block, even in place of an intact copy of the
  same block in another slot. This is what the proof of
  `NothingElse` ran into, and `ShortProtocols` is the bound it needs.
- Pages that ask for no pool information show `lastPoolInfo` however old it is,
  and fail for as long as it has no last block.
- A share page without its raw share, and a page with a stream whose header meets
  a pool information without a last block, panic in the template before they read
  the stream opened for them, and the stream's goroutine waits on the full
  channel for ever (`cmd/web/api.go:116`). A stream that breaks off is shown as a whole list.
- The web site's start-up loop sleeps for one nanosecond (`cmd/web/web.go:176`)
  and waits for a side-chain last block, which `handlePoolInfo` of this
  repository (`cmd/api/main.go:242-330`) does not write.

## Proofs

| Theorem | Says | Assumes, besides the constants' assumptions |
|---|---|---|
| `PayoutLedgerProofs!TypeCorrect` | `[]TypeOK` | |
| `PayoutLedgerProofs!AppendOnly` | `LedgerAppendOnly` | `HistoryReadable`: the payouts can be read at start |
| `PayoutLedgerProofs!PaidOnce` | `[]OncePerHeight` | `SavesWhole`: payouts and processed heights can be read and written, no crash inside a save |
| `PayoutLedgerProofs!OrderStays` | `SnapshotStable` | the recorded orders can be read at start |
| `PayoutLedgerProofs!ProcessedPaid` | `[]ProcessedIsPaid` | payouts, processed heights and orders can be read at start, the SET of a payouts key does not fail |
| `PayoutLedgerProofs!ImplementsBook` | `BookSpec` | `SavesWhole` |
| `PayoutLedgerProofs!UntornPaid` | `RebuildSpec => []PaidUnlessTorn` | `RestReadable`: the payouts keys can be read and SET, and the SET of the processed heights does not fail |
| `BlockFindersProofs!FinderTypes` | `[]TypeOK` | |
| `BlockFindersProofs!FinderMinedThere` | `[]FinderHadShare` | |
| `BlockFindersProofs!FinderStays` | `FindersKept` | a daemon without finders can read the stored ones |
| `BlockFindersProofs!StoredFinderShown` | `[]FinderShown` | a daemon without finders can read the stored ones, and the SET of the published blocks does not fail |
| `BlockFindersProofs!AgreesAtRest` | `[]AgreeAtRest` | the SETs of the published blocks, their number and the effort do not fail |
| `PPLNSWindowProofs!LimitHolds` | `[]LimitKept` | |
| `PPLNSWindowProofs!WindowHolds` | `[]WindowIsRecent` | |
| `PPLNSWindowProofs!WindowTypeHolds` | `[]TypeOK` | |
| `PPLNSWindowProofs!WeightHolds` | `[]WeightConserved` | |
| `PPLNSWindowProofs!PositionsHold` | `[]PositionsShown` | |
| `PPLNSWindowProofs!SplitHolds`, `MatchHolds` | `[]SplitExact`, `[]MatchedWithinDust` | |
| `PPLNSWindowProofs!StoredHolds` | `[]WindowStored` | |
| `PPLNSWindowProofs!WordsHold` | `[]WordsExact` | |
| `PPLNSWindowProofs!HashrateHolds` | `[]HashrateInSpan` | |
| `ShareBufferProofs!UsableAreLoaded`, `NothingElseLoaded` | `[]UsableLoaded`, `[]NothingElse` | `ShortProtocols` |
| `ShareBufferProofs!BufferInvariant` | while the buffer is loaded, the map is that of the usable entries seen so far | `ShortProtocols` |
| `ShareBufferProofs!EntryParsed` | `ParseCacheEntry` undoes `Entry` for a whole entry, and returns nothing for one that lost bytes or has no version | the protocol transaction of the block is short |
| `PPLNSWindowProofs!CmpOrders` | `Cmp` is the order of the values | |
| `PPLNSWindowProofs!AddExact`, `SubExact`, `Mul64Exact`, `Div64Exact` | the operation on words is the operation on values, for every width | the result is in range; the divisor is not 0 |
| `PPLNSWindowProofs!DivExact` | the same of `Div`, with its long division | the divisor is not 0 |
| `SalviumRpcProofs!TriesAll`, `ComesRound` | `[]EachTried`, `[]IndexComesRound` | |
| `ApiCacheProofs!FreshAlways` | `[]FreshEnough` | |
| `ApiCacheProofs!UsableAlways` | `[]CachedIsUsable` | |
| `WebSiteProofs!FreshPages`, `FadingFailures` | `[]PageFresh`, `[]FailureFades` | |
| `WebSiteProofs!ReadStreams` | `[]StreamHasReader` | |

The constants' assumptions are those TLC evaluates in the runs. The ones that
carry weight are `WindowAssumption` (above) and `PercentAssumption`, that 100
fits in a word. Types of the other modules with proofs are proved as lemmas or
as part of the invariants (`TypeCorrect` of `SalviumRpcProofs` and
`ApiCacheProofs`, `Inv` of `WebSiteProofs`).

What a fold, a sum or a recursive function computes is proved by induction,
although the library's induction theorems take a predicate as a parameter, which
the provers cannot be given. `InductionLemmas` states induction with the *set*
of what satisfies the predicate, from two facts that need none: that a set of
natural numbers has a least element (`LeastNumber`), and that among subsets of a
finite set there is a smallest one (`SmallestSubset`). From these come that the
recursive definitions behind the community modules' folds have a solution, the
laws of finite sums (`SumAdd`, `SumChange`, `SumImage`, ...), `Telescope` and
`IntervalSum`, the counting of a set class by class (`CountedByClass`), the j-th
element of a set of numbers (`RankedPosition`), and the steps of an iteration.

None of the invariants is inductive by itself.

- *AppendOnly*: a SET writes what is in memory, so memory must extend Redis.
  It does not while the map is empty and not loaded yet. `AheadInv` says that
  this is the only exception, and none while the daemon pays or saves. The
  crash points and the failures of the other keys are unrestricted.
- *PaidOnce*: that a list has no two payouts for a height is kept because a
  height is paid only when it is not processed, which needs every payout in
  memory to be of a processed height, and every stored payout to be of a stored
  processed height - except during a save, when the payouts are ahead and are
  covered by the heights about to be stored. A crash in that interval is what
  the assumption excludes and `LedgerDoublePay` shows. All of it is `OnceInv`.
- *OrderStays*: an order in Redis must be in the daemon's memory too whenever the
  daemon may write it, that is once it has loaded (`RecallInv`); then paying takes
  the recorded order and the SET writes it back.
- *ProcessedPaid*: `PaidInv` says of the heights in memory what `ProcessedIsPaid`
  says of those in Redis, of payouts in memory and the order in memory. It holds
  while the memory is loaded; a fresh daemon may pay only after loading
  (`MemoryLoaded`). During a save `SaveInv` adds that what is not yet SET is what
  `unsaved` lists, so that at the SET of the processed heights all payouts are
  stored. `MinedInv` ties a block in memory to its height.
- *ImplementsBook*: `BookInv` says that Redis and memory agree outside of a save,
  and `Agree` that in one they differ only by the heights not yet processed,
  whose pages are empty by `OnceInv`. `CreditPage` computes the page that one
  call of `calculatePayouts` adds: the settlement of one coinbase along one
  order. All steps but `SaveProcessed` leave every page as it is; that one
  settles the new heights at once, which is a step of `PayoutBook`.
- *UntornPaid*: a rebuild pays from an empty memory and the daemon loads key by
  key, so that in between neither what was stored nor what will be pays a height
  in full. `BothInv` has the types of the cycle (`CycleInv`), that what the
  rebuild counts as processed is paid in its memory, in its order (`RebuildInv`),
  where a daemon that loads is (`LoadInv`), and `UntornInv`, which says for each
  member that is *not* in `torn` what then holds: what is stored is paid
  (`"redis"`); the daemon's memory is, or, while it reads, each key it has not
  read yet will make it so (`"memory"`); and what a process in a save has SET is
  still there (`"daemon"`, `"rebuild"`). At the SET of the processed heights
  these meet: every payout the memory has is stored, and the keys that the
  process does not SET can only add payouts.
- *StoredFinderShown*: `InMemory` says that a daemon with found blocks remembers
  every stored finder and shows those it remembers; a block published earlier
  names what was then in memory, and a finder is stored only from there. The
  filtering of the orphans keeps entries as they are (`RankedPosition`).
- *FinderMinedThere*, *FinderStays*: every finder in memory or in Redis has mined
  a share of its height, and the loaded shares are mined shares (`SharesMined`,
  `HadShare`, which no share leaving the buffer disturbs). After loading, memory
  has every stored finder (`Remembered`), so that a SET replaces none.
- *AgreesAtRest*: `PublishedInv` and `NumberInv` follow list, count and effort
  from SET to SET through the removal of orphans, and through a crash, after
  which `foundBlocks` is empty.
- *TriesAll*, *ComesRound*: the index after n attempts is n places after the
  first one, modulo the endpoints (`RoundInv`), and these are all of them after
  as many attempts as endpoints.
- *FreshPages*, *FadingFailures*: one pool information is followed from the API
  to the page. It is at most `MaxRequest` old when it is cached, `CacheTime` - 1
  older when it is found, and each further request that hands it on through
  `lastPoolInfo` adds at most `MaxRequest`: the invariant has a bound for each
  place it can be in. The same bounds tie a `Nil` or a `Bare` to the last call
  that gave it, and a list without shares to its own call, with `ListTime`
  instead (`FadingEntries`, `FadingLists`, `FadingRequest`).
- *Difficulty*: the columns of half words are added up with the lemmas on
  quotient and remainder of that module. For the long division, `Divided` is the
  loop's invariant: before bit i - 1 comes down, the dividend without its i lower
  bits is the quotient so far times the divisor plus a smaller remainder. The
  shifted remainder never loses a bit in two words, because it is at most the
  part of the dividend that has come down: `DivExact` needs no bound on the
  divisor.
- *LimitHolds*, *WindowHolds*: `WalkType` and `DepthInv` tie the height of the
  share the walk is at to `blockDepth`; the limit needs that an uncle is only
  added when it fits in the rest.
- *WeightHolds*, *PositionsHold*: `SumInv` adds up, over the miners, what has been
  counted so far, with the penalties still to be given to the share the walk is
  at. A sum over a *set* of counted shares needs that none is counted twice:
  `BranchInv` has the shares of the walk form a branch of the map and the counted
  uncles be uncles of it, so that `OnceOnBranch` applies to the next one.
  `PositionInv` has a position for everything counted, none deeper than the walk.
- *SplitHolds*, *MatchHolds*: the parts are differences of neighbouring cumulative
  values, so they telescope to the reward, and rounding moves each by less than
  one. In an order by weight, parts before a rank are then at most one unit less,
  and parts after it at most one more, which bounds whatever a sort puts there.
- *StoredHolds*: the share at depth n of the one walk is `Ancestor[n]` of the
  other, all of them are in the map, and a miner's positions are the ranks of its
  steps (`StoredInv`).
- *WordsHold*: cumulative weights are at most the total (`CumulativeBelow`), so
  every product and quotient on the way fits when the last one does.
- *EntryParsed*: both directions are followed part by part. What p2pool wrote is
  laid out in the entry one `Piece` after another (`MainLaid`, `SideLaid`), and a
  reader that starts at a piece of its kind ends at the next one. Of a cut entry
  the same is true with every position beyond the end replaced by `Fail`
  (`Clip`): the lemmas `...Clip` say so for each reader, also for the lists of
  outputs and chains, which are inductions over the interval (`IntervalInduction`).
  So whole and cut entries have one lemma per reader. A varint that is cut off
  has no last byte, since all that is left of it is 128 or more. What a cut does
  inside a protocol transaction is the hard case: the reader falls back to its
  beginning, and the bounds `SidechainNeeds` and `ShortProtocols` show that what
  it then takes for side-chain data is too short to be any. A cut elsewhere
  makes some position `Fail`, which every later reader passes on.
- *UsableAreLoaded*, *NothingElseLoaded*: `BufferInv` says of every moment of a
  load what the properties say of its end: the names in the map are those of the
  usable entries already parsed, with their shares. A later entry can only
  overwrite its own share, because `HashNames` gives back the block from the
  name; an entry that is no share adds nothing.
- *FreshAlways*: for a stored entry, its age and the time it has left add up to
  at most `TTL + MaxFetch` (`EntryOK`); one that has not expired is therefore no
  older. It holds for entries stored out of order too.

Only model-checked is liveness (`EventuallyPaid`, `OrphanLeaves`,
`OrphanUnpublished`, `RewardRestored`, `ZeroFades`, `Recovers`, `Converges`,
`ExpiredLeaves`, `LastFoundSettles`), which needs ENABLED and is out of the prover's reach. Every
safety property that a run checks is also a theorem.

## Not modelled

- What a rebuild SETs besides the ledger and the list (finders, counters), and
  two rebuilds at the same time.
- The statistics keys of the daemon (`storePPLNS`, `storeStats`,
  `storeNetworkStats`): recomputed and overwritten by every cycle, with a time to
  live of 24 hours that a property would only restate.
- base58 and addresses; varints and lengths of 2^63 and more; the lookups of one
  share in `cache.go`, which have no caller.
- What the pages show and the templates beyond what can panic; static pages,
  logging, deployment files.
- In `ApiCache`, what each handler computes from its values; in `SalviumRpc`,
  the JSON of each method, and with it a response without a block header, on
  whose hash the log line panics (`cmd/daemon/main.go:776`).
- The two goroutines of the miner page that assign `shares` without
  synchronisation (`cmd/web/web.go:668-708`).
- The client of the web site has no timeout. `MaxRequest` is therefore an
  assumption on the API, whose server gives up on writing after 30 s
  (`cmd/api/main.go:86-87`).

## Plan

The order followed was: the ledger and its abstraction, because it is the state
that cannot be recomputed; the PPLNS result it pays along; the RPC client it
depends on; the API that serves it; then the finders, the web site, the
arithmetic and the parser; then the theorems. What is left:

1. `ObserverView`: a page of the API composed of several keys with the daemon
   SETting them one by one, abstracting `PayoutLedger` and `ApiCache`.
2. Statistics keys with their time to live.
