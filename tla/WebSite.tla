-------------------------------- MODULE WebSite --------------------------------
(***************************************************************************)
(* The web site (cmd/web): its handlers, the cache they call the API       *)
(* through (cache.go, api.go), the pool information they share             *)
(* (lastPoolInfo) and the streams two pages are made of.                   *)
(*                                                                         *)
(* A call that fails, in whatever way, is a nil result, and nil results    *)
(* are cached and shared like others.  A handler that dereferences nil     *)
(* panics: outside renderPage the connection is dropped, inside it the     *)
(* client gets the error page.                                             *)
(*                                                                         *)
(* Time is counted in ticks.  A pool information is abstracted to the      *)
(* ticks since the API was asked for it, or Nil, or Bare when it has no    *)
(* last block, a list of shares to whether it has any.  The ages of what   *)
(* is no longer bounded stop at Old.                                       *)
(***************************************************************************)
EXTENDS Integers, Sequences

CONSTANTS
  Request,     \* requests in flight at the same time
  Streaming,   \* bound: those that may ask for a page with a stream
  Items,       \* payouts in the list a stream carries
  CacheTime,   \* ticks a pool information stays valid in the cache
  ListTime,    \* ticks the shares of /miners stay valid in the cache
  MaxRequest   \* bound: ticks from a request to its response

ASSUME WebAssumption ==
  /\ Streaming \subseteq Request
  /\ Items \in Nat
  /\ CacheTime \in Nat \ {0}
  /\ ListTime \in Nat \ {0}
  /\ MaxRequest \in Nat

Nil  == -1
Bare == -2
Bad  == {Nil, Bare}
Old  == IF ListTime >= CacheTime + MaxRequest THEN ListTime + 2 * MaxRequest
                                           ELSE CacheTime + 3 * MaxRequest

Age      == 0..Old
PoolInfo == Age \cup {Nil, Bare}

(* One page for each way a handler uses pool information and streams:      *)
(* "index" also stands for /miner and /calculate-share-time with a hash    *)
(* rate, "payouts" for the header of every page that fetches none.         *)
Page     == {"index", "miners", "blocks", "share", "payouts", "api"}
Streams  == {"share", "payouts"}
Fetching == {"index", "miners", "blocks", "share"}

VARIABLES
  started,    \* is the start-up loop over?
  entry,      \* the cache's entry for pool_info: at most one
  listed,     \* and the one for the shares of /miners
  lastPool,   \* lastPoolInfo
  pc, page, pool, age,   \* the requests
  some,       \* of a request for /miners: did its list have shares?
  fit,        \* was there what a template uses before its stream?
  stream,     \* the goroutine and the channel of each request
  sinceBad,   \* history: ticks since a call failed or gave nothing to show
  served      \* history: the response of the last step, if it was one

request == <<pc, page, pool, age, some, fit>>
vars    == <<started, entry, listed, lastPool, request, stream, sinceBad, served>>

NoStream == [at |-> "none", sent |-> 0, chan |-> << >>, shown |-> << >>]

Point == {"idle", "share", "raw", "miner", "ensure", "lookup", "call", "cache",
          "store", "use", "list", "keep", "show", "draw"}

Entry    == [pool : PoolInfo, left : 1..CacheTime]
List     == [some : BOOLEAN, left : 1..ListTime]
Stream   == [at : {"none", "call", "decode", "send", "closed"}, sent : 0..Items,
             chan : Seq(1..Items), shown : Seq(1..Items)]
Outcome  == {"ok", "short", "not found", "error", "dropped"}
Response == [page : Page, outcome : Outcome, pool : PoolInfo, since : Age]

TypeOK ==
  /\ started \in BOOLEAN
  /\ \A e \in entry : e \in Entry
  /\ \A e \in listed : e \in List
  /\ lastPool \in PoolInfo
  /\ pc \in [Request -> Point]
  /\ page \in [Request -> Page]
  /\ pool \in [Request -> PoolInfo]
  /\ age \in [Request -> 0..MaxRequest]
  /\ some \in [Request -> BOOLEAN]
  /\ fit \in [Request -> BOOLEAN]
  /\ stream \in [Request -> Stream]
  /\ sinceBad \in Age
  /\ \A r \in served : r \in Response

Init ==
  /\ started = FALSE
  /\ entry = {}
  /\ listed = {}
  /\ lastPool = Nil
  /\ pc = [h \in Request |-> "idle"]
  /\ page = [h \in Request |-> "index"]
  /\ pool = [h \in Request |-> Nil]
  /\ age = [h \in Request |-> 0]
  /\ some = [h \in Request |-> TRUE]
  /\ fit = [h \in Request |-> TRUE]
  /\ stream = [h \in Request |-> NoStream]
  /\ sinceBad = Old
  /\ served = {}

-----------------------------------------------------------------------------
(* The loop at the start of main: pool_info, not cached, asked for until   *)
(* it has a last block.                                                    *)
StartUp ==
  /\ ~started
  /\ started' = TRUE
  /\ served' = {}
  /\ UNCHANGED <<entry, listed, lastPool, request, stream, sinceBad>>

FirstStep(p) == CASE p = "share"   -> "share"
                  [] p = "payouts" -> "miner"
                  [] p = "api"     -> "ensure"
                  [] OTHER         -> "lookup"

(* A request comes, and finds a place that holds no stream.                *)
Ask(h, p) ==
  /\ started /\ pc[h] = "idle" /\ stream[h] = NoStream
  /\ p \in Streams => h \in Streaming
  /\ pc' = [pc EXCEPT ![h] = FirstStep(p)]
  /\ page' = [page EXCEPT ![h] = p]
  /\ fit' = [fit EXCEPT ![h] = TRUE]
  /\ served' = {}
  /\ UNCHANGED <<started, entry, listed, lastPool, pool, age, some, stream, sinceBad>>

(* The response to h: what it shows, and when a call last failed.          *)
Respond(h, outcome, p) ==
  /\ served' = {[page |-> page[h], outcome |-> outcome, pool |-> p,
                 since |-> sinceBad']}
  /\ pc' = [pc EXCEPT ![h] = "idle"]
  /\ page' = [page EXCEPT ![h] = "index"]
  /\ pool' = [pool EXCEPT ![h] = Nil]
  /\ age' = [age EXCEPT ![h] = 0]
  /\ some' = [some EXCEPT ![h] = TRUE]

(* A call's effect on the history.                                         *)
Called(good) == sinceBad' = IF good THEN sinceBad ELSE 0

(* The calls for the share, its raw block and the miner are not cached.    *)
(* The page that says "not found" is passed no pool information.           *)
FindShare(h) ==
  /\ pc[h] = "share"
  /\ \E ok \in BOOLEAN :
       /\ Called(ok)
       /\ IF ok THEN /\ pc' = [pc EXCEPT ![h] = "raw"]
                     /\ UNCHANGED <<page, pool, age, some>> /\ served' = {}
                ELSE Respond(h, "not found", lastPool)
  /\ UNCHANGED <<started, entry, listed, lastPool, fit, stream>>

FindRaw(h) ==
  /\ pc[h] = "raw"
  /\ \E ok \in BOOLEAN : Called(ok) /\ fit' = [fit EXCEPT ![h] = ok]
  /\ pc' = [pc EXCEPT ![h] = "lookup"]
  /\ served' = {}
  /\ UNCHANGED <<started, entry, listed, lastPool, page, pool, age, some, stream>>

FindMiner(h) ==
  /\ pc[h] = "miner"
  /\ \E ok \in BOOLEAN :
       /\ Called(ok)
       /\ IF ok THEN /\ pc' = [pc EXCEPT ![h] = "use"]
                     /\ stream' = [stream EXCEPT ![h].at = "call"]
                     /\ UNCHANGED <<page, pool, age, some>> /\ served' = {}
                ELSE Respond(h, "not found", lastPool) /\ UNCHANGED stream
  /\ UNCHANGED <<started, entry, listed, lastPool, fit>>

(* Mutation: a nil that was stored is taken for a result for ever.         *)
EnsureNothing(h) ==
  /\ pc[h] = "ensure"
  /\ pool' = [pool EXCEPT ![h] = lastPool]
  /\ pc' = [pc EXCEPT ![h] = "use"]
  /\ served' = {}
  /\ UNCHANGED <<started, entry, listed, lastPool, page, age, some, fit, stream, sinceBad>>

(* ensureGetLastPoolInfo calls the API only when there is none.            *)
Ensure(h) ==
  /\ pc[h] = "ensure"
  /\ pool' = [pool EXCEPT ![h] = lastPool]
  /\ pc' = [pc EXCEPT ![h] = IF lastPool = Nil THEN "lookup" ELSE "use"]
  /\ served' = {}
  /\ UNCHANGED <<started, entry, listed, lastPool, page, age, some, fit, stream, sinceBad>>

(* cacheResult: an entry is valid until its time is over; the call and the *)
(* store are made without the lock, over whatever came meanwhile.          *)
Valid(e) == e.left > 0

Lookup(h) ==
  /\ pc[h] = "lookup"
  /\ IF \E e \in entry : Valid(e)
     THEN /\ \E e \in entry : pool' = [pool EXCEPT ![h] = e.pool]
          /\ pc' = [pc EXCEPT ![h] = "store"]
     ELSE pc' = [pc EXCEPT ![h] = "call"] /\ UNCHANGED pool
  /\ served' = {}
  /\ UNCHANGED <<started, entry, listed, lastPool, page, age, some, fit, stream, sinceBad>>

(* getTypeFromAPI: nil on any failure; and the API answers with whatever   *)
(* it could read, a last block or none (handlePoolInfo).                   *)
Call(h) ==
  /\ pc[h] = "call"
  /\ \E p \in {0} \cup Bad : Called(p \notin Bad) /\ pool' = [pool EXCEPT ![h] = p]
  /\ pc' = [pc EXCEPT ![h] = "cache"]
  /\ served' = {}
  /\ UNCHANGED <<started, entry, listed, lastPool, page, age, some, fit, stream>>

Cache(h) ==
  /\ pc[h] = "cache"
  /\ entry' = {[pool |-> pool[h], left |-> CacheTime]}
  /\ pc' = [pc EXCEPT ![h] = "store"]
  /\ served' = {}
  /\ UNCHANGED <<started, listed, lastPool, page, pool, age, some, fit, stream, sinceBad>>

(* Mutation: the handlers keep the last pool information that was not nil. *)
StorePoolSome(h) ==
  /\ pc[h] = "store"
  /\ lastPool' = IF pool[h] = Nil THEN lastPool ELSE pool[h]
  /\ pc' = [pc EXCEPT ![h] = "use"]
  /\ served' = {}
  /\ UNCHANGED <<started, entry, listed, page, pool, age, some, fit, stream, sinceBad>>

(* lastPoolInfo.Store(poolInfo), nil or not, newer or not.                 *)
StorePool(h) ==
  /\ pc[h] = "store"
  /\ lastPool' = pool[h]
  /\ pc' = [pc EXCEPT ![h] = "use"]
  /\ served' = {}
  /\ UNCHANGED <<started, entry, listed, page, pool, age, some, fit, stream, sinceBad>>

(* The handler has its pool information: the pages of "index" and /miners  *)
(* use its last block, the API page copies it, all before renderPage,      *)
(* outside of which nothing recovers.                                      *)
Drops(h) ==
  \/ page[h] \in {"index", "miners"} /\ pool[h] \in Bad
  \/ page[h] = "api" /\ pool[h] = Nil

Drop(h) ==
  /\ pc[h] = "use" /\ Drops(h)
  /\ UNCHANGED <<started, entry, listed, lastPool, fit, stream, sinceBad>>
  /\ Respond(h, "dropped", pool[h])

(* renderPage takes lastPoolInfo for a pool information that is nil or was *)
(* not passed; the example of the API page is the handler's own.           *)
Context(h) == IF page[h] = "api" \/ pool[h] = Nil THEN lastPool ELSE pool[h]

(* The header of every page uses the last block of a pool information that *)
(* is not nil; the blocks page needs one when it has rows.                 *)
Render(h) ==
  /\ pc[h] = "use" /\ page[h] \in {"index", "blocks", "api"} /\ ~Drops(h)
  /\ UNCHANGED <<started, entry, listed, lastPool, fit, stream, sinceBad>>
  /\ \E rows \in BOOLEAN :
       Respond(h, IF \/ Context(h) = Bare
                     \/ page[h] = "blocks" /\ rows /\ Context(h) = Nil
                  THEN "error" ELSE "ok", Context(h))

(* /miners goes on to the shares in the window, which are cached for       *)
(* longer than the pool information.  Lists of other windows have entries  *)
(* of their own.                                                           *)
FindList(h) ==
  /\ pc[h] = "use" /\ page[h] = "miners" /\ ~Drops(h)
  /\ IF \E e \in listed : Valid(e)
     THEN /\ \E e \in listed : some' = [some EXCEPT ![h] = e.some]
          /\ pc' = [pc EXCEPT ![h] = "show"]
     ELSE pc' = [pc EXCEPT ![h] = "list"] /\ UNCHANGED some
  /\ served' = {}
  /\ UNCHANGED <<started, entry, listed, lastPool, page, pool, age, fit, stream, sinceBad>>

CallList(h) ==
  /\ pc[h] = "list"
  /\ \E found \in BOOLEAN : Called(found) /\ some' = [some EXCEPT ![h] = found]
  /\ pc' = [pc EXCEPT ![h] = "keep"]
  /\ served' = {}
  /\ UNCHANGED <<started, entry, listed, lastPool, page, pool, age, fit, stream>>

(* Mutation: a list without shares is cached twice as long.                *)
KeepListLonger(h) ==
  /\ pc[h] = "keep"
  /\ listed' = {[some |-> some[h],
                 left |-> IF some[h] THEN ListTime ELSE 2 * ListTime]}
  /\ pc' = [pc EXCEPT ![h] = "show"]
  /\ served' = {}
  /\ UNCHANGED <<started, entry, lastPool, page, pool, age, some, fit, stream, sinceBad>>

KeepList(h) ==
  /\ pc[h] = "keep"
  /\ listed' = {[some |-> some[h], left |-> ListTime]}
  /\ pc' = [pc EXCEPT ![h] = "show"]
  /\ served' = {}
  /\ UNCHANGED <<started, entry, lastPool, page, pool, age, some, fit, stream, sinceBad>>

(* A list that is nil or empty gives the error page, which is passed no    *)
(* pool information.                                                       *)
ShowList(h) ==
  /\ pc[h] = "show"
  /\ UNCHANGED <<started, entry, listed, lastPool, fit, stream, sinceBad>>
  /\ IF some[h] THEN Respond(h, "ok", pool[h]) ELSE Respond(h, "error", lastPool)

(* The pages with a stream: the share page opens it here, the payouts page *)
(* has done so.  A Bare pool information is already too little for the     *)
(* header.  Of the one in the header of the payouts page only that is kept.*)
RenderStream(h) ==
  /\ pc[h] = "use" /\ page[h] \in Streams
  /\ pool' = [pool EXCEPT ![h] = IF page[h] = "share" THEN Context(h)
                                     ELSE IF lastPool = Bare THEN Bare ELSE Nil]
  /\ fit' = [fit EXCEPT ![h] = @ /\ Context(h) # Bare]
  /\ pc' = [pc EXCEPT ![h] = "draw"]
  /\ stream' = [stream EXCEPT ![h].at = IF page[h] = "share" THEN "call" ELSE @]
  /\ served' = {}
  /\ UNCHANGED <<started, entry, listed, lastPool, page, age, some, sinceBad>>

-----------------------------------------------------------------------------
Drawing(h) == pc[h] = "draw" /\ page[h] \in Streams

(* Mutation: the template uses the pool information before the stream.     *)
PanicsPoolFirst(h) == ~fit[h] \/ (page[h] = "share" /\ pool[h] = Nil)

(* Before the stream, the header uses the pool information, the template   *)
(* of the share page the raw share.                                        *)
Panics(h) == ~fit[h]

(* The page is over and its stream has lost its reader.                    *)
Abandon(h) ==
  /\ Drawing(h) /\ Panics(h)
  /\ UNCHANGED <<started, entry, listed, lastPool, fit, stream, sinceBad>>
  /\ Respond(h, "error", pool[h])

(* range payouts, until the channel is closed and empty.                   *)
Receive(h) ==
  /\ Drawing(h) /\ ~Panics(h)
  /\ stream[h].chan # << >>
  /\ stream' = [stream EXCEPT ![h].shown = Append(@, Head(stream[h].chan)),
                              ![h].chan = Tail(@)]
  /\ served' = {}
  /\ UNCHANGED <<started, entry, listed, lastPool, request, sinceBad>>

(* A list that was cut off is shown as if it were whole.                   *)
Whole(h) == stream[h].shown = [k \in 1..Items |-> k]

EndOfStream(h) ==
  /\ Drawing(h) /\ ~Panics(h)
  /\ UNCHANGED <<started, entry, listed, lastPool, fit, sinceBad>>
  /\ stream[h].at = "closed" /\ stream[h].chan = << >>
  /\ Respond(h, IF page[h] = "share" /\ pool[h] = Nil THEN "error"
                ELSE IF Whole(h) THEN "ok" ELSE "short", pool[h])
  /\ stream' = [stream EXCEPT ![h] = NoStream]

-----------------------------------------------------------------------------
(* The goroutine of a stream: the call, then one item after the other      *)
(* through a channel of one place.                                         *)
StreamCall(h) ==
  /\ stream[h].at = "call"
  /\ \E ok \in BOOLEAN :
       /\ Called(ok)
       /\ stream' = [stream EXCEPT ![h].at = IF ok THEN "decode" ELSE "closed"]
  /\ served' = {}
  /\ UNCHANGED <<started, entry, listed, lastPool, request>>

Decode(h) ==
  /\ stream[h].at = "decode"
  /\ \E ok \in BOOLEAN :
       /\ Called(ok)
       /\ stream' = [stream EXCEPT ![h].at = IF ok /\ stream[h].sent < Items
                                             THEN "send" ELSE "closed"]
  /\ served' = {}
  /\ UNCHANGED <<started, entry, listed, lastPool, request>>

Send(h) ==
  /\ stream[h].at = "send" /\ stream[h].chan = << >>
  /\ stream' = [stream EXCEPT ![h].at = "decode", ![h].sent = @ + 1,
                              ![h].chan = Append(@, stream[h].sent + 1)]
  /\ served' = {}
  /\ UNCHANGED <<started, entry, listed, lastPool, request, sinceBad>>

(* The goroutine ends; nobody holds the channel.                           *)
Forget(h) ==
  /\ stream[h].at = "closed" /\ page[h] \notin Streams
  /\ stream' = [stream EXCEPT ![h] = NoStream]
  /\ served' = {}
  /\ UNCHANGED <<started, entry, listed, lastPool, request, sinceBad>>

-----------------------------------------------------------------------------
(* The site is started again, time passes.                                 *)
Restart ==
  /\ started' = FALSE
  /\ entry' = {}
  /\ listed' = {}
  /\ lastPool' = Nil
  /\ pc' = [h \in Request |-> "idle"]
  /\ page' = [h \in Request |-> "index"]
  /\ pool' = [h \in Request |-> Nil]
  /\ age' = [h \in Request |-> 0]
  /\ some' = [h \in Request |-> TRUE]
  /\ fit' = [h \in Request |-> TRUE]
  /\ stream' = [h \in Request |-> NoStream]
  /\ served' = {}
  /\ UNCHANGED sinceBad

Older(p) == IF p \in 0..(Old - 1) THEN p + 1 ELSE p

(* A request is over within MaxRequest ticks.  An entry that expires is    *)
(* forgotten: the code keeps it, and never looks at it again.              *)
Tick ==
  /\ \A h \in Request : pc[h] # "idle" => age[h] < MaxRequest
  /\ age' = [h \in Request |-> IF pc[h] = "idle" THEN 0 ELSE age[h] + 1]
  /\ pool' = [h \in Request |-> Older(pool[h])]
  /\ lastPool' = Older(lastPool)
  /\ entry' = {[pool |-> Older(e.pool), left |-> e.left - 1] :
                 e \in {f \in entry : f.left > 1}}
  /\ listed' = {[e EXCEPT !.left = @ - 1] : e \in {f \in listed : f.left > 1}}
  /\ sinceBad' = Older(sinceBad)
  /\ served' = {}
  /\ UNCHANGED <<started, pc, page, some, fit, stream>>

Handle(h) ==
  \/ FindShare(h) \/ FindRaw(h) \/ FindMiner(h) \/ Ensure(h) \/ Lookup(h)
  \/ Call(h) \/ Cache(h) \/ StorePool(h) \/ Drop(h) \/ Render(h)
  \/ FindList(h) \/ CallList(h) \/ KeepList(h) \/ ShowList(h) \/ RenderStream(h)
  \/ Abandon(h) \/ Receive(h) \/ EndOfStream(h)

Carry(h) == StreamCall(h) \/ Decode(h) \/ Send(h) \/ Forget(h)

Next ==
  \/ StartUp
  \/ \E h \in Request : Handle(h) \/ Carry(h) \/ \E p \in Page : Ask(h, p)
  \/ Restart \/ Tick

Spec == Init /\ [][Next]_vars

-----------------------------------------------------------------------------
(***************************************************************************)
(* Properties.                                                             *)
(***************************************************************************)
(* Bounds on the age of a result when it is used: it was at most MaxRequest *)
(* old when it was cached, CacheTime - 1 older when it was found, and two  *)
(* more requests may have handed it on through lastPoolInfo.               *)
Horizon == CacheTime + 3 * MaxRequest - 1

(* A page that asks for the pool information shows none older than that,   *)
(* whatever requests overlap: overtaken requests that overwrite the cache  *)
(* and lastPoolInfo, and pages that fall back on lastPoolInfo, are no      *)
(* exception (cache.go:26, web.go:236).  A page that does not get as far   *)
(* shows any.                                                              *)
PageFresh ==
  \A r \in served :
    r.page \in Fetching /\ r.outcome # "not found" => r.pool <= Horizon

(* The same of a failure: cached for at most MaxRequest after it, found at *)
(* most one tick less than the cache time later, used within MaxRequest.   *)
(* Only /miners has an error page of its own, for its list.                *)
FailureHorizon(p, outcome) ==
  (IF p = "miners" /\ outcome = "error" THEN ListTime ELSE CacheTime)
  + 2 * MaxRequest - 1

(* A cached failure is shared, but not for long: a dropped connection, an  *)
(* error page, a page that finds nothing or a list cut short has a call    *)
(* behind it that failed, or found no shares or no last block, no longer   *)
(* ago than that (cache.go:39, web.go:495).  The exception: pages that     *)
(* fetch no pool information meet the one of others without a last block   *)
(* for as long as nobody fetches another.                                  *)
FailureFades ==
  \A r \in served :
    r.outcome # "ok" /\ ~(r.page \notin Fetching /\ r.pool = Bare)
    => r.since <= FailureHorizon(r.page, r.outcome)

(* A stream that still runs has a reader, so that its goroutine ends and   *)
(* with it the call of the API.  The exception is a page whose header met  *)
(* a pool information without a last block, or a share page whose raw      *)
(* share was not to be had: it panics before it reads the stream, whose    *)
(* goroutine then waits on the full channel for ever (api.go:116).         *)
StreamHasReader ==
  \A h \in Request : stream[h] # NoStream /\ fit[h] => page[h] \in Streams

=============================================================================
