---------------------------- MODULE WebSiteProofs ----------------------------
(***************************************************************************)
(* Proofs about WebSite, for any number of overlapping requests, any list  *)
(* of payouts, any cache time and any length of a request: pages are       *)
(* fresh, failures fade, and a stream has a reader.                        *)
(*                                                                         *)
(* The invariant follows one pool information from the answer of the API   *)
(* through the cache, a request and lastPoolInfo to another request, and   *)
(* bounds its age at each of them; the same for the last failed call       *)
(* behind a nil.                                                           *)
(***************************************************************************)
EXTENDS WebSite, TLAPS

(* The step a request is at belongs to its page; the streams of a page are *)
(* opened after its first call has been answered.                          *)
Flow(h) ==
  /\ pc[h] # "idle" => started
  /\ pc[h] = "idle" => page[h] = "index" /\ pool[h] = Nil
  /\ pc[h] \in {"share", "raw"} => page[h] = "share"
  /\ pc[h] = "miner" => page[h] = "payouts"
  /\ pc[h] = "ensure" => page[h] = "api"
  /\ pc[h] = "draw" => page[h] \in Streams
  /\ pc[h] \in {"list", "keep", "show"} => page[h] = "miners"
  /\ pc[h] \in {"lookup", "call", "cache", "store"} => page[h] # "payouts"
  /\ pc[h] \in {"share", "raw", "miner"} => stream[h] = NoStream
  /\ page[h] = "payouts" /\ pc[h] # "draw" => pool[h] = Nil /\ fit[h]
  /\ page[h] = "payouts" /\ ~fit[h] => pool[h] = Bare

(* How old a result is at most: from the API, from the cache, from there   *)
(* through a request, and through another one's lastPoolInfo.              *)
Fetched == CacheTime + MaxRequest - 1
Handed  == Fetched + MaxRequest
Found   == ListTime + MaxRequest - 1

(* Where a request is that has its pool information.                       *)
Using == {"use", "list", "keep", "show"}

FreshEntries == \A e \in entry : e.pool <= MaxRequest + CacheTime - e.left

FreshRequest(h) ==
  /\ pc[h] = "cache" => pool[h] <= age[h]
  /\ pc[h] = "store" => pool[h] <= Fetched + age[h]
  /\ pc[h] \in Using /\ page[h] \in Fetching
       => pool[h] <= Fetched + age[h] /\ lastPool <= Handed + age[h]
  /\ pc[h] = "draw" /\ page[h] = "share" => pool[h] <= Handed + age[h]

(* How long ago a call failed, or gave nothing to show, at most, when      *)
(* there is its result.                                                    *)
FadingEntries ==
  \A e \in entry : e.pool \in Bad => sinceBad <= MaxRequest + CacheTime - e.left

FadingLists ==
  \A e \in listed : ~e.some => sinceBad <= MaxRequest + ListTime - e.left

FadingRequest(h) ==
  /\ pc[h] = "cache" /\ pool[h] \in Bad => sinceBad <= age[h]
  /\ pc[h] = "store" /\ pool[h] \in Bad => sinceBad <= Fetched + age[h]
  /\ pc[h] = "use" /\ page[h] \in Fetching /\ pool[h] \in Bad
       => sinceBad <= Fetched + age[h]
  /\ pc[h] = "use" /\ page[h] = "api" /\ pool[h] = Nil => sinceBad <= Fetched + age[h]
  /\ pc[h] = "draw" /\ page[h] = "share" /\ pool[h] = Nil
       => sinceBad <= Fetched + age[h]
  /\ page[h] = "share" /\ ~fit[h] => sinceBad <= Fetched + age[h]
  /\ pc[h] = "keep" /\ ~some[h] => sinceBad <= age[h]
  /\ pc[h] = "show" /\ ~some[h] => sinceBad <= Found + age[h]

(* The items of a stream come in order, and one that ends early ends with  *)
(* a call that fails.                                                      *)
InOrder(s) ==
  /\ s.shown = [k \in 1..Len(s.shown) |-> k]
  /\ \/ s.chan = << >> /\ s.sent = Len(s.shown)
     \/ s.chan # << >> /\ s.sent = Len(s.shown) + 1
        /\ Tail(s.chan) = << >> /\ Head(s.chan) = s.sent
  /\ s.at = "send" => s.sent < Items

StreamSound(h) ==
  /\ InOrder(stream[h])
  /\ page[h] \in Streams /\ stream[h].at = "closed" /\ stream[h].sent < Items
       => sinceBad <= age[h]

RequestInv(h) ==
  Flow(h) /\ FreshRequest(h) /\ FadingRequest(h) /\ StreamSound(h)

Inv ==
  /\ TypeOK
  /\ FreshEntries /\ FadingEntries /\ FadingLists
  /\ \A h \in Request : RequestInv(h)
  /\ StreamHasReader
  /\ PageFresh
  /\ FailureFades

(* At the start nothing is in flight.                                      *)
LEMMA InvInit == Init => Inv
<1> SUFFICES ASSUME Init PROVE Inv
  OBVIOUS
<1>0. NoStream \in Stream /\ InOrder(NoStream) /\ Old \in Age /\ 0 \in 0..MaxRequest
  BY WebAssumption DEF NoStream, Stream, InOrder, Old, Age
<1>1. TypeOK
  BY <1>0 DEF Init, TypeOK, Point, Page, PoolInfo
<1>2. \A h \in Request : RequestInv(h)
  BY <1>0, WebAssumption DEF Init, RequestInv, Flow, FreshRequest, Using, FadingRequest,
     Found, Bad, StreamSound, NoStream, Streams
<1>3. QED
  BY <1>1, <1>2, WebAssumption DEF Init, Inv, FreshEntries, FadingEntries, FadingLists,
     StreamHasReader, PageFresh, FailureFades

(* A stream that nobody touches stays in order.                            *)
LEMMA SameStream ==
  ASSUME NEW k \in Request, Inv, stream'[k] = stream[k]
  PROVE  InOrder(stream[k])'
BY DEF Inv, RequestInv, StreamSound, InOrder

(* A call that succeeds leaves the history alone, one that fails starts it *)
(* anew.                                                                   *)
LEMMA CalledFades ==
  ASSUME Inv, NEW ok \in BOOLEAN, Called(ok)
  PROVE  sinceBad' \in Age /\ sinceBad' <= sinceBad /\ (~ok => sinceBad' = 0)
BY WebAssumption DEF Inv, TypeOK, Called, Age, Old

(* No entry comes or stays for longer than before.                         *)
LEMMA ListsKept ==
  ASSUME Inv, listed' = listed, sinceBad' \in Age, sinceBad' <= sinceBad
  PROVE  FadingLists'
<1> SUFFICES ASSUME NEW e \in listed, ~e.some
             PROVE  sinceBad' <= MaxRequest + ListTime - e.left
  BY DEF FadingLists
<1>1. e.left \in Nat /\ sinceBad \in Nat /\ sinceBad' \in Nat
  BY WebAssumption DEF Inv, TypeOK, List, Age
<1>2. sinceBad <= MaxRequest + ListTime - e.left
  BY DEF Inv, FadingLists
<1>3. QED
  BY <1>1, <1>2, WebAssumption

(* The site starts.                                                       *)
LEMMA StartUpKeeps ==
  ASSUME Inv, StartUp
  PROVE  Inv'
<1> USE DEF StartUp, request
<1>1. TypeOK'
  BY DEF Inv, TypeOK
<1>2. FreshEntries' /\ FadingEntries' /\ FadingLists'
  BY DEF Inv, FreshEntries, FadingEntries, FadingLists
<1>3. ASSUME NEW k \in Request PROVE RequestInv(k)'
  <2>1. Flow(k)'
    BY DEF Inv, RequestInv, Flow
  <2>2. FreshRequest(k)' /\ FadingRequest(k)'
    BY DEF Inv, RequestInv, FreshRequest, Using, FadingRequest, Found, Bad
  <2>3. StreamSound(k)'
    BY SameStream DEF Inv, RequestInv, StreamSound
  <2>4. QED
    BY <2>1, <2>2, <2>3 DEF RequestInv
<1>4. StreamHasReader' /\ PageFresh' /\ FailureFades'
  BY DEF Inv, StreamHasReader, PageFresh, FailureFades
<1>5. QED
  BY <1>1, <1>2, <1>3, <1>4 DEF Inv

(* The values without a place of their own.                                *)
LEMMA Constants ==
  0 \in 0..MaxRequest /\ 0 \in PoolInfo /\ Nil \in PoolInfo /\ Bare \in PoolInfo
BY WebAssumption DEF PoolInfo, Age, Old

(* A response ends a request, which must not leave a stream that waits for *)
(* it.                                                                     *)
LEMMA RespondEnds ==
  ASSUME Inv, NEW h \in Request, NEW o \in Outcome, NEW p \in PoolInfo,
         UNCHANGED <<started, entry, listed, lastPool, fit>>,
         Respond(h, o, p),
         sinceBad' \in Age, sinceBad' <= sinceBad,
         stream' \in [Request -> Stream],
         \A k \in Request \ {h} : stream'[k] = stream[k],
         stream'[h] = NoStream \/ (stream'[h] = stream[h] /\ ~fit[h])
  PROVE  /\ TypeOK' /\ FreshEntries' /\ FadingEntries' /\ FadingLists'
         /\ \A k \in Request : RequestInv(k)'
         /\ StreamHasReader'
<1>1. TypeOK'
  <2>1. [page |-> page[h], outcome |-> o, pool |-> p, since |-> sinceBad'] \in Response
    BY DEF Inv, TypeOK, Response
  <2>2. 0 \in 0..MaxRequest /\ Nil \in PoolInfo
    BY Constants
  <2>3. QED
    BY <2>1, <2>2 DEF Inv, TypeOK, Respond, Point, Page
<1>2. FadingLists' /\ FreshEntries'
  BY ListsKept DEF Inv, FreshEntries
<1>3. FadingEntries'
  BY WebAssumption DEF Inv, TypeOK, FadingEntries, Entry, Age
<1>4. ASSUME NEW k \in Request PROVE RequestInv(k)'
  <2>1. Flow(k)'
    BY DEF Inv, TypeOK, RequestInv, Flow, Respond
  <2>2. FreshRequest(k)'
    BY DEF Inv, TypeOK, RequestInv, FreshRequest, Using, Respond
  <2>3. FadingRequest(k)'
    BY WebAssumption DEF Inv, TypeOK, RequestInv, FadingRequest, Found, Bad, Respond, Age,
       Fetched
  <2>4. InOrder(stream[k])'
    BY SameStream DEF InOrder, NoStream
  <2>5. StreamSound(k)'
    BY <2>4, WebAssumption DEF Inv, TypeOK, RequestInv, StreamSound, Respond, Streams, Age
  <2>6. QED
    BY <2>1, <2>2, <2>3, <2>5 DEF RequestInv
<1>5. StreamHasReader'
  BY DEF Inv, TypeOK, StreamHasReader, Respond
<1>6. QED
  BY <1>1, <1>2, <1>3, <1>4, <1>5

(* Nor may it show what is too old, nor be wrong without a recent failure. *)
LEMMA RespondKeeps ==
  ASSUME Inv, NEW h \in Request, NEW o \in Outcome, NEW p \in PoolInfo,
         UNCHANGED <<started, entry, listed, lastPool, fit>>,
         Respond(h, o, p),
         sinceBad' \in Age, sinceBad' <= sinceBad,
         stream' \in [Request -> Stream],
         \A k \in Request \ {h} : stream'[k] = stream[k],
         stream'[h] = NoStream \/ (stream'[h] = stream[h] /\ ~fit[h]),
         page[h] \in Fetching /\ o # "not found" => p <= Horizon,
         o # "ok" /\ ~(page[h] \notin Fetching /\ p = Bare)
           => sinceBad' <= FailureHorizon(page[h], o)
  PROVE  Inv'
<1> DEFINE r == [page |-> page[h], outcome |-> o, pool |-> p, since |-> sinceBad']
<1>1. served' = {r}
  BY DEF Respond
<1>2. r.page = page[h] /\ r.outcome = o /\ r.pool = p /\ r.since = sinceBad'
  OBVIOUS
<1> HIDE DEF r
<1>3. PageFresh'
  BY <1>1, <1>2 DEF PageFresh
<1>4. FailureFades'
  <2> SUFFICES ASSUME r.outcome # "ok", ~(r.page \notin Fetching /\ r.pool = Bare)
               PROVE  r.since <= FailureHorizon(r.page, r.outcome)
    BY <1>1, Zenon DEF FailureFades
  <2>1. sinceBad' <= FailureHorizon(page[h], o)
    BY <1>2
  <2>2. QED
    BY <1>2, <2>1, Zenon
<1>5. QED
  BY <1>3, <1>4, RespondEnds DEF Inv

(* A request is asked.                                                    *)
LEMMA AskKeeps ==
  ASSUME Inv, NEW h \in Request, NEW p \in Page, Ask(h, p)
  PROVE  Inv'
<1> USE DEF Ask, FirstStep
<1>1. TypeOK'
  BY DEF Inv, TypeOK, Point, Page
<1>2. FadingLists'
  BY ListsKept, WebAssumption DEF Inv, TypeOK, Age
<1>3. FreshEntries' /\ FadingEntries'
  BY DEF Inv, TypeOK, FreshEntries, FadingEntries
<1>4. ASSUME NEW k \in Request PROVE RequestInv(k)'
  <2>1. Flow(k)'
    BY DEF Inv, TypeOK, RequestInv, Flow, Streams
  <2>2. FreshRequest(k)'
    BY DEF Inv, TypeOK, RequestInv, FreshRequest, Using, Flow
  <2>3. FadingRequest(k)'
    BY WebAssumption DEF Inv, TypeOK, RequestInv, FadingRequest, Found, Bad, Streams, Flow
  <2>4. InOrder(stream[k])'
    BY SameStream
  <2>5. StreamSound(k)'
    BY <2>4 DEF Inv, TypeOK, RequestInv, StreamSound, Flow, Streams, NoStream
  <2>6. QED
    BY <2>1, <2>2, <2>3, <2>5 DEF RequestInv
<1>5. StreamHasReader'
  BY DEF Inv, TypeOK, StreamHasReader, RequestInv, Flow, Streams
<1>6. PageFresh' /\ FailureFades'
  BY DEF PageFresh, FailureFades
<1>7. QED
  BY <1>1, <1>2, <1>3, <1>4, <1>5, <1>6 DEF Inv

(* The raw share is there or not.                                         *)
LEMMA FindRawKeeps ==
  ASSUME Inv, NEW h \in Request, FindRaw(h)
  PROVE  Inv'
<1> USE DEF FindRaw
<1>b. PICK ok \in BOOLEAN : Called(ok) /\ fit' = [fit EXCEPT ![h] = ok]
  OBVIOUS
<1>0. sinceBad' \in Age /\ sinceBad' <= sinceBad /\ (~ok => sinceBad' = 0)
  BY <1>b, CalledFades
<1>1. TypeOK'
  BY <1>0 DEF Inv, TypeOK, Point
<1>2. FadingLists'
  BY <1>0, ListsKept
<1>3. FreshEntries' /\ FadingEntries'
  BY <1>0, WebAssumption DEF Inv, TypeOK, FreshEntries, FadingEntries, Entry, Age
<1>4. ASSUME NEW k \in Request PROVE RequestInv(k)'
  <2>1. Flow(k)'
    BY DEF Inv, TypeOK, RequestInv, Flow
  <2>2. FreshRequest(k)'
    BY DEF Inv, TypeOK, RequestInv, FreshRequest, Using, Flow, Streams
  <2>a. ~fit'[k] => (k = h /\ ~ok) \/ ~fit[k]
    BY <1>b, Zenon DEF Inv, TypeOK
  <2>3. FadingRequest(k)'
    BY <1>0, <2>a, WebAssumption DEF Inv, TypeOK, RequestInv, FadingRequest, Found, Bad, Age,
       Fetched
  <2>4. InOrder(stream[k])'
    BY SameStream
  <2>5. StreamSound(k)'
    BY <1>0, <2>4, WebAssumption DEF Inv, TypeOK, RequestInv, StreamSound, Flow, Age
  <2>6. QED
    BY <2>1, <2>2, <2>3, <2>5 DEF RequestInv
<1>5. StreamHasReader'
  BY DEF Inv, TypeOK, StreamHasReader, RequestInv, Flow, Streams
<1>6. PageFresh' /\ FailureFades'
  BY DEF PageFresh, FailureFades
<1>7. QED
  BY <1>1, <1>2, <1>3, <1>4, <1>5, <1>6 DEF Inv

(* The pool information of others will do.                                *)
LEMMA EnsureKeeps ==
  ASSUME Inv, NEW h \in Request, Ensure(h)
  PROVE  Inv'
<1> USE DEF Ensure
<1>1. TypeOK'
  BY DEF Inv, TypeOK, Point
<1>2. FadingLists'
  BY ListsKept, WebAssumption DEF Inv, TypeOK, Age
<1>3. FreshEntries' /\ FadingEntries'
  BY DEF Inv, TypeOK, FreshEntries, FadingEntries
<1>4. ASSUME NEW k \in Request PROVE RequestInv(k)'
  <2>1. Flow(k)'
    BY DEF Inv, TypeOK, RequestInv, Flow
  <2>2. FreshRequest(k)'
    BY DEF Inv, TypeOK, RequestInv, FreshRequest, Using, Flow, Fetching
  <2>3. FadingRequest(k)'
    BY DEF Inv, TypeOK, RequestInv, FadingRequest, Found, Bad, Flow, Using, Fetching
  <2>4. InOrder(stream[k])'
    BY SameStream
  <2>5. StreamSound(k)'
    BY <2>4 DEF Inv, TypeOK, RequestInv, StreamSound, Flow
  <2>6. QED
    BY <2>1, <2>2, <2>3, <2>5 DEF RequestInv
<1>5. StreamHasReader'
  BY DEF Inv, TypeOK, StreamHasReader, RequestInv, Flow
<1>6. PageFresh' /\ FailureFades'
  BY DEF PageFresh, FailureFades
<1>7. QED
  BY <1>1, <1>2, <1>3, <1>4, <1>5, <1>6 DEF Inv

(* A result that is found in the cache counts as one of that age.         *)
LEMMA LookupKeeps ==
  ASSUME Inv, NEW h \in Request, Lookup(h)
  PROVE  Inv'
<1> USE DEF Lookup
<1>1. TypeOK'
  BY DEF Inv, TypeOK, Point, Entry
<1>2. FadingLists'
  BY ListsKept, WebAssumption DEF Inv, TypeOK, Age
<1>3. FreshEntries' /\ FadingEntries'
  BY DEF Inv, TypeOK, FreshEntries, FadingEntries
<1>4. ASSUME NEW k \in Request PROVE RequestInv(k)'
  <2>1. Flow(k)'
    BY DEF Inv, TypeOK, RequestInv, Flow
  <2>2. FreshRequest(k)'
    BY WebAssumption DEF Inv, TypeOK, RequestInv, FreshRequest, Using, FreshEntries, Entry,
       Fetched, PoolInfo, Age, Nil, Bare
  <2>3. FadingRequest(k)'
    BY WebAssumption DEF Inv, TypeOK, RequestInv, FadingRequest, Found, Bad, FadingEntries,
       Entry, Fetched, Age
  <2>4. InOrder(stream[k])'
    BY SameStream
  <2>5. StreamSound(k)'
    BY <2>4 DEF Inv, TypeOK, RequestInv, StreamSound, Flow
  <2>6. QED
    BY <2>1, <2>2, <2>3, <2>5 DEF RequestInv
<1>5. StreamHasReader'
  BY DEF Inv, TypeOK, StreamHasReader, RequestInv, Flow
<1>6. PageFresh' /\ FailureFades'
  BY DEF PageFresh, FailureFades
<1>7. QED
  BY <1>1, <1>2, <1>3, <1>4, <1>5, <1>6 DEF Inv

(* The answer of the API is new, and a nil a failure.                     *)
LEMMA CallKeeps ==
  ASSUME Inv, NEW h \in Request, Call(h)
  PROVE  Inv'
<1>b. PICK p \in {0} \cup Bad : Called(p \notin Bad) /\ pool' = [pool EXCEPT ![h] = p]
  BY DEF Call
<1>0. sinceBad' \in Age /\ sinceBad' <= sinceBad /\ (p \in Bad => sinceBad' = 0)
  BY <1>b, CalledFades
<1>a. p \in PoolInfo /\ p <= 0 /\ pool' = [pool EXCEPT ![h] = p]
  BY <1>b, Constants DEF Bad, Nil, Bare
<1>c. /\ pc[h] = "call" /\ pc' = [pc EXCEPT ![h] = "cache"] /\ served' = {}
      /\ UNCHANGED <<started, entry, listed, lastPool, page, age, some, fit, stream>>
  BY DEF Call
<1> USE <1>a, <1>c
<1>1. TypeOK'
  BY <1>0, <1>a DEF Inv, TypeOK, Point
<1>2. FadingLists'
  BY <1>0, ListsKept
<1>3. FreshEntries' /\ FadingEntries'
  BY <1>0, WebAssumption DEF Inv, TypeOK, FreshEntries, FadingEntries, Entry, Age
<1>4. ASSUME NEW k \in Request PROVE RequestInv(k)'
  <2>1. Flow(k)'
    BY DEF Inv, TypeOK, RequestInv, Flow
  <2>2. FreshRequest(k)'
    BY <1>a, WebAssumption DEF Inv, TypeOK, RequestInv, FreshRequest, Using, Nil, Bare,
       PoolInfo, Age
  <2>3. FadingRequest(k)'
    BY <1>0, <1>a, WebAssumption DEF Inv, TypeOK, RequestInv, FadingRequest, Found, Bad, Age,
       Fetched
  <2>4. InOrder(stream[k])'
    BY SameStream
  <2>5. StreamSound(k)'
    BY <1>0, <2>4, WebAssumption DEF Inv, TypeOK, RequestInv, StreamSound, Flow, Age
  <2>6. QED
    BY <2>1, <2>2, <2>3, <2>5 DEF RequestInv
<1>5. StreamHasReader'
  BY DEF Inv, TypeOK, StreamHasReader, RequestInv, Flow
<1>6. PageFresh' /\ FailureFades'
  BY DEF PageFresh, FailureFades
<1>7. QED
  BY <1>1, <1>2, <1>3, <1>4, <1>5, <1>6 DEF Inv

(* An answer is cached at once.                                           *)
LEMMA CacheKeeps ==
  ASSUME Inv, NEW h \in Request, Cache(h)
  PROVE  Inv'
<1> USE DEF Cache
<1>1. TypeOK'
  BY WebAssumption DEF Inv, TypeOK, Point, Entry
<1>2. FadingLists'
  BY ListsKept, WebAssumption DEF Inv, TypeOK, Age
<1>3. FreshEntries' /\ FadingEntries'
  BY WebAssumption DEF Inv, TypeOK, FreshEntries, FadingEntries, RequestInv, FreshRequest,
     Using, FadingRequest, Found, Bad, PoolInfo, Age, Nil, Bare
<1>4. ASSUME NEW k \in Request PROVE RequestInv(k)'
  <2>1. Flow(k)'
    BY DEF Inv, TypeOK, RequestInv, Flow
  <2>2. FreshRequest(k)'
    BY WebAssumption DEF Inv, TypeOK, RequestInv, FreshRequest, Using, Fetched, PoolInfo, Age,
       Nil, Bare
  <2>3. FadingRequest(k)'
    BY WebAssumption DEF Inv, TypeOK, RequestInv, FadingRequest, Found, Bad, Fetched, Age
  <2>4. InOrder(stream[k])'
    BY SameStream
  <2>5. StreamSound(k)'
    BY <2>4 DEF Inv, TypeOK, RequestInv, StreamSound, Flow
  <2>6. QED
    BY <2>1, <2>2, <2>3, <2>5 DEF RequestInv
<1>5. StreamHasReader'
  BY DEF Inv, TypeOK, StreamHasReader, RequestInv, Flow
<1>6. PageFresh' /\ FailureFades'
  BY DEF PageFresh, FailureFades
<1>7. QED
  BY <1>1, <1>2, <1>3, <1>4, <1>5, <1>6 DEF Inv

(* What others find in lastPoolInfo has passed through one more request.  *)
LEMMA StorePoolKeeps ==
  ASSUME Inv, NEW h \in Request, StorePool(h)
  PROVE  Inv'
<1> USE DEF StorePool
<1>1. TypeOK'
  BY DEF Inv, TypeOK, Point
<1>2. FadingLists'
  BY ListsKept, WebAssumption DEF Inv, TypeOK, Age
<1>3. FreshEntries' /\ FadingEntries'
  BY DEF Inv, TypeOK, FreshEntries, FadingEntries
<1>4. ASSUME NEW k \in Request PROVE RequestInv(k)'
  <2>1. Flow(k)'
    BY DEF Inv, TypeOK, RequestInv, Flow
  <2>2. FreshRequest(k)'
    BY WebAssumption DEF Inv, TypeOK, RequestInv, FreshRequest, Using, Fetched, Handed,
       PoolInfo, Age, Nil, Bare
  <2>3. FadingRequest(k)'
    BY DEF Inv, TypeOK, RequestInv, FadingRequest, Found, Bad, Flow
  <2>4. InOrder(stream[k])'
    BY SameStream
  <2>5. StreamSound(k)'
    BY <2>4 DEF Inv, TypeOK, RequestInv, StreamSound, Flow
  <2>6. QED
    BY <2>1, <2>2, <2>3, <2>5 DEF RequestInv
<1>5. StreamHasReader'
  BY DEF Inv, TypeOK, StreamHasReader, RequestInv, Flow
<1>6. PageFresh' /\ FailureFades'
  BY DEF PageFresh, FailureFades
<1>7. QED
  BY <1>1, <1>2, <1>3, <1>4, <1>5, <1>6 DEF Inv

(* The shares are found in the cache or not.                               *)
LEMMA FindListKeeps ==
  ASSUME Inv, NEW h \in Request, FindList(h)
  PROVE  Inv'
<1> USE DEF FindList
<1>1. TypeOK'
  BY DEF Inv, TypeOK, Point, List
<1>2. FadingLists'
  BY ListsKept, WebAssumption DEF Inv, TypeOK, Age
<1>3. FreshEntries' /\ FadingEntries'
  BY DEF Inv, TypeOK, FreshEntries, FadingEntries
<1>4. ASSUME NEW k \in Request PROVE RequestInv(k)'
  <2>1. Flow(k)'
    BY DEF Inv, TypeOK, RequestInv, Flow
  <2>2. FreshRequest(k)'
    BY DEF Inv, TypeOK, RequestInv, FreshRequest, Using
  <2>a. k = h /\ pc'[k] = "show" /\ ~some'[k] => sinceBad <= Found + age[k]
    <3> SUFFICES ASSUME k = h, pc'[k] = "show", ~some'[k] PROVE sinceBad <= Found + age[k]
      OBVIOUS
    <3>1. PICK e \in listed : e.some = some'[k]
      BY DEF Inv, TypeOK
    <3>2. e \in List /\ age[k] \in 0..MaxRequest /\ sinceBad \in Age
      BY DEF Inv, TypeOK
    <3>3. sinceBad <= MaxRequest + ListTime - e.left
      BY <3>1 DEF Inv, FadingLists
    <3>4. QED
      BY <3>2, <3>3, WebAssumption DEF List, Age, Found
  <2>3. FadingRequest(k)'
    BY <2>a DEF Inv, TypeOK, RequestInv, FadingRequest, Found, Bad, Flow
  <2>4. InOrder(stream[k])'
    BY SameStream
  <2>5. StreamSound(k)'
    BY <2>4 DEF Inv, TypeOK, RequestInv, StreamSound, Flow
  <2>6. QED
    BY <2>1, <2>2, <2>3, <2>5 DEF RequestInv
<1>5. StreamHasReader'
  BY DEF Inv, TypeOK, StreamHasReader, RequestInv, Flow
<1>6. PageFresh' /\ FailureFades'
  BY DEF PageFresh, FailureFades
<1>7. QED
  BY <1>1, <1>2, <1>3, <1>4, <1>5, <1>6 DEF Inv

(* The API is asked for them.                                              *)
LEMMA CallListKeeps ==
  ASSUME Inv, NEW h \in Request, CallList(h)
  PROVE  Inv'
<1> USE DEF CallList
<1>b. PICK found \in BOOLEAN : Called(found) /\ some' = [some EXCEPT ![h] = found]
  OBVIOUS
<1>0. sinceBad' \in Age /\ sinceBad' <= sinceBad /\ (~found => sinceBad' = 0)
  BY <1>b, CalledFades
<1>1. TypeOK'
  BY <1>0, <1>b DEF Inv, TypeOK, Point
<1>2. FadingLists'
  BY <1>0, ListsKept
<1>3. FreshEntries' /\ FadingEntries'
  BY <1>0, WebAssumption DEF Inv, TypeOK, FreshEntries, FadingEntries, Entry, Age
<1>4. ASSUME NEW k \in Request PROVE RequestInv(k)'
  <2>1. Flow(k)'
    BY DEF Inv, TypeOK, RequestInv, Flow
  <2>2. FreshRequest(k)'
    BY DEF Inv, TypeOK, RequestInv, FreshRequest, Using
  <2>a. k = h => (pc'[k] = "keep" /\ (~some'[k] => sinceBad' = 0))
    BY <1>0, <1>b DEF Inv, TypeOK
  <2>b. k # h => some'[k] = some[k] /\ pc'[k] = pc[k]
    BY <1>b DEF Inv, TypeOK
  <2>3. FadingRequest(k)'
    BY <1>0, <2>a, <2>b, WebAssumption DEF Inv, TypeOK, RequestInv, FadingRequest, Found, Bad,
       Age, Fetched
  <2>4. InOrder(stream[k])'
    BY SameStream
  <2>5. StreamSound(k)'
    BY <1>0, <2>4, WebAssumption DEF Inv, TypeOK, RequestInv, StreamSound, Flow, Age
  <2>6. QED
    BY <2>1, <2>2, <2>3, <2>5 DEF RequestInv
<1>5. StreamHasReader'
  BY DEF Inv, TypeOK, StreamHasReader, RequestInv, Flow
<1>6. PageFresh' /\ FailureFades'
  BY DEF PageFresh, FailureFades
<1>7. QED
  BY <1>1, <1>2, <1>3, <1>4, <1>5, <1>6 DEF Inv

(* The list is cached, with or without shares.                             *)
LEMMA KeepListKeeps ==
  ASSUME Inv, NEW h \in Request, KeepList(h)
  PROVE  Inv'
<1> USE DEF KeepList
<1>0. [some |-> some[h], left |-> ListTime] \in List
  BY WebAssumption DEF Inv, TypeOK, List
<1>1. TypeOK'
  BY <1>0 DEF Inv, TypeOK, Point
<1>a. ~some[h] => sinceBad <= age[h]
  BY DEF Inv, RequestInv, FadingRequest, Found, Bad
<1>b. sinceBad \in Nat /\ age[h] \in Nat /\ age[h] <= MaxRequest
  BY WebAssumption DEF Inv, TypeOK, Age
<1>2. FadingLists'
  BY <1>a, <1>b, WebAssumption DEF FadingLists
<1>3. FreshEntries' /\ FadingEntries'
  BY DEF Inv, TypeOK, FreshEntries, FadingEntries
<1>4. ASSUME NEW k \in Request PROVE RequestInv(k)'
  <2>1. Flow(k)'
    BY DEF Inv, TypeOK, RequestInv, Flow
  <2>2. FreshRequest(k)'
    BY DEF Inv, TypeOK, RequestInv, FreshRequest, Using
  <2>3. FadingRequest(k)'
    BY <1>a, <1>b, WebAssumption DEF Inv, TypeOK, RequestInv, FadingRequest, Found, Bad, Flow
  <2>4. InOrder(stream[k])'
    BY SameStream
  <2>5. StreamSound(k)'
    BY <2>4 DEF Inv, TypeOK, RequestInv, StreamSound, Flow
  <2>6. QED
    BY <2>1, <2>2, <2>3, <2>5 DEF RequestInv
<1>5. StreamHasReader'
  BY DEF Inv, TypeOK, StreamHasReader, RequestInv, Flow
<1>6. PageFresh' /\ FailureFades'
  BY DEF PageFresh, FailureFades
<1>7. QED
  BY <1>1, <1>2, <1>3, <1>4, <1>5, <1>6 DEF Inv

(* A page opens its stream and is drawn.                                  *)
LEMMA RenderStreamKeeps ==
  ASSUME Inv, NEW h \in Request, RenderStream(h)
  PROVE  Inv'
<1> USE DEF RenderStream, Context
<1>0. TypeOK
  BY DEF Inv
<1>1. TypeOK'
  <2>0. Context(h) \in PoolInfo /\ Bare \in PoolInfo /\ Nil \in PoolInfo
    BY <1>0 DEF TypeOK, PoolInfo
  <2>1. pc' \in [Request -> Point] /\ pool' \in [Request -> PoolInfo]
    <3> HIDE DEF Context
    <3> QED
      BY <1>0, <2>0 DEF TypeOK, Point
  <2>2. stream' \in [Request -> Stream]
    <3>1. [stream[h] EXCEPT !.at = IF page[h] = "share" THEN "call" ELSE @] \in Stream
      BY <1>0 DEF TypeOK, Stream
    <3>2. stream' = [stream EXCEPT ![h] =
                       [stream[h] EXCEPT !.at = IF page[h] = "share" THEN "call" ELSE @]]
      OBVIOUS
    <3>3. QED
      BY <1>0, <3>1, <3>2, Zenon DEF TypeOK
  <2>3. QED
    BY <1>0, <2>1, <2>2 DEF TypeOK
<1>2. FadingLists'
  BY ListsKept, WebAssumption DEF Inv, TypeOK, Age
<1>3. FreshEntries' /\ FadingEntries'
  BY DEF Inv, TypeOK, FreshEntries, FadingEntries
<1>4. ASSUME NEW k \in Request PROVE RequestInv(k)'
  <2>1. Flow(k)'
    BY DEF Inv, TypeOK, RequestInv, Flow, Streams, Nil, Bare
  <2>2. FreshRequest(k)'
    BY WebAssumption DEF Inv, TypeOK, RequestInv, FreshRequest, Using, Fetching, Fetched,
       Handed, PoolInfo, Age, Nil, Bare
  <2>3. FadingRequest(k)'
    BY DEF Inv, TypeOK, RequestInv, FadingRequest, Fetching, Found, Bad, Streams, Nil, Bare
  <2>a. /\ stream'[k].sent = stream[k].sent
        /\ stream'[k].chan = stream[k].chan /\ stream'[k].shown = stream[k].shown
        /\ stream'[k].at \in {"call", stream[k].at}
    BY DEF Inv, TypeOK, Stream
  <2>4. InOrder(stream[k])'
    BY <2>a DEF Inv, RequestInv, StreamSound, InOrder
  <2>5. StreamSound(k)'
    BY <2>4 DEF Inv, TypeOK, RequestInv, StreamSound, Flow
  <2>6. QED
    BY <2>1, <2>2, <2>3, <2>5 DEF RequestInv
<1>5. StreamHasReader'
  BY DEF Inv, TypeOK, StreamHasReader, RequestInv, Flow
<1>6. PageFresh' /\ FailureFades'
  BY DEF PageFresh, FailureFades
<1>7. QED
  BY <1>1, <1>2, <1>3, <1>4, <1>5, <1>6 DEF Inv

(* The share is found, or the response says that it is not.                *)
LEMMA FindShareKeeps ==
  ASSUME Inv, NEW h \in Request, FindShare(h)
  PROVE  Inv'
<1>b. PICK ok \in BOOLEAN :
        /\ Called(ok)
        /\ IF ok THEN /\ pc' = [pc EXCEPT ![h] = "raw"]
                      /\ UNCHANGED <<page, pool, age, some>> /\ served' = {}
                 ELSE Respond(h, "not found", lastPool)
  BY DEF FindShare
<1>0. sinceBad' \in Age /\ sinceBad' <= sinceBad /\ (~ok => sinceBad' = 0)
  BY <1>b, CalledFades
<1>1. CASE ~ok
  <2>1. lastPool \in PoolInfo /\ 0 <= FailureHorizon(page[h], "not found")
    BY WebAssumption DEF Inv, TypeOK, FailureHorizon
  <2>2. stream' \in [Request -> Stream] /\ stream' = stream /\ stream[h] = NoStream
    BY DEF Inv, TypeOK, RequestInv, Flow, FindShare
  <2>3. QED
    BY <1>0, <1>1, <1>b, <2>1, <2>2, RespondKeeps DEF FindShare, Outcome
<1>2. CASE ok
  <2>a. /\ pc' = [pc EXCEPT ![h] = "raw"] /\ pc[h] = "share"
        /\ UNCHANGED <<started, entry, listed, lastPool, page, pool, age, some, fit, stream>>
        /\ served' = {}
    BY <1>2, <1>b DEF FindShare
  <2> USE <2>a
  <2>1. TypeOK'
    BY <1>0 DEF Inv, TypeOK, Point
  <2>2. FadingLists' /\ FreshEntries'
    BY <1>0, ListsKept DEF Inv, FreshEntries
  <2>3. FadingEntries'
    BY <1>0, WebAssumption DEF Inv, TypeOK, FadingEntries, Entry, Age
  <2>4. ASSUME NEW k \in Request PROVE RequestInv(k)'
    <3>1. Flow(k)' /\ FreshRequest(k)'
      BY DEF Inv, TypeOK, RequestInv, Flow, FreshRequest, Using
    <3>2. FadingRequest(k)'
      BY <1>0, WebAssumption DEF Inv, TypeOK, RequestInv, FadingRequest, Found, Bad, Age,
         Fetched
    <3>3. StreamSound(k)'
      BY <1>0, SameStream, WebAssumption DEF Inv, TypeOK, RequestInv, StreamSound, Age
    <3>4. QED
      BY <3>1, <3>2, <3>3 DEF RequestInv
  <2>5. StreamHasReader' /\ PageFresh' /\ FailureFades'
    BY DEF Inv, StreamHasReader, PageFresh, FailureFades
  <2>6. QED
    BY <2>1, <2>2, <2>3, <2>4, <2>5 DEF Inv
<1>3. QED
  BY <1>1, <1>2

(* The miner is found and the stream opened, or the response says so.      *)
LEMMA FindMinerKeeps ==
  ASSUME Inv, NEW h \in Request, FindMiner(h)
  PROVE  Inv'
<1>b. PICK ok \in BOOLEAN :
        /\ Called(ok)
        /\ IF ok THEN /\ pc' = [pc EXCEPT ![h] = "use"]
                      /\ stream' = [stream EXCEPT ![h].at = "call"]
                      /\ UNCHANGED <<page, pool, age, some>> /\ served' = {}
                 ELSE Respond(h, "not found", lastPool) /\ UNCHANGED stream
  BY DEF FindMiner
<1>0. sinceBad' \in Age /\ sinceBad' <= sinceBad /\ (~ok => sinceBad' = 0)
  BY <1>b, CalledFades
<1>1. CASE ~ok
  <2>1. lastPool \in PoolInfo /\ 0 <= FailureHorizon(page[h], "not found")
    BY WebAssumption DEF Inv, TypeOK, FailureHorizon
  <2>2. stream' \in [Request -> Stream] /\ stream' = stream /\ stream[h] = NoStream
    BY <1>1, <1>b DEF Inv, TypeOK, RequestInv, Flow, FindMiner
  <2>3. QED
    BY <1>0, <1>1, <1>b, <2>1, <2>2, RespondKeeps DEF FindMiner, Outcome
<1>2. CASE ok
  <2> USE <1>0
  <2>0. page[h] = "payouts" /\ fit[h] \in BOOLEAN /\ pc[h] = "miner"
    BY DEF FindMiner, Inv, TypeOK, RequestInv, Flow
  <2>a. /\ pc' = [pc EXCEPT ![h] = "use"]
        /\ stream' = [stream EXCEPT ![h].at = "call"]
        /\ UNCHANGED <<started, entry, listed, lastPool, page, pool, age, some, fit>>
        /\ served' = {}
    BY <1>2, <1>b DEF FindMiner
  <2> USE <2>a
  <2>1. TypeOK'
    <3>1. [stream[h] EXCEPT !.at = "call"] \in Stream
      BY DEF Inv, TypeOK, Stream
    <3>2. QED
      BY <3>1 DEF Inv, TypeOK, Point
  <2>2. FadingLists' /\ FreshEntries'
    BY <1>0, ListsKept DEF Inv, FreshEntries
  <2>3. FadingEntries'
    BY WebAssumption DEF Inv, TypeOK, FadingEntries, Entry, Age
  <2>4. ASSUME NEW k \in Request PROVE RequestInv(k)'
    <3>1. Flow(k)' /\ FreshRequest(k)'
      BY <2>0 DEF Inv, TypeOK, RequestInv, Flow, FreshRequest, Using, Fetching
    <3>2. FadingRequest(k)'
      BY <2>0, WebAssumption DEF Inv, TypeOK, RequestInv, FadingRequest, Fetching, Found, Bad,
         Age, Fetched
    <3>3. /\ stream'[k].sent = stream[k].sent
          /\ stream'[k].chan = stream[k].chan /\ stream'[k].shown = stream[k].shown
          /\ stream'[k].at \in {"call", stream[k].at}
      BY DEF Inv, TypeOK, Stream
    <3>4. InOrder(stream[k])'
      BY <3>3 DEF Inv, RequestInv, StreamSound, InOrder
    <3>5. StreamSound(k)'
      BY <3>3, <3>4, WebAssumption DEF Inv, TypeOK, RequestInv, StreamSound, Age
    <3>6. QED
      BY <3>1, <3>2, <3>5 DEF RequestInv
  <2>5. StreamHasReader' /\ PageFresh' /\ FailureFades'
    BY <2>0 DEF Inv, TypeOK, StreamHasReader, PageFresh, FailureFades, Streams
  <2>6. QED
    BY <2>1, <2>2, <2>3, <2>4, <2>5 DEF Inv
<1>3. QED
  BY <1>1, <1>2

(* What bounds the age of the pool information bounds that of a failure.   *)
LEMMA HorizonFacts ==
  /\ Nil <= Horizon /\ Bare <= Horizon
  /\ Handed + MaxRequest = Horizon
  /\ \A p \in Page, o \in Outcome : ~(p = "miners" /\ o = "error") =>
       FailureHorizon(p, o) = Fetched + MaxRequest
  /\ FailureHorizon("miners", "error") = Found + MaxRequest
  /\ MaxRequest >= 0 /\ Fetched >= 0
BY WebAssumption DEF Horizon, FailureHorizon, Fetched, Handed, Found, Nil, Bare

(* A handler that panics has what a failed call left.                      *)
LEMMA DropKeeps ==
  ASSUME Inv, NEW h \in Request, Drop(h)
  PROVE  Inv'
<1>1. /\ pool[h] \in PoolInfo /\ sinceBad \in Age /\ sinceBad <= sinceBad
      /\ age[h] \in 0..MaxRequest /\ pool[h] \in Bad
      /\ stream \in [Request -> Stream]
  BY DEF Inv, TypeOK, Drop, Drops, Age, Bad
<1>2. page[h] \in {"index", "miners", "api"} /\ pc[h] = "use"
  BY DEF Drop, Drops
<1>3. sinceBad <= Fetched + age[h]
  BY <1>1, <1>2 DEF Inv, RequestInv, FadingRequest, Found, Bad, Drop, Drops, Fetching
<1>4. sinceBad <= FailureHorizon(page[h], "dropped") /\ pool[h] <= Horizon
  <2>1. Fetched \in Int /\ age[h] \in Int /\ age[h] <= MaxRequest
    BY <1>1, WebAssumption DEF Fetched
  <2>2. FailureHorizon(page[h], "dropped") = Fetched + MaxRequest
    BY <1>2, HorizonFacts DEF Page, Outcome
  <2>3. QED
    BY <1>1, <1>3, <2>1, <2>2, HorizonFacts, WebAssumption DEF Age, Bad
<1>5. stream[h] = NoStream \/ ~fit[h]
  BY <1>2 DEF Inv, StreamHasReader, Streams
<1>6. UNCHANGED <<started, entry, listed, lastPool, fit, sinceBad, stream>>
      /\ Respond(h, "dropped", pool[h])
  BY DEF Drop
<1>7. QED
  BY <1>1, <1>4, <1>5, <1>6, RespondKeeps DEF Outcome

(* A page without a stream shows what its handler has or lastPoolInfo.     *)
LEMMA RenderKeeps ==
  ASSUME Inv, NEW h \in Request, Render(h)
  PROVE  Inv'
<1>1. /\ Context(h) \in PoolInfo /\ sinceBad \in Age /\ sinceBad <= sinceBad
      /\ pool[h] \in PoolInfo /\ age[h] \in 0..MaxRequest
      /\ stream \in [Request -> Stream]
  BY DEF Inv, TypeOK, Context, Age
<1>2. page[h] \in {"index", "blocks", "api"} /\ pc[h] = "use"
      /\ (page[h] = "index" => pool[h] \notin Bad)
  BY DEF Render, Drops
<1>3. page[h] \in Fetching => Context(h) <= Horizon
  <2> SUFFICES ASSUME page[h] \in Fetching PROVE Context(h) <= Horizon
    OBVIOUS
  <2>1. pool[h] <= Fetched + age[h] /\ lastPool <= Handed + age[h]
    BY <1>2 DEF Inv, RequestInv, FreshRequest, Using
  <2>2. lastPool \in PoolInfo
    BY DEF Inv, TypeOK
  <2>3. QED
    BY <1>1, <2>1, <2>2, HorizonFacts, WebAssumption
       DEF Context, PoolInfo, Age, Nil, Bare, Fetched, Handed
<1>4. page[h] = "blocks" /\ Context(h) \in Bad => sinceBad <= Fetched + MaxRequest
  <2> SUFFICES ASSUME page[h] = "blocks", Context(h) \in Bad
               PROVE  sinceBad <= Fetched + MaxRequest
    OBVIOUS
  <2>1. pool[h] \in Bad
    BY DEF Context, Bad
  <2>2. sinceBad <= Fetched + age[h]
    BY <1>2, <2>1 DEF Inv, RequestInv, FadingRequest, Found, Bad, Fetching
  <2>3. QED
    BY <1>1, <2>2, WebAssumption DEF Age, Fetched
<1>5. stream[h] = NoStream \/ ~fit[h]
  BY <1>2 DEF Inv, StreamHasReader, Streams
<1>6. PICK o \in {"ok", "error"} :
        /\ Respond(h, o, Context(h))
        /\ o = "error" => Context(h) \in Bad /\ (page[h] # "blocks" => Context(h) = Bare)
  BY DEF Render, Bad
<1>7. o \in Outcome
  BY DEF Outcome
<1>8. ASSUME o # "ok", ~(page[h] \notin Fetching /\ Context(h) = Bare)
      PROVE  sinceBad <= FailureHorizon(page[h], o)
  <2>1. page[h] = "blocks"
    BY <1>2, <1>6, <1>8 DEF Context, Bad, Fetching, Nil, Bare
  <2>2. QED
    BY <1>4, <1>6, <1>7, <1>8, <2>1, HorizonFacts DEF Page
<1>9. UNCHANGED <<started, entry, listed, lastPool, fit, sinceBad, stream>>
  BY DEF Render
<1>10. QED
  BY <1>1, <1>3, <1>5, <1>6, <1>7, <1>8, <1>9, RespondKeeps

(* The page of the miners ends with its list or without one.               *)
LEMMA ShowListKeeps ==
  ASSUME Inv, NEW h \in Request, ShowList(h)
  PROVE  Inv'
<1>1. /\ pool[h] \in PoolInfo /\ lastPool \in PoolInfo
      /\ sinceBad \in Age /\ sinceBad <= sinceBad /\ age[h] \in 0..MaxRequest
      /\ stream \in [Request -> Stream]
  BY DEF Inv, TypeOK, Age
<1>2. pc[h] = "show" /\ page[h] = "miners"
  BY DEF Inv, RequestInv, Flow, ShowList
<1>3. pool[h] <= Horizon /\ lastPool <= Horizon
  <2>1. pool[h] <= Fetched + age[h] /\ lastPool <= Handed + age[h]
    BY <1>2 DEF Inv, RequestInv, FreshRequest, Using, Fetching
  <2>2. QED
    BY <1>1, <2>1, HorizonFacts, WebAssumption DEF PoolInfo, Age, Nil, Bare, Fetched, Handed
<1>4. ~some[h] => sinceBad <= FailureHorizon("miners", "error")
  <2> SUFFICES ASSUME ~some[h] PROVE sinceBad <= FailureHorizon("miners", "error")
    OBVIOUS
  <2>1. sinceBad <= Found + age[h]
    BY <1>2 DEF Inv, RequestInv, FadingRequest, Found, Bad
  <2>2. QED
    BY <1>1, <2>1, HorizonFacts, WebAssumption DEF Age, Found
<1>5. stream[h] = NoStream \/ ~fit[h]
  BY <1>2 DEF Inv, StreamHasReader, Streams
<1>6. PICK o \in {"ok", "error"}, p \in {pool[h], lastPool} :
        Respond(h, o, p) /\ (o = "error" => ~some[h])
  BY DEF ShowList
<1>7. UNCHANGED <<started, entry, listed, lastPool, fit, sinceBad, stream>>
  BY DEF ShowList
<1>8. o \in Outcome /\ p \in PoolInfo /\ p <= Horizon
      /\ (o # "ok" => sinceBad <= FailureHorizon(page[h], o))
  BY <1>1, <1>2, <1>3, <1>4, <1>6 DEF Outcome
<1>9. QED
  BY <1>1, <1>5, <1>6, <1>7, <1>8, RespondKeeps

(* A page that panics before its stream lacked the raw share or a last     *)
(* block.                                                                  *)
LEMMA AbandonKeeps ==
  ASSUME Inv, NEW h \in Request, Abandon(h)
  PROVE  Inv'
<1>1. page[h] \in Streams /\ ~fit[h] /\ pc[h] = "draw"
  BY DEF Abandon, Panics, Drawing
<1>2. /\ pool[h] \in PoolInfo /\ sinceBad \in Age /\ sinceBad <= sinceBad
      /\ age[h] \in 0..MaxRequest /\ stream \in [Request -> Stream]
  BY DEF Inv, TypeOK, Age
<1>3. page[h] = "share" => pool[h] <= Horizon /\ sinceBad <= FailureHorizon(page[h], "error")
  <2> SUFFICES ASSUME page[h] = "share"
               PROVE  pool[h] <= Horizon /\ sinceBad <= FailureHorizon("share", "error")
    OBVIOUS
  <2>1. pool[h] <= Handed + age[h] /\ sinceBad <= Fetched + age[h]
    BY <1>1 DEF Inv, RequestInv, FreshRequest, Using, FadingRequest, Found, Bad
  <2>2. FailureHorizon("share", "error") = Fetched + MaxRequest
    BY HorizonFacts DEF Page, Outcome
  <2>3. QED
    BY <1>2, <2>1, <2>2, HorizonFacts, WebAssumption
       DEF PoolInfo, Age, Nil, Bare, Fetched, Handed
<1>4. page[h] = "payouts" => pool[h] = Bare /\ page[h] \notin Fetching
  BY <1>1 DEF Inv, RequestInv, Flow, Fetching
<1>5. UNCHANGED <<started, entry, listed, lastPool, fit, sinceBad, stream>>
      /\ Respond(h, "error", pool[h])
  BY DEF Abandon
<1>6. page[h] = "share" \/ page[h] = "payouts"
  BY <1>1 DEF Streams
<1>7. QED
  BY <1>1, <1>2, <1>3, <1>4, <1>5, <1>6, RespondKeeps DEF Outcome, Fetching

(* A step of a stream, by its goroutine or its reader: it stays in order,  *)
(* does not come from nothing, and ends early only after a call failed.    *)
LEMMA StreamKeeps ==
  ASSUME Inv, NEW h \in Request,
         UNCHANGED <<started, entry, listed, lastPool, request>>, served' = {},
         sinceBad' \in Age, sinceBad' <= sinceBad,
         stream' \in [Request -> Stream],
         \A k \in Request \ {h} : stream'[k] = stream[k],
         InOrder(stream[h])',
         stream[h] # NoStream,
         page[h] \in Streams /\ stream'[h].at = "closed" /\ stream'[h].sent < Items
           => sinceBad' <= age[h]
  PROVE  Inv'
<1> USE DEF request
<1>1. TypeOK'
  BY DEF Inv, TypeOK
<1>2. FadingLists' /\ FreshEntries'
  BY ListsKept, WebAssumption DEF Inv, TypeOK, Age, FreshEntries
<1>3. FadingEntries'
  BY WebAssumption DEF Inv, TypeOK, FadingEntries, Entry, Age
<1>4. ASSUME NEW k \in Request PROVE RequestInv(k)'
  <2>1. Flow(k)' /\ FreshRequest(k)'
    BY DEF Inv, RequestInv, Flow, FreshRequest, Using
  <2>2. FadingRequest(k)'
    BY WebAssumption DEF Inv, TypeOK, RequestInv, FadingRequest, Found, Bad, Age, Fetched
  <2>3. InOrder(stream[k])'
    BY SameStream DEF InOrder
  <2>4. StreamSound(k)'
    BY <2>3, WebAssumption DEF Inv, TypeOK, RequestInv, StreamSound, Age
  <2>5. QED
    BY <2>1, <2>2, <2>4 DEF RequestInv
<1>5. StreamHasReader' /\ PageFresh' /\ FailureFades'
  BY DEF Inv, StreamHasReader, PageFresh, FailureFades
<1>6. QED
  BY <1>1, <1>2, <1>3, <1>4, <1>5 DEF Inv

(* The goroutine makes its call.                                           *)
LEMMA StreamCallKeeps ==
  ASSUME Inv, NEW h \in Request, StreamCall(h)
  PROVE  Inv'
<1>b. PICK ok \in BOOLEAN :
        /\ Called(ok)
        /\ stream' = [stream EXCEPT ![h].at = IF ok THEN "decode" ELSE "closed"]
  BY DEF StreamCall
<1>0. sinceBad' \in Age /\ sinceBad' <= sinceBad /\ (~ok => sinceBad' = 0)
  BY <1>b, CalledFades
<1>1. stream[h] \in Stream /\ stream[h] # NoStream /\ InOrder(stream[h]) /\ age[h] \in Nat
  BY WebAssumption DEF Inv, TypeOK, RequestInv, StreamSound, StreamCall, NoStream
<1>2. PICK a \in {"decode", "closed"} :
        /\ stream' = [stream EXCEPT ![h].at = a]
        /\ a = "closed" => ~ok
  BY <1>b
<1>3. [stream[h] EXCEPT !.at = a] \in Stream
  BY <1>1, <1>2 DEF Stream
<1>4. stream' \in [Request -> Stream] /\ stream'[h] = [stream[h] EXCEPT !.at = a]
      /\ \A k \in Request \ {h} : stream'[k] = stream[k]
  BY <1>2, <1>3 DEF Inv, TypeOK
<1>5. InOrder(stream[h])'
  BY <1>1, <1>2, <1>4 DEF InOrder, Stream
<1>6. stream'[h].at = "closed" => sinceBad' <= age[h]
  BY <1>0, <1>1, <1>2, <1>4 DEF Stream
<1>7. QED
  BY <1>0, <1>1, <1>4, <1>5, <1>6, StreamKeeps DEF StreamCall

(* It finds another item, or the end of the list, or a failure.            *)
LEMMA DecodeKeeps ==
  ASSUME Inv, NEW h \in Request, Decode(h)
  PROVE  Inv'
<1>b. PICK ok \in BOOLEAN :
        /\ Called(ok)
        /\ stream' = [stream EXCEPT ![h].at = IF ok /\ stream[h].sent < Items
                                             THEN "send" ELSE "closed"]
  BY DEF Decode
<1>0. sinceBad' \in Age /\ sinceBad' <= sinceBad /\ (~ok => sinceBad' = 0)
  BY <1>b, CalledFades
<1>1. stream[h] \in Stream /\ stream[h] # NoStream /\ InOrder(stream[h]) /\ age[h] \in Nat
  BY WebAssumption DEF Inv, TypeOK, RequestInv, StreamSound, Decode, NoStream
<1>2. PICK a \in {"send", "closed"} :
        /\ stream' = [stream EXCEPT ![h].at = a]
        /\ a = "send" => stream[h].sent < Items
        /\ a = "closed" => ~ok \/ ~(stream[h].sent < Items)
  BY <1>b
<1>3. [stream[h] EXCEPT !.at = a] \in Stream
  BY <1>1, <1>2 DEF Stream
<1>4. stream' \in [Request -> Stream] /\ stream'[h] = [stream[h] EXCEPT !.at = a]
      /\ \A k \in Request \ {h} : stream'[k] = stream[k]
  BY <1>2, <1>3 DEF Inv, TypeOK
<1>5. InOrder(stream[h])'
  BY <1>1, <1>2, <1>4 DEF InOrder, Stream
<1>6. stream'[h].at = "closed" /\ stream'[h].sent < Items => sinceBad' <= age[h]
  BY <1>0, <1>1, <1>2, <1>4 DEF Stream
<1>7. QED
  BY <1>0, <1>1, <1>4, <1>5, <1>6, StreamKeeps DEF Decode

(* It puts the next item into the empty channel.                           *)
LEMMA SendKeeps ==
  ASSUME Inv, NEW h \in Request, Send(h)
  PROVE  Inv'
<1> DEFINE s == stream[h]
           t == [s EXCEPT !.at = "decode", !.sent = @ + 1, !.chan = Append(@, s.sent + 1)]
<1>1. /\ s \in Stream /\ s # NoStream /\ InOrder(s)
      /\ s.at = "send" /\ s.chan = << >>
  BY DEF Inv, TypeOK, RequestInv, StreamSound, Send, NoStream
<1>2. /\ s.sent + 1 \in 1..Items
      /\ t.at = "decode" /\ t.sent = s.sent + 1 /\ t.shown = s.shown
      /\ t.chan = <<s.sent + 1>>
  BY <1>1, WebAssumption DEF InOrder, Stream
<1>3. t \in Stream
  <2>1. Append(s.chan, s.sent + 1) \in Seq(1..Items) /\ s.sent + 1 \in 0..Items
    BY <1>1, <1>2, WebAssumption
  <2>2. QED
    BY <1>1, <2>1 DEF Stream
<1>4. stream' = [stream EXCEPT ![h] = t]
  BY DEF Send, Inv, TypeOK
<1>5. stream' \in [Request -> Stream] /\ stream'[h] = t
      /\ \A k \in Request \ {h} : stream'[k] = stream[k]
  BY <1>3, <1>4 DEF Inv, TypeOK
<1>6. InOrder(t)
  <2> HIDE DEF t
  <2>1. /\ t.shown = [k \in 1..Len(t.shown) |-> k]
        /\ t.sent = Len(t.shown) + 1
    BY <1>1, <1>2 DEF InOrder
  <2>2. t.chan # << >> /\ Tail(t.chan) = << >> /\ Head(t.chan) = t.sent
    BY <1>2
  <2>3. QED
    BY <1>2, <2>1, <2>2 DEF InOrder
<1>7. InOrder(stream[h])'
  BY <1>5, <1>6 DEF InOrder
<1>8. sinceBad' \in Age /\ sinceBad' <= sinceBad
  BY DEF Inv, TypeOK, Send, Age
<1>9. QED
  BY <1>1, <1>2, <1>5, <1>7, <1>8, StreamKeeps DEF Send

(* What Append does, for any sequence.                                     *)
LEMMA Appended ==
  ASSUME NEW S, NEW q \in Seq(S), NEW x \in S
  PROVE  /\ << >> \in Seq(S) /\ Append(q, x) \in Seq(S) /\ Len(q) \in Nat
         /\ Len(Append(q, x)) = Len(q) + 1
         /\ \A k \in 1..Len(q) : Append(q, x)[k] = q[k]
         /\ Append(q, x)[Len(q) + 1] = x
OBVIOUS

(* The template takes an item out of the channel.                          *)
LEMMA ReceiveKeeps ==
  ASSUME Inv, NEW h \in Request, Receive(h)
  PROVE  Inv'
<1> DEFINE s == stream[h]
           t == [s EXCEPT !.shown = Append(@, Head(s.chan)), !.chan = Tail(@)]
<1>1. s \in Stream /\ InOrder(s) /\ s.chan # << >> /\ s # NoStream
  BY DEF Inv, TypeOK, RequestInv, StreamSound, Receive, NoStream
<1>2. /\ s.sent = Len(s.shown) + 1 /\ Tail(s.chan) = << >> /\ Head(s.chan) = s.sent
      /\ s.shown = [k \in 1..Len(s.shown) |-> k] /\ s.shown \in Seq(1..Items)
      /\ s.sent \in 1..Items
      /\ s.at = "send" => s.sent < Items
  BY <1>1, WebAssumption DEF InOrder, Stream
<1>3. /\ t.at = s.at /\ t.sent = s.sent /\ t.chan = << >>
      /\ t.shown = Append(s.shown, s.sent)
  BY <1>1, <1>2 DEF Stream
<1>4. t \in Stream
  <2>1. Append(s.shown, Head(s.chan)) \in Seq(1..Items)
    BY <1>2, Appended
  <2>2. << >> \in Seq(1..Items)
    OBVIOUS
  <2>3. QED
    BY <1>1, <1>2, <2>1, <2>2 DEF Stream
<1>5. stream' = [stream EXCEPT ![h] = t]
  BY DEF Receive, Inv, TypeOK
<1>6. stream' \in [Request -> Stream] /\ stream'[h] = t
      /\ \A k \in Request \ {h} : stream'[k] = stream[k]
  BY <1>4, <1>5 DEF Inv, TypeOK
<1>7. InOrder(t)
  <2> HIDE DEF t
  <2>1. Len(t.shown) = s.sent /\ s.sent \in Nat /\ t.shown \in Seq(1..Items)
    BY <1>2, <1>3, Appended
  <2>2. ASSUME NEW k \in 1..s.sent PROVE t.shown[k] = k
    BY <1>2, <1>3, Appended
  <2>3. t.shown = [k \in 1..s.sent |-> k]
    BY <2>1, <2>2
  <2>4. QED
    BY <1>2, <1>3, <2>1, <2>3 DEF InOrder
<1>8. InOrder(stream[h])'
  BY <1>6, <1>7 DEF InOrder
<1>9. sinceBad' \in Age /\ sinceBad' <= sinceBad
  BY DEF Inv, TypeOK, Receive, Age
<1>10. page[h] \in Streams /\ stream'[h].at = "closed" /\ stream'[h].sent < Items
         => sinceBad' <= age[h]
  BY <1>3, <1>6 DEF Inv, RequestInv, StreamSound, Receive
<1>11. QED
  BY <1>1, <1>6, <1>8, <1>9, <1>10, StreamKeeps DEF Receive

(* A stream without a page ends.                                           *)
LEMMA ForgetKeeps ==
  ASSUME Inv, NEW h \in Request, Forget(h)
  PROVE  Inv'
<1>1. NoStream \in Stream /\ InOrder(NoStream)
  BY WebAssumption DEF NoStream, Stream, InOrder
<1>2. stream' \in [Request -> Stream] /\ stream'[h] = NoStream
      /\ \A k \in Request \ {h} : stream'[k] = stream[k]
  BY <1>1 DEF Inv, TypeOK, Forget
<1>3. InOrder(stream[h])'
  BY <1>1, <1>2 DEF InOrder
<1>4. stream[h] # NoStream /\ page[h] \notin Streams
  BY DEF Forget, NoStream
<1>5. sinceBad' \in Age /\ sinceBad' <= sinceBad
  BY DEF Inv, TypeOK, Forget, Age
<1>6. QED
  BY <1>2, <1>3, <1>4, <1>5, StreamKeeps DEF Forget

(* A page ends with its stream.  One that did not get the whole list, or   *)
(* has no pool information, has a failed call behind it.                   *)
LEMMA EndOfStreamKeeps ==
  ASSUME Inv, NEW h \in Request, EndOfStream(h)
  PROVE  Inv'
<1>1. /\ stream[h] \in Stream /\ InOrder(stream[h]) /\ pool[h] \in PoolInfo
      /\ sinceBad \in Age /\ sinceBad <= sinceBad
  BY DEF Inv, TypeOK, RequestInv, StreamSound, Age
<1>2. page[h] \in Streams /\ pc[h] = "draw"
  BY DEF EndOfStream, Drawing
<1>3. page[h] \in Fetching => pool[h] <= Horizon
  BY <1>2, WebAssumption DEF Inv, TypeOK, RequestInv, FreshRequest, Using, Streams, Fetching,
     PoolInfo, Age, Nil, Bare, Fetched, Handed, Horizon
<1>a. /\ age[h] \in 0..MaxRequest
      /\ \A o \in Outcome : FailureHorizon(page[h], o) = Fetched + MaxRequest
  BY <1>2, HorizonFacts DEF Inv, TypeOK, Page, Streams
<1>4. page[h] = "share" /\ pool[h] = Nil => sinceBad <= Fetched + MaxRequest
  BY <1>1, <1>2, <1>a, WebAssumption DEF Inv, RequestInv, FadingRequest, Found, Bad, Age,
     Fetched
<1>5. ~Whole(h) => sinceBad <= Fetched + MaxRequest
  <2> SUFFICES ASSUME ~Whole(h) PROVE sinceBad <= Fetched + MaxRequest
    OBVIOUS
  <2>1. stream[h].shown = [k \in 1..stream[h].sent |-> k]
    BY DEF Inv, RequestInv, StreamSound, InOrder, EndOfStream
  <2>2. stream[h].sent # Items
    BY <2>1 DEF Whole
  <2>3. stream[h].sent < Items
    BY <1>1, <2>2, WebAssumption DEF Stream
  <2>4. sinceBad <= age[h]
    BY <1>2, <2>3 DEF Inv, RequestInv, StreamSound, EndOfStream
  <2>5. QED
    BY <1>1, <1>a, <2>4, HorizonFacts, WebAssumption DEF Age, Fetched
<1>6. PICK o \in Outcome :
        /\ Respond(h, o, pool[h])
        /\ o # "ok" => ~Whole(h) \/ (page[h] = "share" /\ pool[h] = Nil)
  BY DEF EndOfStream, Outcome
<1>7. o # "ok" => sinceBad <= FailureHorizon(page[h], o)
  BY <1>4, <1>5, <1>6, <1>a
<1>8. NoStream \in Stream
  BY WebAssumption DEF NoStream, Stream
<1>9. stream' \in [Request -> Stream] /\ stream'[h] = NoStream
      /\ \A k \in Request \ {h} : stream'[k] = stream[k]
  BY <1>8 DEF Inv, TypeOK, EndOfStream
<1>10. UNCHANGED <<started, entry, listed, lastPool, fit, sinceBad>>
  BY DEF EndOfStream
<1>11. QED
  BY <1>1, <1>3, <1>6, <1>7, <1>9, <1>10, RespondKeeps DEF Respond

(* A site that is started again has nothing in flight.                     *)
LEMMA RestartKeeps ==
  ASSUME Inv, Restart
  PROVE  Inv'
<1> USE DEF Restart
<1>1. NoStream \in Stream /\ InOrder(NoStream) /\ 0 \in 0..MaxRequest /\ NoStream.at = "none"
  BY WebAssumption DEF NoStream, Stream, InOrder
<1>2. TypeOK'
  BY <1>1 DEF Inv, TypeOK, Point, Page, PoolInfo
<1>3. FreshEntries' /\ FadingEntries' /\ FadingLists'
  BY DEF FreshEntries, FadingEntries, FadingLists
<1>4. ASSUME NEW k \in Request PROVE RequestInv(k)'
  <2>1. Flow(k)' /\ FreshRequest(k)' /\ FadingRequest(k)'
    BY DEF Flow, FreshRequest, Using, FadingRequest, Found, Bad
  <2>2. InOrder(stream[k])'
    BY <1>1 DEF InOrder
  <2>3. StreamSound(k)'
    BY <1>1, <2>2 DEF StreamSound
  <2>4. QED
    BY <2>1, <2>3 DEF RequestInv
<1>5. StreamHasReader' /\ PageFresh' /\ FailureFades'
  BY DEF StreamHasReader, PageFresh, FailureFades
<1>6. QED
  BY <1>2, <1>3, <1>4, <1>5 DEF Inv

(* What gets older gets older by one tick at most.                         *)
LEMMA OlderByOne ==
  ASSUME NEW p \in PoolInfo
  PROVE  /\ Older(p) \in PoolInfo /\ Older(p) <= p + 1
         /\ (Older(p) = Nil) = (p = Nil) /\ (Older(p) = Bare) = (p = Bare)
BY WebAssumption DEF Older, PoolInfo, Age, Old, Nil, Bare

(* Time passes for all alike: what an entry gains in age it loses in time  *)
(* left, and what a request carries gets older with the request.           *)
LEMMA TickKeeps ==
  ASSUME Inv, Tick
  PROVE  Inv'
<1> USE DEF Tick
<1>1. sinceBad' \in Age /\ sinceBad' <= sinceBad + 1
  BY WebAssumption DEF Inv, TypeOK, Older, Age, Old
<1>2. ASSUME NEW k \in Request
      PROVE  /\ age'[k] \in 0..MaxRequest
             /\ pc[k] # "idle" => age'[k] = age[k] + 1
             /\ pool'[k] \in PoolInfo /\ pool'[k] <= pool[k] + 1
             /\ (pool'[k] = Nil) = (pool[k] = Nil) /\ (pool'[k] = Bare) = (pool[k] = Bare)
             /\ (pool'[k] \in Bad) = (pool[k] \in Bad)
  <2>1. pool[k] \in PoolInfo /\ pool'[k] = Older(pool[k])
    BY DEF Inv, TypeOK
  <2>2. age[k] \in 0..MaxRequest
    BY DEF Inv, TypeOK
  <2>3. QED
    BY <2>1, <2>2, OlderByOne, WebAssumption DEF Bad
<1>3. lastPool' \in PoolInfo /\ lastPool' <= lastPool + 1
  BY OlderByOne DEF Inv, TypeOK
<1>4. ASSUME NEW e \in entry'
      PROVE  \E f \in entry : /\ e.left = f.left - 1 /\ e \in Entry
                              /\ e.pool <= f.pool + 1
                              /\ (e.pool \in Bad) = (f.pool \in Bad)
  <2>1. PICK f \in entry : f.left > 1 /\ e = [pool |-> Older(f.pool), left |-> f.left - 1]
    OBVIOUS
  <2>2. f \in Entry
    BY DEF Inv, TypeOK
  <2>3. e.left \in 1..CacheTime
    BY <2>1, <2>2, WebAssumption DEF Entry
  <2>4. f.pool \in PoolInfo
    BY <2>2 DEF Entry
  <2>5. e.pool = Older(f.pool) /\ Older(f.pool) \in PoolInfo
    BY <2>1, <2>4, OlderByOne
  <2>6. e \in Entry
    BY <2>1, <2>3, <2>5 DEF Entry
  <2>7. QED
    BY <2>1, <2>2, <2>4, <2>5, <2>6, OlderByOne DEF Bad
<1>6. ASSUME NEW e \in listed'
      PROVE  \E f \in listed : e.left = f.left - 1 /\ e \in List /\ e.some = f.some
  <2>1. PICK f \in listed : f.left > 1 /\ e = [f EXCEPT !.left = @ - 1]
    OBVIOUS
  <2>2. f \in List
    BY DEF Inv, TypeOK
  <2>3. e.left = f.left - 1 /\ e.some = f.some
    BY <2>1, <2>2 DEF List
  <2>4. f.left - 1 \in 1..ListTime
    BY <2>1, <2>2, WebAssumption DEF List
  <2>5. e \in List
    BY <2>1, <2>2, <2>4 DEF List
  <2>6. QED
    BY <2>3, <2>5
<1>5. TypeOK'
  BY <1>1, <1>2, <1>3, <1>4, <1>6 DEF Inv, TypeOK
<1>7. FreshEntries' /\ FadingEntries'
  BY <1>1, <1>4, WebAssumption DEF Inv, TypeOK, FreshEntries, FadingEntries, Entry, PoolInfo,
     Age, Nil, Bare
<1>a. FadingLists'
  <2> SUFFICES ASSUME NEW e \in listed', ~e.some
               PROVE  sinceBad' <= MaxRequest + ListTime - e.left
    BY DEF FadingLists
  <2>1. PICK f \in listed : e.left = f.left - 1 /\ e.some = f.some
    BY <1>6
  <2>2. sinceBad <= MaxRequest + ListTime - f.left
    BY <2>1 DEF Inv, FadingLists
  <2>3. f.left \in Int /\ sinceBad \in Int /\ sinceBad' \in Int
    BY <1>1, WebAssumption DEF Inv, TypeOK, List, Age
  <2>4. QED
    BY <1>1, <2>1, <2>2, <2>3, WebAssumption
<1>8. ASSUME NEW k \in Request PROVE RequestInv(k)'
  <2>1. Flow(k)'
    BY <1>2 DEF Inv, TypeOK, RequestInv, Flow, PoolInfo, Age, Nil, Bare
  <2>2. FreshRequest(k)'
    BY <1>2, <1>3, WebAssumption DEF Inv, TypeOK, RequestInv, FreshRequest, Using, PoolInfo,
       Age, Nil, Bare, Fetched, Handed
  <2>3. FadingRequest(k)'
    BY <1>1, <1>2, WebAssumption DEF Inv, TypeOK, RequestInv, FadingRequest, Found, Bad, Flow,
       Age, Fetched
  <2>4. InOrder(stream[k])'
    BY SameStream
  <2>5. StreamSound(k)'
    BY <1>1, <1>2, <2>4, WebAssumption DEF Inv, TypeOK, RequestInv, StreamSound, Flow,
       Streams, Age
  <2>6. QED
    BY <2>1, <2>2, <2>3, <2>5 DEF RequestInv
<1>9. StreamHasReader' /\ PageFresh' /\ FailureFades'
  BY DEF Inv, StreamHasReader, PageFresh, FailureFades
<1>10. QED
  BY <1>5, <1>7, <1>8, <1>9, <1>a DEF Inv

(* Nothing changes.                                                        *)
LEMMA StutterKeeps ==
  ASSUME Inv, UNCHANGED vars
  PROVE  Inv'
<1> USE DEF vars, request
<1>1. ASSUME NEW k \in Request PROVE RequestInv(k)'
  <2>1. Flow(k)' /\ FreshRequest(k)' /\ FadingRequest(k)'
    BY DEF Inv, RequestInv, Flow, FreshRequest, Using, FadingRequest, Found, Bad
  <2>2. StreamSound(k)'
    BY SameStream DEF Inv, RequestInv, StreamSound
  <2>3. QED
    BY <2>1, <2>2 DEF RequestInv
<1>2. QED
  BY <1>1 DEF Inv, TypeOK, FreshEntries, FadingEntries, FadingLists, StreamHasReader,
     PageFresh, FailureFades

(* The invariant holds in every state.                                     *)
THEOREM InvHolds == Spec => []Inv
<1>1. Inv /\ [Next]_vars => Inv'
  <2> SUFFICES ASSUME Inv, [Next]_vars PROVE Inv'
    OBVIOUS
  <2>1. CASE StartUp
    BY <2>1, StartUpKeeps
  <2>2. CASE Restart
    BY <2>2, RestartKeeps
  <2>3. CASE Tick
    BY <2>3, TickKeeps
  <2>4. ASSUME NEW h \in Request, Handle(h) PROVE Inv'
    BY <2>4, FindShareKeeps, FindRawKeeps, FindMinerKeeps, EnsureKeeps, LookupKeeps, CallKeeps,
      CacheKeeps, StorePoolKeeps, DropKeeps, RenderKeeps, FindListKeeps, CallListKeeps,
      KeepListKeeps, ShowListKeeps, RenderStreamKeeps, AbandonKeeps, ReceiveKeeps,
      EndOfStreamKeeps DEF Handle
  <2>5. ASSUME NEW h \in Request, Carry(h) PROVE Inv'
    BY <2>5, StreamCallKeeps, DecodeKeeps, SendKeeps, ForgetKeeps DEF Carry
  <2>6. ASSUME NEW h \in Request, NEW p \in Page, Ask(h, p) PROVE Inv'
    BY <2>6, AskKeeps
  <2>7. CASE UNCHANGED vars
    BY <2>7, StutterKeeps
  <2>8. QED
    BY <2>1, <2>2, <2>3, <2>4, <2>5, <2>6, <2>7 DEF Next
<1>2. QED
  BY <1>1, InvInit, PTL DEF Spec

(* No page that asks for the pool information shows one older than         *)
(* Horizon, however many requests overlap (cache.go:26, web.go:236).       *)
THEOREM FreshPages == Spec => []PageFresh
BY InvHolds, PTL DEF Inv

(* No dropped connection, error page or cut list without a call that       *)
(* failed, or found nothing, within the horizon of the page (cache.go:39,  *)
(* web.go:495); but the pages that fetch no pool information may have one  *)
(* without a last block from others.                                       *)
THEOREM FadingFailures == Spec => []FailureFades
BY InvHolds, PTL DEF Inv

(* Every running stream has a reader, but for the pages without a raw      *)
(* share or a last block (api.go:116).                                     *)
THEOREM ReadStreams == Spec => []StreamHasReader
BY InvHolds, PTL DEF Inv

=============================================================================
