------------------------------- MODULE ApiCache -------------------------------
(***************************************************************************)
(* One endpoint of the API (cmd/api/main.go) and its entry of the          *)
(* in-process TTL cache (cmd/api/cache.go).  All handlers have one shape:  *)
(* look the key up; on a miss GET the Redis keys the response is made of,  *)
(* one after the other; cacheSet; write.  Each request runs in its own     *)
(* goroutine, and only the lookup, the store and the cleanup hold          *)
(* cacheLock.                                                              *)
(*                                                                         *)
(* A Redis key holds a version, Absent when there is none.  A GET that     *)
(* fails is to a handler what an absent key is: the response goes without  *)
(* that part, or, when the part is required, is an error.  GETs use the    *)
(* context of the request, which ends when the client hangs up.            *)
(*                                                                         *)
(* Time is counted in ticks.  The ages are history: how long ago the first *)
(* GET of a response was made.                                             *)
(***************************************************************************)
EXTENDS Integers, Sequences

CONSTANTS
  Handler,      \* requests in flight at the same time
  Parts,        \* the Redis keys of the response, in the order they are read
  Required,     \* those without which the answer is an error
  MaxVersion,   \* bound: how often the daemon writes a key
  TTL,          \* ticks a stored response stays valid
  MaxFetch      \* bound: ticks between the lookup and the write of a response

Absent == 0
Part == {Parts[k] : k \in DOMAIN Parts}

ASSUME ApiAssumption ==
  /\ Parts \in Seq(Part) /\ Parts # << >>
  /\ Required \subseteq Part
  /\ MaxVersion \in Nat
  /\ TTL \in Nat
  /\ MaxFetch \in Nat

VARIABLES
  redis,      \* the keys the daemon writes
  redisUp,    \* do GETs succeed?
  cache,      \* the entries of this endpoint's key: at most one
  pc,         \* where each request is
  got,        \* what it has read so far
  age,        \* ticks since its lookup
  gone,       \* its client has hung up
  served      \* history: the last response, none if it was an error

request == <<pc, got, age, gone>>
vars    == <<redis, redisUp, cache, request, served>>

Version == Absent..MaxVersion
Idle(h) == <<pc[h], got[h], age[h], gone[h]>> = <<"idle", << >>, 0, FALSE>>

TypeOK ==
  /\ redis \in [Part -> Version]
  /\ redisUp \in BOOLEAN
  /\ \A e \in cache : /\ e.data \in [DOMAIN Parts -> Version]
                      /\ e.age \in Nat
                      /\ e.left \in -1..TTL
  /\ pc \in [Handler -> {"idle", "fetch", "write"}]
  /\ got \in [Handler -> Seq(Version)]
  /\ age \in [Handler -> 0..MaxFetch]
  /\ gone \in [Handler -> BOOLEAN]
  /\ \A h \in Handler : pc[h] = "idle" => Idle(h)

Init ==
  /\ redis = [p \in Part |-> Absent]
  /\ redisUp = TRUE
  /\ cache = {}
  /\ pc = [h \in Handler |-> "idle"]
  /\ got = [h \in Handler |-> << >>]
  /\ age = [h \in Handler |-> 0]
  /\ gone = [h \in Handler |-> FALSE]
  /\ served = {}

-----------------------------------------------------------------------------
(* Mutation: an entry is served one tick after it expired.                 *)
LiveLate(e) == e.left >= -1

(* cacheGet: an entry is valid until now is after its expiry.              *)
Live(e) == e.left >= 0

(* Mutation: a hit renews the entry.                                       *)
HitRenews(h) ==
  /\ pc[h] = "idle"
  /\ \E e \in cache :
       /\ Live(e)
       /\ served' = {[data |-> e.data, age |-> e.age]}
       /\ cache' = {[e EXCEPT !.left = TTL, !.age = 0]}
  /\ UNCHANGED <<redis, redisUp, request>>

Hit(h) ==
  /\ pc[h] = "idle"
  /\ \E e \in cache : Live(e) /\ served' = {[data |-> e.data, age |-> e.age]}
  /\ UNCHANGED <<redis, redisUp, cache, request>>

Miss(h) ==
  /\ pc[h] = "idle"
  /\ \A e \in cache : ~Live(e)
  /\ pc' = [pc EXCEPT ![h] = "fetch"]
  /\ UNCHANGED <<redis, redisUp, cache, got, age, gone, served>>

Fetching(h) == pc[h] = "fetch" /\ Len(got[h]) < Len(Parts)
NextPart(h) == Parts[Len(got[h]) + 1]
Read(h)     == IF redisUp /\ ~gone[h] THEN redis[NextPart(h)] ELSE Absent

(* Mutation: a missing part never makes the answer an error.               *)
FailsNever(h) == FALSE

Fails(h) == NextPart(h) \in Required /\ Read(h) = Absent

Get(h) ==
  /\ Fetching(h)
  /\ ~Fails(h)
  /\ got' = [got EXCEPT ![h] = Append(@, Read(h))]
  /\ UNCHANGED <<redis, redisUp, cache, pc, age, gone, served>>

Return(h) ==
  /\ pc' = [pc EXCEPT ![h] = "idle"]
  /\ got' = [got EXCEPT ![h] = << >>]
  /\ age' = [age EXCEPT ![h] = 0]
  /\ gone' = [gone EXCEPT ![h] = FALSE]

(* writeError (an empty list, of the found blocks): nothing is stored.     *)
Refuse(h) ==
  /\ Fetching(h)
  /\ Fails(h)
  /\ served' = {}
  /\ Return(h)
  /\ UNCHANGED <<redis, redisUp, cache>>

(* cacheSet, over whatever another request stored meanwhile.               *)
Store(h) ==
  /\ pc[h] = "fetch"
  /\ Len(got[h]) = Len(Parts)
  /\ cache' = {[data |-> got[h], age |-> age[h], left |-> TTL]}
  /\ pc' = [pc EXCEPT ![h] = "write"]
  /\ UNCHANGED <<redis, redisUp, got, age, gone, served>>

Write(h) ==
  /\ pc[h] = "write"
  /\ served' = IF gone[h] THEN served ELSE {[data |-> got[h], age |-> age[h]]}
  /\ Return(h)
  /\ UNCHANGED <<redis, redisUp, cache>>

(* Mutation: the cleanup deletes the entries that have not expired.        *)
CleanupLive ==
  /\ \E e \in cache : Live(e)
  /\ cache' = {}
  /\ UNCHANGED <<redis, redisUp, request, served>>

(* The ticker of startCacheCleanup.                                        *)
Cleanup ==
  /\ \E e \in cache : ~Live(e)
  /\ cache' = {e \in cache : Live(e)}
  /\ UNCHANGED <<redis, redisUp, request, served>>

-----------------------------------------------------------------------------
(* The daemon SETs a key, Redis fails or recovers, a client hangs up, the  *)
(* API process restarts.                                                   *)
Update(p) ==
  /\ redis[p] < MaxVersion
  /\ redis' = [redis EXCEPT ![p] = @ + 1]
  /\ UNCHANGED <<redisUp, cache, request, served>>

RedisTurns ==
  /\ redisUp' = ~redisUp
  /\ UNCHANGED <<redis, cache, request, served>>

HangUp(h) ==
  /\ pc[h] # "idle"
  /\ ~gone[h]
  /\ gone' = [gone EXCEPT ![h] = TRUE]
  /\ UNCHANGED <<redis, redisUp, cache, pc, got, age, served>>

Restart ==
  /\ cache' = {}
  /\ pc' = [h \in Handler |-> "idle"]
  /\ got' = [h \in Handler |-> << >>]
  /\ age' = [h \in Handler |-> 0]
  /\ gone' = [h \in Handler |-> FALSE]
  /\ served' = {}
  /\ UNCHANGED <<redis, redisUp>>

(* A request is over within MaxFetch ticks.  An expired entry ages no more.*)
Tick ==
  /\ \A h \in Handler : pc[h] # "idle" => age[h] < MaxFetch
  /\ age' = [h \in Handler |-> IF pc[h] = "idle" THEN 0 ELSE age[h] + 1]
  /\ cache' = {IF Live(e)
                THEN [data |-> e.data, age |-> e.age + 1, left |-> e.left - 1]
                ELSE e : e \in cache}
  /\ UNCHANGED <<redis, redisUp, pc, got, gone, served>>

Respond(h) == Get(h) \/ Refuse(h) \/ Store(h) \/ Write(h)

Next ==
  \/ \E h \in Handler : Hit(h) \/ Miss(h) \/ Respond(h) \/ HangUp(h)
  \/ \E p \in Part : Update(p)
  \/ Cleanup \/ RedisTurns \/ Restart \/ Tick

Spec == Init /\ [][Next]_vars

(***************************************************************************)
(* Fairness: time passes, a handler that runs goes on, and the cleanup     *)
(* ticker fires.  Requests need not come.                                  *)
(***************************************************************************)
Fairness ==
  /\ WF_vars(Tick) /\ WF_vars(Cleanup)
  /\ \A h \in Handler : WF_vars(Respond(h))

FairSpec == Spec /\ Fairness

-----------------------------------------------------------------------------
(***************************************************************************)
(* Properties.                                                             *)
(***************************************************************************)
(* Whatever requests overlap, no response is made of values older than the *)
(* time to live and the longest fetch together: an entry that an overtaken *)
(* request stores over a newer one is no exception.                        *)
FreshEnough == \A r \in served : r.age <= TTL + MaxFetch

(* The cache never holds a response that should have been an error.        *)
CachedIsUsable ==
  \A e \in cache : \A k \in DOMAIN Parts :
    Parts[k] \in Required => e.data[k] # Absent

(* Once Redis is up and no client hangs up, what the API serves becomes,   *)
(* and stays, what Redis holds: torn and partial responses die out.        *)
Current(e) == e.data = [k \in DOMAIN Parts |-> redis[Parts[k]]]

Converges ==
  <>[](redisUp /\ \A h \in Handler : ~gone[h])
    => <>[](\A e \in cache : Live(e) => Current(e))

(* An expired entry does not stay in memory.                               *)
ExpiredLeaves == []<>(\A e \in cache : Live(e))

=============================================================================
