--------------------------- MODULE ApiCacheProofs ---------------------------
(***************************************************************************)
(* Proofs about ApiCache, for any number of overlapping requests, any list *)
(* of Redis keys, any time to live and any length of a fetch: no response  *)
(* is staler than the two together, and no response without a required     *)
(* part is ever stored.                                                    *)
(***************************************************************************)
EXTENDS ApiCache, TLAPS

(* The required parts among those read so far are there.                   *)
Usable(data) ==
  \A k \in DOMAIN data :
    k \in DOMAIN Parts /\ Parts[k] \in Required => data[k] # Absent

RequestInv ==
  /\ pc \in [Handler -> {"idle", "fetch", "write"}]
  /\ age \in [Handler -> 0..MaxFetch]
  /\ got \in [Handler -> Seq(Int)]
  /\ \A h \in Handler : Usable(got[h])

Entry == [data : Seq(Int), age : Nat, left : -1..TTL]

EntryOK(e) ==
  /\ e \in Entry
  /\ e.age + e.left <= TTL + MaxFetch
  /\ Len(e.data) = Len(Parts)
  /\ Usable(e.data)

(* An entry was read at most MaxFetch ticks before it was stored: its age  *)
(* and the time it has left add up.                                        *)
Inv ==
  /\ redis \in [Part -> Int]
  /\ RequestInv
  /\ \A e \in cache : EntryOK(e)
  /\ FreshEnough

(* Nothing is stored, requested or served at the start.                    *)
LEMMA InvInit == Init => Inv
BY ApiAssumption DEF Init, Inv, RequestInv, EntryOK, FreshEnough, Usable, Absent

(* A handler that returns forgets what it has read.                        *)
LEMMA ReturnKeeps ==
  ASSUME RequestInv, NEW h \in Handler, Return(h)
  PROVE  RequestInv'
BY ApiAssumption DEF RequestInv, Return, Usable

(* One more part is read; were it required and missing, this would be the  *)
(* error path.                                                             *)
LEMMA GetKeeps ==
  ASSUME Inv, NEW h \in Handler, Get(h)
  PROVE  Inv'
<1>1. redis \in [Part -> Int] /\ Parts \in Seq(Part) /\ got[h] \in Seq(Int)
  BY ApiAssumption DEF Inv, RequestInv
<1>2. Len(got[h]) + 1 \in DOMAIN Parts
  BY <1>1 DEF Get, Fetching
<1>3. Read(h) \in Int
  BY <1>1, <1>2 DEF Read, NextPart, Absent
<1>4. got' = [got EXCEPT ![h] = Append(got[h], Read(h))]
  BY DEF Get
<1>5. got' \in [Handler -> Seq(Int)]
  BY <1>1, <1>3, <1>4 DEF Inv, RequestInv
<1>6. Usable(Append(got[h], Read(h)))
  <2> SUFFICES ASSUME NEW k \in DOMAIN Append(got[h], Read(h)),
                      k \in DOMAIN Parts, Parts[k] \in Required
               PROVE  Append(got[h], Read(h))[k] # Absent
    BY DEF Usable
  <2>1. CASE k = Len(got[h]) + 1
    BY <1>1, <1>3, <2>1 DEF Get, Fails, NextPart
  <2>2. CASE k # Len(got[h]) + 1
    <3>1. k \in DOMAIN got[h] /\ Append(got[h], Read(h))[k] = got[h][k]
      BY <1>1, <1>3, <2>2
    <3>2. QED
      BY <3>1 DEF Inv, RequestInv, Usable
  <2>3. QED
    BY <2>1, <2>2
<1>7. \A x \in Handler : Usable(got'[x])
  BY <1>4, <1>6 DEF Inv, RequestInv
<1>8. UNCHANGED <<redis, cache, pc, age, served>>
  BY DEF Get
<1>9. QED
  BY <1>5, <1>7, <1>8 DEF Inv, RequestInv, FreshEnough

(* A complete response is stored with its whole time to live.              *)
LEMMA StoreKeeps ==
  ASSUME Inv, NEW h \in Handler, Store(h)
  PROVE  Inv'
<1>1. got[h] \in Seq(Int) /\ Usable(got[h]) /\ age[h] \in 0..MaxFetch
  BY DEF Inv, RequestInv
<1>2. EntryOK([data |-> got[h], age |-> age[h], left |-> TTL])
  BY <1>1, ApiAssumption DEF EntryOK, Entry, Store
<1>3. RequestInv'
  BY DEF Inv, RequestInv, Store
<1>4. QED
  BY <1>2, <1>3 DEF Inv, Store, FreshEnough

(* A tick takes from the time left what it adds to the age.                *)
LEMMA TickKeeps ==
  ASSUME Inv, Tick
  PROVE  Inv'
<1> DEFINE Older(e) ==
      IF Live(e)
      THEN [data |-> e.data, age |-> e.age + 1, left |-> e.left - 1] ELSE e
<1>1. ASSUME NEW e \in cache PROVE EntryOK(Older(e))
  <2>1. EntryOK(e)
    BY DEF Inv
  <2>2. CASE Live(e)
    <3>1. /\ e.data \in Seq(Int) /\ e.age \in Nat /\ e.left \in 0..TTL
          /\ Older(e) = [data |-> e.data, age |-> e.age + 1, left |-> e.left - 1]
      BY <2>1, <2>2, ApiAssumption DEF EntryOK, Entry, Live
    <3>2. e.age + 1 \in Nat /\ e.left - 1 \in -1..TTL
      <4>1. e.age \in Nat /\ e.left \in 0..TTL /\ TTL \in Nat
        BY <3>1, ApiAssumption
      <4>2. QED
        BY ONLY <4>1
    <3>3. (e.age + 1) + (e.left - 1) <= TTL + MaxFetch
      BY <2>1, <3>1, ApiAssumption DEF EntryOK
    <3>4. QED
      BY <2>1, <3>1, <3>2, <3>3 DEF EntryOK, Entry
  <2>3. CASE ~Live(e)
    BY <2>1, <2>3
  <2>4. QED
    BY <2>2, <2>3
<1>2. cache' = {Older(e) : e \in cache}
  BY DEF Tick
<1>3. \A e \in cache' : EntryOK(e)
  BY <1>1, <1>2
<1>4. age' \in [Handler -> 0..MaxFetch]
  <2>1. ASSUME NEW h \in Handler, pc[h] # "idle"
        PROVE  age[h] + 1 \in 0..MaxFetch
    <3>1. age[h] \in 0..MaxFetch /\ age[h] < MaxFetch
      BY <2>1 DEF Tick, Inv, RequestInv
    <3>2. QED
      BY <3>1, ApiAssumption
  <2>2. 0 \in 0..MaxFetch
    BY ApiAssumption
  <2>3. age' = [h \in Handler |-> IF pc[h] = "idle" THEN 0 ELSE age[h] + 1]
    BY DEF Tick
  <2>4. QED
    BY <2>1, <2>2, <2>3
<1>5. RequestInv'
  BY <1>4 DEF Tick, Inv, RequestInv
<1>6. QED
  BY <1>3, <1>5 DEF Inv, Tick, FreshEnough

(* A cached response was read, at most MaxFetch before it was stored, less *)
(* than its time to live ago.                                              *)
LEMMA HitKeeps ==
  ASSUME Inv, NEW h \in Handler, Hit(h)
  PROVE  Inv'
<1>1. PICK e \in cache : Live(e) /\ served' = {[data |-> e.data, age |-> e.age]}
  BY DEF Hit
<1>2. e.age \in Nat /\ e.left \in Int /\ e.left >= 0
      /\ e.age + e.left <= TTL + MaxFetch
  BY <1>1, ApiAssumption DEF Inv, EntryOK, Entry, Live
<1>3. e.age <= TTL + MaxFetch
  BY <1>2, ApiAssumption
<1>4. FreshEnough'
  BY <1>1, <1>3 DEF FreshEnough
<1>5. UNCHANGED <<redis, cache, pc, got, age>>
  BY DEF Hit, request
<1>6. QED
  BY <1>4, <1>5 DEF Inv, RequestInv

(* A response that was not cached is as old as its fetch is long.          *)
LEMMA WriteKeeps ==
  ASSUME Inv, NEW h \in Handler, Write(h)
  PROVE  Inv'
<1>1. age[h] \in 0..MaxFetch
  BY DEF Inv, RequestInv
<1>2. age[h] <= TTL + MaxFetch
  BY <1>1, ApiAssumption
<1>3. FreshEnough'
  BY <1>2 DEF FreshEnough, Write, Inv
<1>4. RequestInv'
  BY ReturnKeeps DEF Inv, Write
<1>5. QED
  BY <1>3, <1>4 DEF Inv, Write

(* The steps that only forget, or leave requests and entries as they are.  *)
LEMMA OthersKeep ==
  ASSUME Inv,
         \/ \E h \in Handler : Miss(h) \/ Refuse(h) \/ HangUp(h)
         \/ \E p \in Part : Update(p)
         \/ Cleanup \/ RedisTurns \/ Restart
         \/ UNCHANGED vars
  PROVE  Inv'
<1>1. ASSUME NEW h \in Handler, Miss(h) PROVE Inv'
  BY <1>1 DEF Miss, Inv, RequestInv, FreshEnough
<1>2. ASSUME NEW h \in Handler, Refuse(h) PROVE Inv'
  <2>1. RequestInv'
    BY <1>2, ReturnKeeps DEF Refuse, Inv
  <2>2. QED
    BY <1>2, <2>1 DEF Refuse, Inv, FreshEnough
<1>3. ASSUME NEW h \in Handler, HangUp(h) PROVE Inv'
  BY <1>3 DEF HangUp, Inv, RequestInv, FreshEnough
<1>4. ASSUME NEW p \in Part, Update(p) PROVE Inv'
  BY <1>4 DEF Update, Inv, RequestInv, FreshEnough, request
<1>5. CASE Cleanup
  BY <1>5 DEF Cleanup, Inv, RequestInv, FreshEnough, request
<1>6. CASE RedisTurns
  BY <1>6 DEF RedisTurns, Inv, RequestInv, FreshEnough, request
<1>7. CASE Restart
  BY <1>7, ApiAssumption DEF Restart, Inv, RequestInv, FreshEnough, Usable
<1>8. CASE UNCHANGED vars
  BY <1>8 DEF vars, Inv, RequestInv, FreshEnough, request
<1>9. QED
  BY <1>1, <1>2, <1>3, <1>4, <1>5, <1>6, <1>7, <1>8

(* Every step of the specification.                                        *)
LEMMA InvHolds == Spec => []Inv
<1>1. Inv /\ [Next]_vars => Inv'
  <2> SUFFICES ASSUME Inv, [Next]_vars PROVE Inv'
    OBVIOUS
  <2>1. ASSUME NEW h \in Handler, Hit(h) PROVE Inv'
    BY <2>1, HitKeeps
  <2>2. ASSUME NEW h \in Handler, Get(h) PROVE Inv'
    BY <2>2, GetKeeps
  <2>3. ASSUME NEW h \in Handler, Store(h) PROVE Inv'
    BY <2>3, StoreKeeps
  <2>4. ASSUME NEW h \in Handler, Write(h) PROVE Inv'
    BY <2>4, WriteKeeps
  <2>5. CASE Tick
    BY <2>5, TickKeeps
  <2>6. CASE \/ \E h \in Handler : Miss(h) \/ Refuse(h) \/ HangUp(h)
             \/ \E p \in Part : Update(p)
             \/ Cleanup \/ RedisTurns \/ Restart
             \/ UNCHANGED vars
    BY <2>6, OthersKeep
  <2>7. QED
    BY <2>1, <2>2, <2>3, <2>4, <2>5, <2>6 DEF Next, Respond
<1>2. QED
  BY <1>1, InvInit, PTL DEF Spec

(* No response is staler than the time to live and the longest fetch.      *)
THEOREM FreshAlways == Spec => []FreshEnough
<1>1. Inv => FreshEnough
  BY DEF Inv
<1>2. QED
  BY <1>1, InvHolds, PTL

(* No response without a required part is ever in the cache.               *)
THEOREM UsableAlways == Spec => []CachedIsUsable
<1>1. Inv => CachedIsUsable
  BY ApiAssumption DEF Inv, EntryOK, Entry, Usable, CachedIsUsable
<1>2. QED
  BY <1>1, InvHolds, PTL

-----------------------------------------------------------------------------
(* Types: what has been read so far are versions, and a request that is    *)
(* over has nothing left.                                                  *)
LEMMA TypeNext == TypeOK /\ [Next]_vars => TypeOK'
<1> SUFFICES ASSUME TypeOK, [Next]_vars PROVE TypeOK'
  OBVIOUS
<1> USE DEF Idle
<1>1. Absent \in Version /\ 0 \in 0..MaxFetch /\ TTL \in -1..TTL
  BY ApiAssumption DEF Absent, Version
<1>2. ASSUME NEW h \in Handler, Hit(h) \/ Miss(h) \/ HangUp(h) PROVE TypeOK'
  BY <1>2 DEF Hit, Miss, HangUp, TypeOK, request
<1>3. ASSUME NEW h \in Handler, Get(h) PROVE TypeOK'
  <2>1. Len(got[h]) + 1 \in DOMAIN Parts
    BY <1>3, ApiAssumption DEF TypeOK, Get, Fetching
  <2>2. Read(h) \in Version
    BY <2>1, <1>1, ApiAssumption DEF TypeOK, Read, NextPart, Part
  <2>3. got' \in [Handler -> Seq(Version)]
    BY <1>3, <2>2 DEF TypeOK, Get
  <2>4. QED
    BY <1>3, <2>3 DEF TypeOK, Get, Fetching
<1>4. ASSUME NEW h \in Handler, Return(h), UNCHANGED <<redis, redisUp, cache>> PROVE TypeOK'
  <2>1. << >> \in Seq(Version)
    OBVIOUS
  <2>2. QED
    BY <1>4, <1>1, <2>1 DEF TypeOK, Return
<1>5. ASSUME NEW h \in Handler, Refuse(h) \/ Write(h) PROVE TypeOK'
  BY <1>4, <1>5 DEF Refuse, Write
<1>6. ASSUME NEW h \in Handler, Store(h) PROVE TypeOK'
  <2>1. got[h] \in Seq(Version) /\ Len(got[h]) = Len(Parts) /\ age[h] \in Nat
    BY <1>6, ApiAssumption DEF TypeOK, Store
  <2>2. got[h] \in [DOMAIN Parts -> Version]
    BY <2>1, ApiAssumption
  <2>3. cache' = {[data |-> got[h], age |-> age[h], left |-> TTL]}
    BY <1>6 DEF Store
  <2>4. \A e \in cache' : e.data \in [DOMAIN Parts -> Version] /\ e.age \in Nat /\ e.left \in -1..TTL
    BY <1>1, <2>1, <2>2, <2>3
  <2>5. /\ UNCHANGED <<redis, redisUp, got, age, gone>>
        /\ pc' = [pc EXCEPT ![h] = "write"]
    BY <1>6 DEF Store
  <2>6. QED
    BY <2>4, <2>5 DEF TypeOK
<1>7. ASSUME NEW p \in Part, Update(p) PROVE TypeOK'
  <2>1. redis[p] + 1 \in Version
    BY <1>7, ApiAssumption DEF TypeOK, Update, Version, Absent
  <2>2. QED
    BY <1>7, <2>1 DEF TypeOK, Update, request
<1>8. CASE Cleanup \/ RedisTurns
  BY <1>8 DEF Cleanup, RedisTurns, TypeOK, request
<1>9. CASE Restart
  BY <1>9, <1>1 DEF Restart, TypeOK
<1>10. CASE Tick
  <2>1. ASSUME NEW h \in Handler, pc[h] # "idle" PROVE age[h] + 1 \in 0..MaxFetch
    BY <1>10, <2>1, ApiAssumption DEF Tick, TypeOK
  <2>2. age' \in [Handler -> 0..MaxFetch]
    BY <1>1, <1>10, <2>1 DEF Tick
  <2>3. ASSUME NEW e \in cache, Live(e) PROVE e.age + 1 \in Nat /\ e.left - 1 \in -1..TTL
    BY <2>3, ApiAssumption DEF Live, TypeOK
  <2>4. \A e \in cache' : e.data \in [DOMAIN Parts -> Version] /\ e.age \in Nat /\ e.left \in -1..TTL
    BY <1>10, <2>3 DEF Tick, TypeOK
  <2>5. \A h \in Handler : pc[h] = "idle" => age'[h] = 0
    BY <1>10 DEF Tick
  <2>6. UNCHANGED <<redis, redisUp, pc, got, gone>>
    BY <1>10 DEF Tick
  <2>7. QED
    BY <2>2, <2>4, <2>5, <2>6 DEF TypeOK
<1>11. CASE UNCHANGED vars
  BY <1>11 DEF vars, TypeOK, request
<1>12. QED
  BY <1>2, <1>3, <1>5, <1>6, <1>7, <1>8, <1>9, <1>10, <1>11 DEF Next, Respond

(* Type correctness of the requests and the cache.                         *)
THEOREM TypeCorrect == Spec => []TypeOK
<1>1. Init => TypeOK
  BY ApiAssumption DEF Init, TypeOK, Absent, Version, Idle
<1>2. QED
  BY <1>1, TypeNext, PTL DEF Spec

=============================================================================
