---------------------------- MODULE SalviumRpcProofs ----------------------------
(***************************************************************************)
(* Proofs about the RPC client, for any number of endpoints, wherever the  *)
(* calls before have left the index, and whatever the endpoints do between *)
(* two attempts.                                                           *)
(***************************************************************************)
EXTENDS SalviumRpc, TLAPS

(* The attempts of a call go round from its first index f without a gap:   *)
(* at the n-th, the index is this.                                         *)
At(f, n) == IF f + n < Endpoints THEN f + n ELSE f + n - Endpoints

RoundInv ==
  /\ currentIndex \in Index /\ first \in Index /\ attempt \in Index
  /\ calling \in BOOLEAN
  /\ calling => /\ currentIndex = At(first, attempt)
                /\ \A k \in Index : k < attempt => At(first, k) \in tried
  /\ outcome = "all failed" /\ ~calling => Index \subseteq tried /\ currentIndex = first
  /\ tried \subseteq Index

(* There is an endpoint.                                                   *)
LEMMA EndpointsNat == Endpoints \in Nat /\ Endpoints > 0
BY RpcAssumption

(* The next endpoint, without the remainder.                               *)
LEMMA FollowingIs ==
  ASSUME NEW n \in Index
  PROVE  Following(n) = IF n + 1 = Endpoints THEN 0 ELSE n + 1
BY EndpointsNat DEF Index, Following

(* Every endpoint is the one of some attempt.                              *)
LEMMA AtCovers ==
  ASSUME NEW f \in Index, NEW n \in Index
  PROVE  \E k \in Index : At(f, k) = n
<1>1. CASE n >= f
  <2>1. n - f \in Index /\ At(f, n - f) = n
    BY <1>1, EndpointsNat DEF Index, At
  <2>2. QED
    BY <2>1
<1>2. CASE n < f
  <2>1. n - f + Endpoints \in Index /\ At(f, n - f + Endpoints) = n
    BY <1>2, EndpointsNat DEF Index, At
  <2>2. QED
    BY <2>1
<1>3. QED
  BY <1>1, <1>2, EndpointsNat DEF Index

(* No call has been made at the start.                                     *)
LEMMA RoundInit == Init => RoundInv
<1>1. 0 \in Index
  BY EndpointsNat DEF Index
<1>2. QED
  BY <1>1 DEF Init, RoundInv

(* A step of a call keeps the round.                                       *)
LEMMA RoundNext == RoundInv /\ [Next]_vars => RoundInv'
<1> SUFFICES ASSUME RoundInv, [Next]_vars PROVE RoundInv'
  OBVIOUS
<1>1. CASE Begin
  <2>1. /\ calling' /\ attempt' = 0 /\ first' = currentIndex /\ currentIndex' = currentIndex
        /\ tried' = {}
    BY <1>1 DEF Begin
  <2>2. 0 \in Index /\ currentIndex = At(currentIndex, 0)
    <3>1. 0 \in Index
      BY EndpointsNat DEF Index
    <3>2. currentIndex \in 0..(Endpoints - 1)
      BY DEF RoundInv, Index
    <3>3. currentIndex + 0 = currentIndex /\ currentIndex < Endpoints
      BY <3>2, EndpointsNat
    <3>4. QED
      BY <3>1, <3>3 DEF At
  <2>3. \A k \in Index : ~(k < 0)
    BY EndpointsNat DEF Index
  <2>4. QED
    BY <2>1, <2>2, <2>3 DEF RoundInv
<1>2. CASE TryNext
  <2>1. /\ calling /\ calling' /\ attempt' = attempt + 1 /\ attempt + 1 # Endpoints
        /\ tried' = tried \cup {currentIndex} /\ currentIndex' = Following(currentIndex)
        /\ first' = first
    BY <1>2 DEF TryNext, Try, LastAttempt, failover
  <2>2. attempt' \in Index
    BY <2>1, EndpointsNat DEF RoundInv, Index
  <2>3. currentIndex' = IF currentIndex + 1 = Endpoints THEN 0 ELSE currentIndex + 1
    BY <2>1, FollowingIs DEF RoundInv
  <2>4. currentIndex' \in Index /\ currentIndex' = At(first', attempt')
    BY <2>1, <2>3, EndpointsNat DEF RoundInv, At, Index
  <2>5. \A k \in Index : k < attempt' => At(first', k) \in tried'
    <3> SUFFICES ASSUME NEW k \in Index, k < attempt' PROVE At(first', k) \in tried'
      OBVIOUS
    <3>1. k < attempt \/ k = attempt
      BY <2>1, EndpointsNat DEF RoundInv, Index
    <3>2. QED
      BY <3>1, <2>1 DEF RoundInv
  <2>6. tried' \subseteq Index
    BY <2>1 DEF RoundInv
  <2>7. QED
    BY <2>1, <2>2, <2>4, <2>5, <2>6 DEF RoundInv
<1>3. CASE GiveUp
  <2>1. /\ calling /\ calling' = FALSE /\ attempt + 1 = Endpoints
        /\ tried' = tried \cup {currentIndex} /\ currentIndex' = Following(currentIndex)
        /\ first' = first /\ attempt' = attempt
    BY <1>3 DEF GiveUp, Try, LastAttempt, failover, Returns
  <2>2. ASSUME NEW k \in Index PROVE At(first, k) \in tried'
    <3>1. k < attempt \/ k = attempt
      BY <2>1, EndpointsNat DEF RoundInv, Index
    <3>2. QED
      BY <3>1, <2>1 DEF RoundInv
  <2>3. Index \subseteq tried'
    <3>1. first \in Index
      BY DEF RoundInv
    <3>2. QED
      BY <2>2, <3>1, AtCovers, Zenon
  <2>4. currentIndex' \in Index /\ tried' \subseteq Index
    <3>1. currentIndex' = IF currentIndex + 1 = Endpoints THEN 0 ELSE currentIndex + 1
      BY <2>1, FollowingIs DEF RoundInv
    <3>2. QED
      BY <3>1, <2>1, EndpointsNat DEF RoundInv, Index
  <2>5. currentIndex' = first
    <3>1. currentIndex = At(first, attempt)
      BY <2>1 DEF RoundInv
    <3>2. currentIndex' = IF currentIndex + 1 = Endpoints THEN 0 ELSE currentIndex + 1
      BY <2>1, FollowingIs DEF RoundInv
    <3>3. first \in Index /\ attempt \in Index
      BY DEF RoundInv
    <3>4. QED
      BY <3>1, <3>2, <3>3, <2>1, EndpointsNat DEF At, Index
  <2>6. QED
    BY <2>1, <2>3, <2>4, <2>5 DEF RoundInv
<1>4. CASE Refused \/ Answered
  BY <1>4 DEF Refused, Answered, Try, Returns, RoundInv, At
<1>5. CASE \E n \in Index : HealthChanges(n)
  <2>1. UNCHANGED <<currentIndex, calling, attempt, first, tried, outcome>>
    BY <1>5 DEF HealthChanges, call
  <2>2. QED
    BY <2>1 DEF RoundInv
<1>6. CASE UNCHANGED vars
  BY <1>6 DEF vars, call, RoundInv
<1>7. QED
  BY <1>1, <1>2, <1>3, <1>4, <1>5, <1>6 DEF Next, Call

(* A call that reports that all endpoints failed has tried each of them    *)
(* (rpc.go:117).                                                           *)
THEOREM TriesAll == Spec => []EachTried
<1>1. RoundInv => EachTried
  BY DEF RoundInv, EachTried
<1>2. QED
  BY <1>1, RoundInit, RoundNext, PTL DEF Spec

(* A call that failed everywhere leaves the client at the endpoint it had  *)
(* (rpc.go:67).                                                            *)
THEOREM ComesRound == Spec => []IndexComesRound
<1>1. RoundInv => IndexComesRound
  BY DEF RoundInv, IndexComesRound
<1>2. QED
  BY <1>1, RoundInit, RoundNext, PTL DEF Spec

(* Type correctness of the client and of the difficulty the daemon keeps.  *)
THEOREM TypeCorrect == Spec => []TypeOK
<1>1. Init => TypeOK
  <2>1. 0 \in Index
    BY EndpointsNat DEF Index
  <2>2. QED
    BY <2>1 DEF Init, TypeOK
<1>2. TypeOK /\ RoundInv /\ RoundInv' /\ [Next]_vars => TypeOK'
  <2> SUFFICES ASSUME TypeOK, RoundInv, RoundInv', [Next]_vars PROVE TypeOK'
    OBVIOUS
  <2>1. /\ currentIndex' \in Index /\ first' \in Index /\ attempt' \in Index
        /\ calling' \in BOOLEAN /\ tried' \subseteq Index
    BY DEF RoundInv
  <2>2. DiffAfterError \in {Unset, Default} \cup {DifficultyOf[n] : n \in Index}
    BY DEF TypeOK, DiffAfterError
  <2>3. CASE Begin \/ TryNext
    BY <2>1, <2>3 DEF Begin, TryNext, TypeOK
  <2>4. CASE GiveUp \/ Refused
    BY <2>1, <2>2, <2>4 DEF GiveUp, Refused, Returns, TypeOK
  <2>5. CASE Answered
    BY <2>1, <2>5 DEF Answered, Returns, TypeOK
  <2>6. CASE \E n \in Index : HealthChanges(n)
    BY <2>1, <2>6 DEF HealthChanges, call, TypeOK
  <2>7. CASE UNCHANGED vars
    BY <2>1, <2>7 DEF vars, call, TypeOK
  <2>8. QED
    BY <2>3, <2>4, <2>5, <2>6, <2>7 DEF Next, Call
<1>3. QED
  BY <1>1, <1>2, RoundInit, RoundNext, PTL DEF Spec

=============================================================================
