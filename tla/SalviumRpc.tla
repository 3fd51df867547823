------------------------------ MODULE SalviumRpc ------------------------------
(***************************************************************************)
(* The RPC client with fallback endpoints (p2pool/rpc.go), and the first   *)
(* two calls the daemon makes with it in a cycle (syncCycle steps 3 and 4):*)
(* the difficulty the PPLNS limit is computed from, and the reward.  The   *)
(* daemon's one goroutine is the only caller.                              *)
(*                                                                         *)
(* An endpoint can be dead to a call in several ways (unreachable, over    *)
(* its timeout, not a 2xx status, no JSON; a cancelled context makes all   *)
(* of them dead), refuse it with an RPC error, answer without a result, or *)
(* be good.                                                                *)
(***************************************************************************)
EXTENDS Naturals, FiniteSets

CONSTANTS
  Endpoints,     \* how many endpoints are configured
  DifficultyOf,  \* what the node behind each endpoint reports
  Default        \* the difficulty used when none was ever reported

Index  == 0..(Endpoints - 1)
Health == {"good", "dead", "refuses", "empty"}
Unset  == 0

ASSUME RpcAssumption ==
  /\ Endpoints \in Nat \ {0}
  /\ DifficultyOf \in [Index -> Nat \ {Unset}]
  /\ Default \in Nat \ {Unset}

VARIABLES
  health,         \* of each endpoint, now
  currentIndex,
  method,         \* the call the daemon makes next, or is in
  calling,
  attempt,
  first,          \* history: currentIndex when the call began
  tried,          \* history: endpoints that failed this call
  outcome,        \* how the last call ended
  mainchainDiff

call == <<attempt, first, tried>>
vars == <<health, currentIndex, method, calling, call, outcome, mainchainDiff>>

TypeOK ==
  /\ health \in [Index -> Health]
  /\ currentIndex \in Index
  /\ method \in {"difficulty", "reward"}
  /\ calling \in BOOLEAN
  /\ attempt \in Index
  /\ first \in Index
  /\ tried \subseteq Index
  /\ outcome \in {"none", "ok", "rpc error", "all failed"}
  /\ mainchainDiff \in {Unset, Default} \cup {DifficultyOf[n] : n \in Index}

Init ==
  /\ health \in [Index -> Health]
  /\ currentIndex = 0
  /\ method = "difficulty"
  /\ calling = FALSE
  /\ attempt = 0
  /\ first = 0
  /\ tried = {}
  /\ outcome = "none"
  /\ mainchainDiff = Unset

-----------------------------------------------------------------------------
Begin ==
  /\ ~calling
  /\ calling' = TRUE
  /\ attempt' = 0
  /\ first' = currentIndex
  /\ tried' = {}
  /\ UNCHANGED <<health, currentIndex, method, outcome, mainchainDiff>>

(* Mutation: the index stays where it is.                                  *)
FollowingSame(n) == n

Following(n) == (n + 1) % Endpoints

failover == currentIndex' = Following(currentIndex)

(* Mutation: nothing replaces a difficulty that is not set.                *)
DiffAfterErrorKeep == mainchainDiff

(* What syncCycle goes on with when GetDifficulty fails.                   *)
DiffAfterError == IF mainchainDiff = Unset THEN Default ELSE mainchainDiff

(* Mutation: one attempt fewer than there are endpoints.                   *)
LastAttemptEarly == attempt + 2 >= Endpoints

LastAttempt == attempt + 1 = Endpoints

Try(kinds) == calling /\ health[currentIndex] \in kinds

(* The call is over, and syncCycle goes on with diff.                      *)
Returns(how, diff) ==
  /\ outcome' = how
  /\ calling' = FALSE
  /\ mainchainDiff' = IF method = "difficulty" THEN diff ELSE mainchainDiff
  /\ method' = IF method = "difficulty" THEN "reward" ELSE "difficulty"
  /\ UNCHANGED <<health, attempt, first>>

TryNext ==
  /\ Try({"dead"}) /\ ~LastAttempt
  /\ tried' = tried \cup {currentIndex}
  /\ failover
  /\ attempt' = attempt + 1
  /\ UNCHANGED <<health, method, calling, first, outcome, mainchainDiff>>

(* Mutation: the last endpoint stays current after it failed.              *)
GiveUpAtLast ==
  /\ Try({"dead"}) /\ LastAttempt
  /\ tried' = tried \cup {currentIndex}
  /\ Returns("all failed", DiffAfterError)
  /\ UNCHANGED currentIndex

GiveUp ==
  /\ Try({"dead"}) /\ LastAttempt
  /\ tried' = tried \cup {currentIndex}
  /\ failover
  /\ Returns("all failed", DiffAfterError)

(* An RPC error is returned to the caller: no other endpoint is tried.     *)
Refused ==
  /\ Try({"refuses"})
  /\ Returns("rpc error", DiffAfterError)
  /\ UNCHANGED <<currentIndex, tried>>

(* A response without a result is a success that leaves zeros behind.      *)
Answered ==
  /\ Try({"good", "empty"})
  /\ Returns("ok", IF health[currentIndex] = "good"
                   THEN DifficultyOf[currentIndex] ELSE Unset)
  /\ UNCHANGED <<currentIndex, tried>>

HealthChanges(n) ==
  /\ \E k \in Health : health' = [health EXCEPT ![n] = k]
  /\ UNCHANGED <<currentIndex, method, calling, call, outcome, mainchainDiff>>

Call == Begin \/ TryNext \/ GiveUp \/ Refused \/ Answered

Next == Call \/ \E n \in Index : HealthChanges(n)

Spec == Init /\ [][Next]_vars

(* The ticker starts cycle after cycle, and every request ends, after the  *)
(* client's timeout of 10 s at the latest.                                 *)
FairSpec == Spec /\ WF_vars(Call)

-----------------------------------------------------------------------------
(***************************************************************************)
(* Properties.                                                             *)
(***************************************************************************)
(* A call that reports that all endpoints failed has tried each of them    *)
(* ("Try each endpoint until one works"), although the index it goes round *)
(* from is wherever the calls before it left it.                           *)
EachTried == outcome = "all failed" /\ ~calling => tried = Index

(* A call that failed everywhere leaves the client at the endpoint it had. *)
IndexComesRound == outcome = "all failed" /\ ~calling => currentIndex = first

(* The zero of an answer without a result does not stay: once no endpoint  *)
(* gives such answers any more, the cycles compute with a difficulty again *)
(* (main.go:321), even if all endpoints refuse or are dead from then on.   *)
ZeroFades ==
  <>[](\A n \in Index : health[n] # "empty")
  => <>[](method = "reward" => mainchainDiff # Unset)

(* Once one endpoint is good for good, and no endpoint answers with errors *)
(* of its own or without a result, every call succeeds, whatever the other *)
(* endpoints do, and the difficulty is a reported one.                     *)
Recovers ==
  (/\ (\E n \in Index : <>[](health[n] = "good"))
   /\ <>[](\A n \in Index : health[n] \in {"good", "dead"}))
  => <>[](outcome = "ok" /\ mainchainDiff \in {DifficultyOf[n] : n \in Index})

=============================================================================
