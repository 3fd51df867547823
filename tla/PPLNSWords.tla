----------------------------- MODULE PPLNSWords -----------------------------
(***************************************************************************)
(* What the daemon makes of a PPLNS result beyond PPLNSWindow: the split   *)
(* of a reward in the two-word arithmetic the code really uses, the share  *)
(* keys of storeShares and the hashrate of storeHashrate                   *)
(* (cmd/daemon/main.go).  PPLNSWindow counts with natural numbers.         *)
(***************************************************************************)
EXTENDS PPLNSWindow, Difficulty

CONSTANT Clock   \* the timestamps shares may carry: functions on Id

ASSUME ClockAssumption == Clock \subseteq [Id -> Digit]

ASSUME PercentAssumption == 100 < Word   \* 2^64 in the code

-----------------------------------------------------------------------------
(* CalculatePPLNS in words: the part of an uncle's difficulty that goes to *)
(* the share that lists it, and the part that stays.                       *)
PenaltyWords(x) == Div64(Mul64(Words(shares[x].difficulty), UnclePenalty), 100)

(* The rounded-down value up to which the reward r is given after k miners *)
(* of the order o; only its low word is used.                              *)
NextValue(o, k, r) ==
  LET cumulative == FoldFunction(Add, Zero, [j \in 1..k |-> Words(weight[o[j]])])
  IN Div(Mul64(cumulative, r), Words(pplnsWeight)).lo

(* EstimatedPayoutOrdered.                                                 *)
PayoutWords(o, r) ==
  [k \in 1..Len(o) |-> (NextValue(o, k, r) - NextValue(o, k - 1, r)) % Word]

-----------------------------------------------------------------------------
(* Mutation: storeShares stops where the weight limit stops the window.    *)
WalkedToLimit == [k \in 1..(BlocksIncluded - 1) |->
  LET up[j \in 0..k] == IF j = 0 THEN tip ELSE shares[up[j - 1]].parent
  IN up[k - 1]]

(* The parents from the tip on, until one is not in the map.               *)
Ancestor[j \in 0..PPLNSWindow] ==
  IF j = 0 THEN tip
  ELSE IF Ancestor[j - 1] \in DOMAIN shares THEN shares[Ancestor[j - 1]].parent
       ELSE NoShare

(* The shares storeShares walks: the tip and its parents that are in the   *)
(* map, as many as the window is long, whatever they weigh.                *)
Walked ==
  LET far == CHOOSE n \in 0..PPLNSWindow :
               /\ \A j \in 0..(n - 1) : Ancestor[j] \in DOMAIN shares
               /\ n = PPLNSWindow \/ Ancestor[n] \notin DOMAIN shares
  IN [k \in 1..far |-> Ancestor[k - 1]]

(* miner:{m}:shares, the latest first: the j-th share of m on the walk.    *)
MinerShares(m) ==
  LET mine == {k \in DOMAIN Walked : shares[Walked[k]].miner = m}
  IN [j \in 1..Cardinality(mine) |->
        Walked[CHOOSE k \in mine : Cardinality({n \in mine : n <= k}) = j]]

-----------------------------------------------------------------------------
(* The shares the map iteration of storeHashrate may end up with: any one  *)
(* of that height, also an uncle or one of another branch.                 *)
AtHeight(h) == {x \in DOMAIN shares : shares[x].height = h}

(* Mutation: the span is measured from the tip back.                       *)
TimeSpanBack(from, to) == IF from = to THEN 1 ELSE (from - to) % Word

(* An unsigned subtraction, and never zero.                                *)
TimeSpan(from, to) == IF from = to THEN 1 ELSE (to - from) % Word

(* stats:pool:hashrate, for the timestamps c: nothing for a window of one  *)
(* share; of the weight only the low word counts.                          *)
Hashrates(c) ==
  IF BlocksIncluded < 2 THEN {}
  ELSE {Words(pplnsWeight).lo \div TimeSpan(c[b], c[t]) :
          b \in AtHeight(shares[cur].height), t \in AtHeight(shares[tip].height)}

-----------------------------------------------------------------------------
(***************************************************************************)
(* Properties.                                                             *)
(***************************************************************************)
(* The two-word arithmetic gives the exact split and the exact penalties   *)
(* as long as the numbers, and the product of the window's weight and the  *)
(* reward, fit in two words; the code checks nothing                       *)
(* (EstimatedPayoutOrdered, Mul64, Div).                                   *)
Fits(n) == n < Word * Word

WordsExact ==
  pc = "done" =>
    /\ \A x \in counted :
         Fits(shares[x].difficulty) /\ Fits(shares[x].difficulty * UnclePenalty)
           => Value(PenaltyWords(x)) = Penalty(x)
    /\ \A o \in TopMiners, r \in Reward \cap Digit :
         pplnsWeight > 0 /\ Fits(pplnsWeight) /\ Fits(pplnsWeight * r)
           => PayoutWords(o, r) = EstimatedPayout(o, r)

(* The API can look up each share the PPLNS result counts: storeShares and *)
(* CalculatePPLNS walk separately, and yet the shares at a miner's         *)
(* positions are the first ones of its list, in the same order.            *)
WindowStored ==
  pc = "done" =>
    \A m \in Address :
      /\ Len(sharePositions[m]) <= Len(MinerShares(m))
      /\ \A k \in DOMAIN sharePositions[m] :
           MinerShares(m)[k] = Walked[sharePositions[m][k] + 1]

(* When no share's clock is behind that of a lower one, the hashrate lies  *)
(* between what the longest and the shortest span at these heights give,   *)
(* whichever shares the map iteration finds: it never wraps around.        *)
Ordered(c) == \A x, y \in DOMAIN shares :
                shares[x].height < shares[y].height => c[x] <= c[y]

HashrateInSpan ==
  pc = "done" /\ pplnsWeight < Word =>
    \A c \in Clock : Ordered(c) =>
      LET longest == Max({c[t] : t \in AtHeight(shares[tip].height)})
                       - Min({c[b] : b \in AtHeight(shares[cur].height)})
      IN \A hr \in Hashrates(c) :
           /\ hr <= pplnsWeight
           /\ pplnsWeight < (hr + 1) * Max({longest, 1})
=============================================================================
