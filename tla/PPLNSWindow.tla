----------------------------- MODULE PPLNSWindow -----------------------------
(***************************************************************************)
(* CalculatePPLNS (p2pool/pplns.go) on the share map one cycle loaded, one *)
(* action per uncle and one per share of the walk from the tip towards the *)
(* genesis share; then what the daemon derives from its result: the order  *)
(* of the miners, the split of a reward, the position buckets.             *)
(*                                                                         *)
(* Data: identifiers and addresses are model values, difficulties are      *)
(* natural numbers (128 bits in the code, which no real difficulty fills). *)
(***************************************************************************)
EXTENDS Naturals, FiniteSetsExt, SequencesExt

CONSTANTS
  Id,               \* sidechain ids
  NoShare,          \* the id no share has: the parent of the genesis share
  Address,          \* miner wallets
  ShareMap,         \* the share maps LoadAllShares can return
  MainchainDiff,    \* the difficulties the node can report
  Reward,           \* block rewards to split
  PPLNSWindow,      \* 2160 in the code
  UnclePenalty,     \* 20 (per cent)
  PositionBuckets   \* 30

Share == [miner : Address, difficulty : Nat, height : Nat,
          parent : Id \cup {NoShare}, uncles : Seq(Id)]

(***************************************************************************)
(* The side chain's own rules, which p2pool verifies before a share gets   *)
(* into the circular buffer: an id determines the share, a parent is one   *)
(* height below its child, and no branch has a share twice, be it as one of*)
(* its shares or as an uncle of one.  Any share may be missing from the    *)
(* buffer; how old an uncle may be is not assumed.                         *)
(***************************************************************************)
WellFormed(s) ==
  \A x \in DOMAIN s :
    /\ s[x] \in Share
    /\ s[x].parent \in DOMAIN s => s[x].height = s[s[x].parent].height + 1

Branch(s, c) ==
  \A x, y \in c :
    /\ s[x].height = s[y].height => x = y
    /\ s[x].height > s[y].height => s[x].parent \in c

Uncles(s, x) == DOMAIN s[x].uncles

OnceOnBranch(s) ==
  \A c \in SUBSET DOMAIN s : Branch(s, c) =>
    \A x \in c : \A i \in Uncles(s, x) :
      /\ s[x].uncles[i] \notin c
      /\ \A y \in c : \A j \in Uncles(s, y) :
           s[x].uncles[i] = s[y].uncles[j] => x = y /\ i = j

ASSUME WindowAssumption ==
  /\ NoShare \notin Id
  /\ IsFiniteSet(Address)   \* those of the shares of a map
  /\ \A s \in ShareMap : /\ DOMAIN s \subseteq Id /\ DOMAIN s # {}
                         /\ WellFormed(s) /\ OnceOnBranch(s)
  /\ MainchainDiff \subseteq Nat
  /\ Reward \subseteq Nat
  /\ PPLNSWindow \in Nat \ {0}
  /\ UnclePenalty \in 0..100
  /\ PositionBuckets \in Nat \ {0}

VARIABLES
  shares,          \* the share map
  maxWeight,
  tip,
  cur,             \* the share the walk is at
  u,               \* the next uncle of cur
  curWeight,
  pplnsWeight,
  blockDepth,
  weight,          \* result.Shares[m].Weight, 0 when m has no entry
  sharePositions,  \* result.Shares[m].sharePositions
  unclePositions,
  counted,         \* history: the shares and uncles added to the result
  pc               \* "walk", or "done" when the loop has been left

input  == <<shares, maxWeight, tip>>
result == <<weight, sharePositions, unclePositions, counted>>
vars   == <<input, cur, u, curWeight, pplnsWeight, blockDepth, result, pc>>

TypeOK ==
  /\ WellFormed(shares)
  /\ maxWeight \in Nat
  /\ tip \in DOMAIN shares
  /\ cur \in DOMAIN shares
  /\ u \in Nat \ {0}
  /\ curWeight \in Nat
  /\ pplnsWeight \in Nat
  /\ blockDepth \in Nat
  /\ weight \in [Address -> Nat]
  /\ sharePositions \in [Address -> Seq(Nat)]
  /\ unclePositions \in [Address -> Seq(Nat)]
  /\ counted \subseteq DOMAIN shares
  /\ pc \in {"walk", "done"}

(* findTip: a highest share, the first one that the map iteration meets.   *)
Tips(s) == {x \in DOMAIN s : \A y \in DOMAIN s : s[y].height <= s[x].height}

Init ==
  /\ shares \in ShareMap
  /\ tip \in Tips(shares)
  /\ \E d \in MainchainDiff : maxWeight = 2 * d
  /\ cur = tip
  /\ u = 1
  /\ curWeight = shares[tip].difficulty
  /\ pplnsWeight = 0
  /\ blockDepth = 0
  /\ weight = [m \in Address |-> 0]
  /\ sharePositions = [m \in Address |-> << >>]
  /\ unclePositions = [m \in Address |-> << >>]
  /\ counted = {}
  /\ pc = "walk"

-----------------------------------------------------------------------------
(* Mutation: the penalty is added to the difficulty it is taken from.      *)
PenaltyMarkup(x) == (shares[x].difficulty * (100 + UnclePenalty)) \div 100

Penalty(x) == (shares[x].difficulty * UnclePenalty) \div 100

(* Mutation: an uncle keeps its full difficulty beside the bonus.          *)
UncleWeightFull(x) == shares[x].difficulty

UncleWeight(x) == shares[x].difficulty - Penalty(x)

(* Mutation: an uncle exactly as old as the window is long is accepted.    *)
OutOfWindowLate(x) == shares[tip].height - shares[x].height > PPLNSWindow

(* A uint64 subtraction: an uncle above the tip is far out of the window.  *)
OutOfWindow(x) ==
  \/ shares[x].height > shares[tip].height
  \/ shares[tip].height - shares[x].height >= PPLNSWindow

(* Mutation: the limit is compared before the uncle is added.              *)
OverLimitBefore(x) == pplnsWeight > maxWeight

OverLimit(x) == pplnsWeight + UncleWeight(x) > maxWeight

Uncle == shares[cur].uncles[u]
AtUncle == pc = "walk" /\ u <= Len(shares[cur].uncles)

(* An uncle that is not in the map, too old, or too heavy is skipped.      *)
Eligible(x) == x \in DOMAIN shares /\ ~OutOfWindow(x) /\ ~OverLimit(x)

SkipUncle ==
  /\ AtUncle
  /\ ~Eligible(Uncle)
  /\ u' = u + 1
  /\ UNCHANGED <<input, cur, curWeight, pplnsWeight, blockDepth, result, pc>>

(* The uncle's miner gets its weight, the share that lists it the penalty. *)
IncludeUncle ==
  /\ AtUncle
  /\ Eligible(Uncle)
  /\ curWeight' = curWeight + Penalty(Uncle)
  /\ LET m == shares[Uncle].miner IN
       /\ weight' = [weight EXCEPT ![m] = @ + UncleWeight(Uncle)]
       /\ unclePositions' = [unclePositions EXCEPT ![m] = Append(@, blockDepth)]
  /\ pplnsWeight' = pplnsWeight + UncleWeight(Uncle)
  /\ counted' = counted \cup {Uncle}
  /\ u' = u + 1
  /\ UNCHANGED <<input, cur, blockDepth, sharePositions, pc>>

(* Mutation: the walk goes one share beyond the window.                    *)
WalkEndsLate(w) ==
  \/ w > maxWeight
  \/ blockDepth >= PPLNSWindow
  \/ shares[cur].height = 0
  \/ shares[cur].parent \notin DOMAIN shares

(* The loop is left when the total w is over the limit (one share may go   *)
(* over it), the window is full, or there is no parent to go on with.      *)
WalkEnds(w) ==
  \/ w > maxWeight
  \/ blockDepth + 1 >= PPLNSWindow
  \/ shares[cur].height = 0
  \/ shares[cur].parent \notin DOMAIN shares

AddShare ==
  /\ pc = "walk"
  /\ u > Len(shares[cur].uncles)
  /\ LET m == shares[cur].miner IN
       /\ weight' = [weight EXCEPT ![m] = @ + curWeight]
       /\ sharePositions' = [sharePositions EXCEPT ![m] = Append(@, blockDepth)]
  /\ pplnsWeight' = pplnsWeight + curWeight
  /\ counted' = counted \cup {cur}
  /\ IF WalkEnds(pplnsWeight')
     THEN /\ pc' = "done"
          /\ UNCHANGED <<cur, u, curWeight, blockDepth>>
     ELSE /\ cur' = shares[cur].parent
          /\ u' = 1
          /\ curWeight' = shares[cur'].difficulty
          /\ blockDepth' = blockDepth + 1
          /\ pc' = "walk"
  /\ UNCHANGED <<input, unclePositions>>

Next == SkipUncle \/ IncludeUncle \/ AddShare

Spec == Init /\ [][Next]_vars

-----------------------------------------------------------------------------
(***************************************************************************)
(* What is derived from the result.                                        *)
(***************************************************************************)
(* The miners with an entry, and the number of shares of the walk.         *)
Miners == {m \in Address : sharePositions[m] # << >> \/ unclePositions[m] # << >>}
BlocksIncluded == blockDepth + 1

(* Mutation: the miners come in the order of the map.                      *)
TopMinersUnsorted == SetToSeqs(Miners)

(* TopMiners: heaviest first; miners of equal weight in any order.         *)
TopMiners ==
  {o \in SetToSeqs(Miners) :
     \A j, k \in DOMAIN o : j < k => weight[o[j]] >= weight[o[k]]}

Cumulative(o, k) == SumFunction([j \in 1..k |-> weight[o[j]]])

(* Mutation: every miner gets its own rounded-down part.                   *)
EstimatedPayoutFloor(o, reward) ==
  [k \in 1..Len(o) |-> (weight[o[k]] * reward) \div pplnsWeight]

(* EstimatedPayoutOrdered: what the k-th miner receives is the difference  *)
(* of two rounded-down cumulative values.                                  *)
EstimatedPayout(o, reward) ==
  [k \in 1..Len(o) |->
     (Cumulative(o, k) * reward) \div pplnsWeight
       - (Cumulative(o, k - 1) * reward) \div pplnsWeight]

(* Mutation: positions are scaled by the number of shares.                 *)
BucketByCount(depth) == (depth * PositionBuckets) \div BlocksIncluded

(* The bucket of a position: the tip in the first, the oldest in the last. *)
Bucket(depth) ==
  IF BlocksIncluded > 1
  THEN (depth * (PositionBuckets - 1)) \div (BlocksIncluded - 1) ELSE 0

InBucket(positions, b) ==
  Cardinality({k \in DOMAIN positions : Bucket(positions[k]) = b})

-----------------------------------------------------------------------------
(***************************************************************************)
(* Properties.                                                             *)
(***************************************************************************)
(* Every unit of difficulty of the shares and uncles that were counted is  *)
(* in exactly one miner's weight once the walk is over, penalties and      *)
(* bonuses included, and TotalWeight is the sum of the weights.            *)
WeightConserved ==
  pc = "done" =>
    /\ pplnsWeight = SumFunction(weight)
    /\ pplnsWeight = SumFunction([x \in counted |-> shares[x].difficulty])

(* Only the last share can take the total over twice the mainchain         *)
(* difficulty: without it the total is within the limit, whatever mix of   *)
(* uncles and bonuses came before.                                         *)
LimitKept ==
  IF pc = "done" THEN pplnsWeight - curWeight <= maxWeight
                 ELSE pplnsWeight <= maxWeight

(* No share or uncle as far below the tip as the window is long is counted,*)
(* and the shares of the walk are the unbroken run of heights that         *)
(* TipHeight and BottomHeight name.                                        *)
WindowIsRecent ==
  /\ \A x \in counted : shares[tip].height - shares[x].height < PPLNSWindow
  /\ shares[cur].height + blockDepth = shares[tip].height

ShownOf(m, b) ==
  InBucket(sharePositions[m], b) + InBucket(unclePositions[m], b)
ShownIn == [b \in 0..(PositionBuckets - 1) |->
              SumFunction([m \in Address |-> ShownOf(m, b)])]

(* The visualisation shows each share and uncle of the result once, and    *)
(* the oldest share of a longer window in its last bucket.                 *)
PositionsShown ==
  pc = "done" =>
    /\ SumFunction(ShownIn) = Cardinality(counted)
    /\ BlocksIncluded > 1 =>
         InBucket(sharePositions[shares[cur].miner], PositionBuckets - 1) > 0

(* The split of any reward distributes all of it, and gives each miner its *)
(* exact part of the window to less than one atomic unit ("exact           *)
(* distribution with dust going to last miner").                           *)
SplitExact ==
  pc = "done" /\ pplnsWeight > 0 =>
    \A o \in TopMiners, r \in Reward :
      LET p == EstimatedPayout(o, r) IN
        /\ SumFunction(p) = r
        /\ \A k \in DOMAIN p :
             /\ p[k] * pplnsWeight < (weight[o[k]] * r) + pplnsWeight
             /\ weight[o[k]] * r < (p[k] * pplnsWeight) + pplnsWeight

(* calculatePayouts sorts the coinbase outputs and hands them out along    *)
(* TopMiners.  The split is not sorted (the dust may make the lighter of   *)
(* two miners the better paid one), but sorting it moves no miner's amount *)
(* by more than one atomic unit, whichever way equal amounts are ordered.  *)
Sortings(p) ==
  {s \in Bijection(DOMAIN p, DOMAIN p) :
     \A j, k \in DOMAIN p : j < k => p[s[j]] >= p[s[k]]}

MatchedWithinDust ==
  pc = "done" /\ pplnsWeight > 0 =>
    \A o \in TopMiners, r \in Reward :
      LET p == EstimatedPayout(o, r)
      IN \A s \in Sortings(p) : \A k \in DOMAIN p :
           p[s[k]] <= p[k] + 1 /\ p[k] <= p[s[k]] + 1

=============================================================================
