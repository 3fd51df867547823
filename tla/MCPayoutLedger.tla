--------------------------- MODULE MCPayoutLedger ---------------------------
(***************************************************************************)
(* Instances of PayoutLedger for TLC.  Block a and block b share a height  *)
(* (two shares of the pool that both solve the main-chain block), block c  *)
(* has a height of its own.                                                *)
(***************************************************************************)
EXTENDS PayoutLedger, TLC

CONSTANTS a, b, c, h1, h2, m1, m2

Heights == [x \in Block |-> IF x = c THEN h2 ELSE h1]

Orders     == {<<m1, m2>>, <<m2, m1>>}
OrdersVary == {<<m1>>, <<m2, m1>>}
OrderOne   == {<<m1>>}
OrderBoth  == {<<m1, m2>>}

OutputsTwo   == [x \in Block \cup {Foreign} |-> 2]
OutputsMixed == [x \in Block \cup {Foreign} |-> IF x = c THEN 1 ELSE 2]

(* Crash points.  Between the first payouts key and the processed heights  *)
(* of one save the pc is "save".                                           *)
OutsideSave == Point \ {"save"}
MidSave     == {"save", "snap"}
Idle        == {"idle"}
NoPoint     == {}

MinerSymmetry == Permutations({m1, m2})
=============================================================================
