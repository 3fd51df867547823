---------------------------- MODULE MCPPLNSWindow ----------------------------
(* Small instances of PPLNSWords: a side chain of four shares s0..s3, two   *)
(* uncles at the heights of s0 and s1, and a second share t at the height of *)
(* s3, so that a map may have two highest shares.                            *)
EXTENDS PPLNSWords, TLC

CONSTANTS s0, s1, s2, s3, t, u0, u1, none, m1, m2, m3

Parents == s0 :> none @@ s1 :> s0 @@ s2 :> s1 @@ s3 :> s2 @@ t :> s2
             @@ u0 :> none @@ u1 :> s0

Depth == s0 :> 0 @@ s1 :> 1 @@ s2 :> 2 @@ s3 :> 3 @@ t :> 3 @@ u0 :> 0 @@ u1 :> 1

MinerOf == s0 :> m3 @@ s1 :> m2 @@ s2 :> m1 @@ s3 :> m1 @@ t :> m2
             @@ u0 :> m1 @@ u1 :> m2

(* The shares that list u0 and u1: one each, at most three heights above.    *)
Lists == {<<x, y>> : x \in {s1, s3}, y \in {s2, s3}}

UnclesOf(l, x) == (IF l[1] = x THEN <<u0>> ELSE << >>)
                    \o (IF l[2] = x THEN <<u1>> ELSE << >>)

(* Difficulties of the main shares and of the uncles: part of the penalty is *)
(* rounded away, and two or three shares fill a word.                        *)
Hard == {101, 143}

Loaded(lost) == DOMAIN Parents \ lost

Lost == {{}, {t}, {s1, t}, {u0}, {u1, t}, {s3, t}}

ShareMaps ==
  {[x \in Loaded(lost) |->
      [miner |-> MinerOf[x], height |-> base + Depth[x], parent |-> Parents[x],
       difficulty |-> IF x \in {u0, u1} THEN du ELSE d[Depth[x]],
       uncles |-> UnclesOf(l, x)]]
     : lost \in Lost, base \in {0, 9}, l \in Lists,
       d \in [0..3 -> Hard], du \in {83, 147}}

(* Clocks that agree with the heights, one at which the shares of a height   *)
(* differ, one that stands still and one with a tip behind its ancestors.    *)
Clocks == {[x \in Id |-> 10 * Depth[x]],
           [x \in Id |-> 20 * Depth[x] + (IF x \in {t, u0, u1} THEN 9 ELSE 0)],
           [x \in Id |-> 7],
           [x \in Id |-> IF x = s3 THEN 3 ELSE 10 * Depth[x]]}
=============================================================================
