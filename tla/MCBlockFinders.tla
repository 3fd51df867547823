---------------------------- MODULE MCBlockFinders ----------------------------
(* A small instance of BlockFinders: shares of two miners at one height and *)
(* one of a third miner at the next, all of which solve their block.  The  *)
(* buffer holds two shares.  A block is found one second after the time in *)
(* its share.                                                              *)
EXTENDS BlockFinders, TLC

CONSTANTS s1, s2, s3, p, q, r, h1, h2

Mined    == <<s1, s2, s3>>
Owners   == s1 :> p @@ s2 :> q @@ s3 :> r
Heights  == s1 :> h1 @@ s2 :> h1 @@ s3 :> h2
Times    == s1 :> 1 @@ s2 :> 3 @@ s3 :> 4
Reported == [b \in Solves |-> Times[b] + 1]
=============================================================================
