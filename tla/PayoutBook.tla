----------------------------- MODULE PayoutBook -----------------------------
(***************************************************************************)
(* What the payout ledger promises, without the daemon: a book with one    *)
(* page per main-chain height.  A page is open until it is settled, it is  *)
(* settled whole, from one coinbase and along one order of the miners, and *)
(* a settled page never changes.  One save of the daemon may settle        *)
(* several pages at once.  The constants are those of PayoutLedger, with   *)
(* the assumptions made there.                                             *)
(***************************************************************************)
EXTENDS Naturals, Sequences

CONSTANTS Block, Height, HeightOf, Foreign, Miner, Order, Outputs

VARIABLE book

Open == {}

(* The entries of one settlement: who gets which output of which coinbase. *)
Settlement(b, c, o) ==
  {[miner |-> o[k], block |-> b, output |-> <<c, k>>] :
     k \in {k \in DOMAIN o : k <= Outputs[c]}}

Settlements(h) ==
  {Settlement(b, c, o) :
     b \in {b \in Block : HeightOf[b] = h},
     c \in {c \in Block : HeightOf[c] = h /\ Outputs[c] > 0}
             \cup (IF Outputs[Foreign] > 0 THEN {Foreign} ELSE {}),
     o \in Order}

Init == book = [h \in Height |-> Open]

(* Each page keeps what it has, or is settled from open.                   *)
Settle ==
  /\ book' = [h \in Height |-> book'[h]]
  /\ \A h \in Height :
       book'[h] # book[h] => book[h] = Open /\ book'[h] \in Settlements(h)

Spec == Init /\ [][Settle]_book

=============================================================================
