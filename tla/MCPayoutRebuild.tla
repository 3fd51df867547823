--------------------------- MODULE MCPayoutRebuild --------------------------
(***************************************************************************)
(* Instances of PayoutRebuild for TLC, over the constants of the instances *)
(* of PayoutLedger.                                                        *)
(***************************************************************************)
EXTENDS PayoutRebuild, MCPayoutLedger
=============================================================================
