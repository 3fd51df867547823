----------------------------- MODULE MCSalviumRpc -----------------------------
(* Small instances of SalviumRpc: three endpoints, two of which are on one   *)
(* fork.                                                                     *)
EXTENDS SalviumRpc, TLC

Forks == 0 :> 7 @@ 1 :> 7 @@ 2 :> 8

=============================================================================
