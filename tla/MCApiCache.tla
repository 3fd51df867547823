------------------------------ MODULE MCApiCache ------------------------------
(* Small instances of ApiCache: a response of a required and an optional key,*)
(* as handleFoundBlockDetails makes it, and two requests that may overlap.   *)
EXTENDS ApiCache, TLC

CONSTANTS p, q, found, payouts

FoundThenPayouts == <<found, payouts>>

=============================================================================
