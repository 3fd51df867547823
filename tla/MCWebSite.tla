------------------------------- MODULE MCWebSite -------------------------------
(* A small instance of WebSite: two requests that may overlap, one of which  *)
(* may be for a page with a stream of two payouts.                           *)
EXTENDS WebSite, TLC

CONSTANTS p, q

=============================================================================
