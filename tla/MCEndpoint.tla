----------------------------- MODULE MCEndpoint -----------------------------
(***************************************************************************)
(* TLC instance of SharedEndpoint: a lease of two ticks, a probe of one,   *)
(* and time for a grant, its expiry and the renewal that follows.          *)
(***************************************************************************)
EXTENDS SharedEndpoint
=============================================================================
