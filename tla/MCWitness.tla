----------------------------- MODULE MCWitness -----------------------------
(***************************************************************************)
(* TLC instance of WitnessAuthority: a lease of three ticks, evidence that *)
(* ages out after two, and time for two full tenures.                      *)
(***************************************************************************)
EXTENDS WitnessAuthority
=============================================================================
