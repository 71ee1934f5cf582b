------------------------------- MODULE MCPair -------------------------------
(***************************************************************************)
(* TLC instance of FailoverPair, without the fence commands of the         *)
(* operator and the guard timer, whose many steps change no lease, and     *)
(* without renewals gone astray, which MCPrimary has.                      *)
(***************************************************************************)
EXTENDS FailoverPair

MCPairSpec ==
  PairInit /\ [][PairNext /\ fence'.by \notin {"operator", "guard"} /\ ~stray']_pairVars
=============================================================================
