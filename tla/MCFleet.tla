------------------------------ MODULE MCFleet ------------------------------
(* FleetQuarantine on two workers, one of which the watch does not list. *)
EXTENDS FleetQuarantine

CONSTANTS w1, w2

MCWorkers == {w1, w2}
MCListed  == {w1}
=============================================================================
