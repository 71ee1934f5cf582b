------------------------------ MODULE MCApply ------------------------------
(* ApplyQueue with two processes and two plans, one of which is rolled back. *)
EXTENDS ApplyQueue

CONSTANTS x1, x2

MCPlans      == {x1, x2}
MCUnverified == {x2}
=============================================================================
