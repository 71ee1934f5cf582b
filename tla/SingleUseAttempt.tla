-------------------------- MODULE SingleUseAttempt --------------------------
(***************************************************************************)
(* What a transaction under a single-use authorization promises, with no   *)
(* files, locks or steps: every transaction is attempted at most once, and *)
(* the system is changed inside an attempt only.  An attempt is over when  *)
(* its run and everything the run started are.  The installation of K21D   *)
(* also promises one at a time (Alone = TRUE); its storage does not.       *)
(***************************************************************************)
CONSTANTS Transactions, Alone

VARIABLES phase,   \* of every transaction's only attempt
          world    \* what an attempt may change

vars == <<phase, world>>

Init == phase = [t \in Transactions |-> "unused"]

Open == {t \in Transactions : phase[t] = "open"}

Begin(t) == /\ Alone => Open = {}
            /\ phase[t] = "unused"
            /\ phase' = [phase EXCEPT ![t] = "open"]
            /\ UNCHANGED world

\* Any change of the world, as long as somebody's attempt is open; with it
\* some attempts may be over, with or without a receipt, and stay over.
Change(over) ==
  /\ Open # {}
  /\ phase' = [t \in Transactions |-> IF t \in over THEN "closed" ELSE phase[t]]

Next == \/ \E t \in Transactions : Begin(t)
        \/ \E over \in SUBSET Open : Change(over)

Spec == Init /\ [][Next]_vars
=============================================================================
