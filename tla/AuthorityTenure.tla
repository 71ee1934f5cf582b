-------------------------- MODULE AuthorityTenure --------------------------
(***************************************************************************)
(* What the failover witness promises to the two Spot Core hosts, with no  *)
(* clock and no files: authority is a sequence of numbered tenures.  A     *)
(* tenure belongs to one holder, it is live until its lease runs out, a    *)
(* lapsed tenure may be revived by its own holder, and every change of     *)
(* holder opens a tenure with a new number.                                *)
(***************************************************************************)
EXTENDS Naturals

CONSTANTS Primary,  \* "spot-core"
          Backup,   \* "spot-core-backup"
          None      \* "none": nobody holds authority

VARIABLES holder,   \* the holder of the current tenure
          epoch,    \* its number
          live      \* its lease has not run out

vars == <<holder, epoch, live>>

Init == /\ holder = None
        /\ epoch = 1
        /\ live = FALSE

\* The current holder renews, in time or late: its tenure goes on.
Extend == /\ holder # None
          /\ live' = TRUE
          /\ UNCHANGED <<holder, epoch>>

\* Another host takes authority.  The primary may not take it from a backup
\* whose tenure is live; the operator may give the backup authority at any
\* time.
Begin(h) == /\ holder # h
            /\ ~ (h = Primary /\ holder = Backup /\ live)
            /\ holder' = h
            /\ epoch' = epoch + 1
            /\ live' = TRUE

Lapse == /\ live
         /\ live' = FALSE
         /\ UNCHANGED <<holder, epoch>>

\* Authority is withdrawn: from anybody once the tenure lapsed, and from the
\* backup at any time.
End == /\ holder # None
       /\ holder = Backup \/ ~live
       /\ holder' = None
       /\ epoch' = epoch + 1
       /\ live' = FALSE

Next == \/ Extend
        \/ \E h \in {Primary, Backup} : Begin(h)
        \/ Lapse
        \/ End

Spec == Init /\ [][Next]_vars
=============================================================================
