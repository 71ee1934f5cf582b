---------------------------- MODULE FailoverPair ----------------------------
(***************************************************************************)
(* The primary host, the backup host and the witness together.  The hosts  *)
(* share nothing but the witness and the clock: what PrimaryHost and       *)
(* BackupHost each call WitnessElsewhere is here what the other one does,  *)
(* and the operator's grants, revocations and the expiry job.              *)
(***************************************************************************)
EXTENDS PrimaryHost

CONSTANTS ControlMargin, WatchdogPeriod, WatchdogBoot   \* of BackupHost

ASSUME PairAssumption == /\ ControlMargin \in Nat
                         /\ WatchdogPeriod \in Nat \ {0}
                         /\ WatchdogBoot \in Nat

VARIABLES authority, marker, runtime, materialized, control, watchdog, watchdogDue,
          renewing, grantedUntil, backupGrace, rmFailed,
          backupFaults     \* the faults of BackupHost; those of the primary are `faults`

B == INSTANCE BackupHost WITH faults <- backupFaults

backupState == <<authority, marker, runtime, materialized, control, watchdog, watchdogDue,
                 renewing, backupGrace, rmFailed, backupFaults>>

pairVars == <<vars, backupState, grantedUntil>>

PairInit == Init /\ B!BackupInit

PrimaryActs == PrimaryStep /\ UNCHANGED backupState

BackupActs == B!BackupStep /\ UNCHANGED primaryVars

\* grant-backup and revoke-backup by the operator, expire-lease by a timer.
WitnessActs == /\ GrantBackup \/ RevokeBackup \/ ExpireLease
               /\ lease'.epoch <= MaxEpoch
               /\ UNCHANGED <<primaryVars, backupState>>

PairTick == /\ EnforcementPrompt
            /\ B!WatchdogPrompt
            /\ Tick
            /\ UNCHANGED <<primaryVars, backupState>>

PairNext == /\ PrimaryActs \/ BackupActs \/ WitnessActs \/ PairTick
            /\ TrackHolding
            /\ B!TrackGrants

PairSpec == PairInit /\ [][PairNext]_pairVars

-----------------------------------------------------------------------------
(* Epochs as fencing tokens.                                               *)

\* The epochs of the leases the primary has on file or in a reply.
PrimaryTokens == {l.epoch : l \in {k \in {cache, renewal.reply} : k.holder = Primary}}

\* The epochs in the backup's marker and in the reply its command acts on.
BackupTokens == ({marker} \ {0}) \cup
                {l.epoch : l \in {k \in {control.reply} : k.holder = Backup}}

\* No epoch is ever in the hands of both hosts, however old their files and
\* replies are: whoever compares epochs knows whose authority came later
\* (renew_holder; lease-renew's cache, activate_runtime's witness_epoch).
TokensDistinct == PrimaryTokens \cap BackupTokens = {}

\* Both hosts are active, and nothing that would end it is under way.
BothActive == /\ ~fenced /\ FenceFree
              /\ marker # 0 /\ B!ControlFree /\ watchdog = B!NoWatch

\* The overlap is bounded from both ends: time does not pass over two active
\* hosts once a lease and an enforcement period went by since the witness last
\* named the primary, nor once a watchdog period went by since the backup's last
\* lease would have run out, revoked or not (its watchdog may judge by a status
\* sent before); a host that has just booted has until its timer starts.
OverlapBound ==
  [][now' > now /\ BothActive =>
       /\ now' < heldUntil + LEASE_TTL + EnforcePeriod \/ now' <= bootGrace
       /\ now' < grantedUntil + WatchdogPeriod \/ now' <= backupGrace]_pairVars
=============================================================================
