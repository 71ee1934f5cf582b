-------------------------- MODULE WitnessAuthority --------------------------
(***************************************************************************)
(* The witness (src/watch/recovery/spot-witness-authority.sh): the file    *)
(* authority-lease.json and the commands that change it.  Every command    *)
(* holds an exclusive flock from its first line to its exit and replaces   *)
(* the file with one rename, so a command is one step.                     *)
(***************************************************************************)
EXTENDS Naturals

CONSTANTS Primary, Backup, None,
          LEASE_TTL,         \* 45 s in the code
          MAX_OBSERVER_AGE,  \* 45 s in the code
          MaxTime,           \* bound of the clock
          MaxEpoch           \* bound of the epochs handed out

Hosts == {Primary, Backup}

ASSUME WitnessAssumption ==
  /\ Primary # Backup
  /\ None \notin Hosts
  /\ LEASE_TTL \in Nat \ {0}
  /\ MAX_OBSERVER_AGE \in Nat
  /\ MaxTime \in Nat
  /\ MaxEpoch \in Nat

VARIABLES now,       \* the clock (date +%s)
          lease,     \* authority-lease.json: holder, epoch, expires_epoch
          observer   \* status.json of the witness's observer

witnessVars == <<lease, observer>>

LeaseRecord == [holder : Hosts \cup {None}, epoch : Nat, expires : Nat]

\* status.json: when it was written, and whether it is takeover evidence
\* (primary.api false, backup.reachable true, takeover_candidate true).
Observation == [at : Nat, evidence : BOOLEAN]

\* Types; and the file has an expiry exactly when it names a holder.
WitnessTypeOK == /\ now \in Nat
                 /\ lease \in LeaseRecord
                 /\ lease.holder = None <=> lease.expires = 0
                 /\ observer \in Observation

NoLease(e) == [holder |-> None, epoch |-> e, expires |-> 0]

WitnessInit == /\ now = 1
               /\ lease = NoLease(1)
               /\ observer \in [at : {1}, evidence : BOOLEAN]

\* show_status: what lease_valid and command_authority say of a lease.
Live(l) == l.holder # None /\ l.expires > now

HeldBy(h) == lease.holder = h /\ Live(lease)

\* Mutant: renew_holder with the epoch left alone when the holder changes.
RenewHolderKeepsEpoch(h) ==
  lease' = [holder |-> h, epoch |-> lease.epoch, expires |-> now + LEASE_TTL]

RenewHolder(h) ==
  lease' = [holder  |-> h,
            epoch   |-> IF lease.holder = h THEN lease.epoch ELSE lease.epoch + 1,
            expires |-> now + LEASE_TTL]

RenewPrimary == /\ ~ HeldBy(Backup)
                /\ RenewHolder(Primary)
                /\ UNCHANGED <<now, observer>>

\* validate_backup_grant runs as the condition of an `if !`, where bash
\* ignores errexit: only its last test, the age of the observation, decides.
GrantAllowed == now - observer.at <= MAX_OBSERVER_AGE

GrantBackup == /\ GrantAllowed
               /\ RenewHolder(Backup)
               /\ UNCHANGED <<now, observer>>

RenewBackup == /\ HeldBy(Backup)
               /\ RenewHolder(Backup)
               /\ UNCHANGED <<now, observer>>

\* Mutant: revoke_backup clears the holder and forgets the expiry.
RevokeKeepsExpiry == /\ lease.holder # Primary
                     /\ lease' = [lease EXCEPT !.holder = None]
                     /\ UNCHANGED <<now, observer>>

RevokeBackup == /\ lease.holder # Primary
                /\ lease' = NoLease(IF lease.holder = Backup THEN lease.epoch + 1
                                                             ELSE lease.epoch)
                /\ UNCHANGED <<now, observer>>

ExpireLease == /\ lease.holder # None
               /\ lease.expires # 0
               /\ lease.expires <= now
               /\ lease' = NoLease(lease.epoch + 1)
               /\ UNCHANGED <<now, observer>>

\* The observer rewrites status.json; it is not in the repository.
Observe == /\ \E e \in BOOLEAN : observer' = [at |-> now, evidence |-> e]
           /\ UNCHANGED <<now, lease>>

Tick == /\ now < MaxTime
        /\ now' = now + 1
        /\ UNCHANGED witnessVars

WitnessCommand == \/ RenewPrimary \/ GrantBackup \/ RenewBackup
                  \/ RevokeBackup \/ ExpireLease

WitnessNext == \/ WitnessCommand /\ lease'.epoch <= MaxEpoch
               \/ Observe
               \/ Tick

WitnessSpec == WitnessInit /\ [][WitnessNext]_<<now, witnessVars>>

-----------------------------------------------------------------------------
\* The witness keeps the promise of AuthorityTenure (renew_holder,
\* renew_primary, revoke_backup, expire_lease): an epoch names one holder,
\* and the primary never displaces a backup whose lease is live.
Tenure == INSTANCE AuthorityTenure
            WITH holder <- lease.holder, epoch <- lease.epoch, live <- Live(lease)

WitnessKeepsTenures == Tenure!Spec

\* A grant that takes authority to the backup rests on takeover evidence
\* (validate_backup_grant, "fresh independent takeover evidence").
GrantNeedsEvidence ==
  [][lease.holder # Backup /\ lease'.holder = Backup => observer.evidence]_<<now, witnessVars>>
=============================================================================
