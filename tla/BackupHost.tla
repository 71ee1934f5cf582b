----------------------------- MODULE BackupHost -----------------------------
(***************************************************************************)
(* The backup host spot-core-backup and the witness it leases authority    *)
(* from: spot-backup-control.sh (activate, deactivate and rollback exclude *)
(* each other with one flock), spot-backup-lease-enforce.sh (here: the     *)
(* watchdog, 5 s after its last pass), spot-backup-lease-renew.sh (10 s)   *)
(* and spot-failover-materialize.sh.  One tick is five seconds.            *)
(***************************************************************************)
EXTENDS WitnessAuthority

CONSTANTS ControlMargin,    \* 10 s: lease time an activation must still have
          WatchdogPeriod,   \* 5 s: OnUnitInactiveSec
          WatchdogBoot,     \* 10 s: OnBootSec
          MaxFaults         \* bound: power losses

ASSUME BackupAssumption == /\ ControlMargin \in Nat
                           /\ WatchdogPeriod \in Nat \ {0}
                           /\ WatchdogBoot \in Nat
                           /\ MaxFaults \in Nat

VARIABLES authority,     \* /etc/spot-failover/authority-state
          marker,        \* failover-active/activated and its witness_epoch; 0: absent
          runtime,       \* what exists of the runtime
          materialized,  \* a materialized release the control script accepts
          control,       \* the command that holds the control lock
          watchdog,      \* the enforcement pass
          watchdogDue,   \* when the next one starts; 0: one runs
          renewing,      \* the renew timer's command has seen the marker
          grantedUntil,  \* aux: to when the backup's last lease ran, revoked or not
          backupGrace,   \* aux: the watchdog starts no later than this after a boot
          rmFailed,      \* aux: a docker rm has failed
          faults

files       == <<authority, marker, runtime, materialized>>
watchVars   == <<watchdog, watchdogDue>>
backupVars  == <<files, control, watchVars, renewing, backupGrace, rmFailed, faults>>
vars        == <<now, witnessVars, backupVars, grantedUntil>>

Services == {"mcp", "bridge"}
Runtime  == Services \cup {"container"}

\* state, authority_holder: standby of spot-core (commissioning), standby of
\* none (write_authority_state in return_passive), active of spot-core-backup.
AuthorityStates == {"standby_spot_core", "standby_none", "active"}

ActivateSteps == {"renew", "authorize", "mark", "container", "health", "reconfirm",
                  "mcp", "bridge", "confirm"}
PassiveSteps  == {"stop", "remove", "unmark", "unauthorize"}

NoControl == [by |-> "nobody", step |-> "done", reply |-> NoLease(0)]
ControlRuns == [by : {"operator", "watchdog"}, step : ActivateSteps \cup PassiveSteps,
                reply : LeaseRecord] \cup {NoControl}

\* A pass: what it saw of the runtime, and the status the witness sent it.
Watching == [step : {"idle", "looked", "asking", "rollback"}, seen : SUBSET Runtime,
             reply : LeaseRecord]
NoWatch  == [step |-> "idle", seen |-> {}, reply |-> NoLease(0)]

BackupTypeOK ==
  /\ authority \in AuthorityStates
  /\ marker \in Nat
  /\ runtime \subseteq Runtime
  /\ materialized \in BOOLEAN
  /\ control \in ControlRuns
  /\ control.by = "watchdog" => control.step \in PassiveSteps /\ watchdog.step = "rollback"
  /\ watchdog \in Watching
  /\ watchdogDue \in Nat
  /\ renewing \in BOOLEAN
  /\ grantedUntil \in Nat
  /\ backupGrace \in Nat
  /\ rmFailed \in BOOLEAN
  /\ faults \in Nat

BackupInit ==
  /\ authority = "standby_spot_core"
  /\ marker = 0
  /\ runtime = {}
  /\ materialized = FALSE
  /\ control = NoControl
  /\ watchdog = NoWatch
  /\ watchdogDue = now + WatchdogBoot
  /\ renewing = FALSE
  /\ grantedUntil = 0
  /\ backupGrace = now + WatchdogBoot
  /\ rmFailed = FALSE
  /\ faults = 0

Activated   == marker # 0
ControlFree == control = NoControl

-----------------------------------------------------------------------------
\* materialize: a new release is projected, on a standby of spot-core only.
Materialize ==
  /\ authority = "standby_spot_core"
  /\ ~Activated
  /\ materialized' = TRUE
  /\ UNCHANGED <<now, witnessVars, authority, marker, runtime, control, watchVars,
                 renewing, backupGrace, rmFailed, faults>>

-----------------------------------------------------------------------------
(* activate OPERATOR-CONFIRMED.                                            *)

\* validate_materialization, then renew-backup is sent to the witness.
ActivateStarts ==
  /\ ControlFree
  /\ materialized
  /\ ~Activated
  /\ runtime = {}
  /\ control' = [by |-> "operator", step |-> "renew", reply |-> NoLease(0)]
  /\ UNCHANGED <<now, witnessVars, files, watchVars, renewing, backupGrace, rmFailed, faults>>

Asking   == control.step \in {"renew", "reconfirm"}
Answered == control.reply # NoLease(0)

WitnessAnswersControl ==
  /\ Asking
  /\ ~Answered
  /\ RenewBackup
  /\ control' = [control EXCEPT !.reply = lease']
  /\ UNCHANGED <<files, watchVars, renewing, backupGrace, rmFailed, faults>>

\* validate_backup_lease
LeaseAccepted == control.reply.holder = Backup /\ control.reply.expires > now + ControlMargin

LeaseConfirmed ==
  /\ Asking
  /\ LeaseAccepted
  /\ control' = [control EXCEPT !.step = IF @ = "renew" THEN "authorize" ELSE "mcp"]
  /\ UNCHANGED <<now, witnessVars, files, watchVars, renewing, backupGrace, rmFailed, faults>>

\* The first request fails or its reply is rejected: nothing was changed.
ActivationDenied ==
  /\ control.step = "renew"
  /\ Answered => ~LeaseAccepted
  /\ control' = NoControl
  /\ UNCHANGED <<now, witnessVars, files, watchVars, renewing, backupGrace, rmFailed, faults>>

\* A command inside a function fails under errexit, and a function does not
\* inherit the ERR trap that would roll back: the second reply is rejected
\* (validate_backup_lease), or the authority file or the marker is not written.
ActivationAbandoned ==
  /\ \/ control.step \in {"authorize", "mark"}
     \/ control.step = "reconfirm" /\ Answered /\ ~LeaseAccepted
  /\ control' = NoControl
  /\ UNCHANGED <<now, witnessVars, files, watchVars, renewing, backupGrace, rmFailed, faults>>

\* A step of the activation succeeds.
Advance(step, next) ==
  /\ control.step = step
  /\ control' = next
  /\ UNCHANGED <<now, witnessVars, materialized, watchVars, renewing, backupGrace, rmFailed, faults>>

Authorize == /\ Advance("authorize", [control EXCEPT !.step = "mark"])
             /\ authority' = "active"
             /\ UNCHANGED <<marker, runtime>>

CreateMarker == /\ Advance("mark", [control EXCEPT !.step = "container"])
                /\ marker' = control.reply.epoch
                /\ UNCHANGED <<authority, runtime>>

ComposeUp == /\ Advance("container", [control EXCEPT !.step = "health"])
             /\ runtime' = runtime \cup {"container"}
             /\ UNCHANGED <<authority, marker>>

HealthAnswers == /\ Advance("health", [control EXCEPT !.step = "reconfirm", !.reply = NoLease(0)])
                 /\ UNCHANGED <<authority, marker, runtime>>

StartMcp == /\ Advance("mcp", [control EXCEPT !.step = "bridge"])
            /\ runtime' = runtime \cup {"mcp"}
            /\ UNCHANGED <<authority, marker>>

StartBridge == /\ Advance("bridge", [control EXCEPT !.step = "confirm"])
               /\ runtime' = runtime \cup {"bridge"}
               /\ UNCHANGED <<authority, marker>>

ActivationReady == /\ Advance("confirm", NoControl)
                   /\ UNCHANGED <<authority, marker, runtime>>

\* Mutant: the ERR trap takes the authority back and leaves the runtime up.
FailureKeepsRuntime ==
  /\ control.step \in {"container", "health", "mcp", "bridge", "confirm"}
  /\ control' = [control EXCEPT !.step = "unmark", !.reply = NoLease(0)]
  /\ UNCHANGED <<now, witnessVars, files, watchVars, renewing, backupGrace, rmFailed, faults>>

\* The ERR trap: a command of activate_runtime itself fails, compose up perhaps
\* after it created the container.
ActivationFails ==
  /\ \/ control.step \in {"container", "health", "mcp", "bridge", "confirm"}
     \/ control.step = "reconfirm" /\ ~Answered
  /\ control' = [control EXCEPT !.step = "stop", !.reply = NoLease(0)]
  /\ \E left \in SUBSET (IF control.step = "container" THEN {"container"} ELSE {}) :
       runtime' = runtime \cup left
  /\ UNCHANGED <<now, witnessVars, authority, marker, materialized, watchVars, renewing,
                 backupGrace, rmFailed, faults>>

-----------------------------------------------------------------------------
(* return_passive, for deactivate, rollback and the ERR trap.              *)

Deactivate ==
  /\ ControlFree
  /\ control' = [by |-> "operator", step |-> "stop", reply |-> NoLease(0)]
  /\ UNCHANGED <<now, witnessVars, files, watchVars, renewing, backupGrace, rmFailed, faults>>

StopServices ==
  /\ control.step = "stop"
  /\ runtime' = runtime \ Services
  /\ control' = [control EXCEPT !.step = "remove"]
  /\ UNCHANGED <<now, witnessVars, authority, marker, materialized, watchVars, renewing,
                 backupGrace, rmFailed, faults>>

\* docker rm -f, allowed to fail
RemoveContainer ==
  /\ control.step = "remove"
  /\ \/ /\ runtime' = runtime \ {"container"}
        /\ UNCHANGED rmFailed
     \/ /\ "container" \in runtime
        /\ rmFailed' = TRUE
        /\ UNCHANGED runtime
  /\ control' = [control EXCEPT !.step = "unmark"]
  /\ UNCHANGED <<now, witnessVars, authority, marker, materialized, watchVars, renewing,
                 backupGrace, faults>>

\* Mutant: remove_runtime leaves the marker.
RemoveKeepsMarker ==
  /\ control.step = "unmark"
  /\ control' = [control EXCEPT !.step = "unauthorize"]
  /\ UNCHANGED <<now, witnessVars, files, watchVars, renewing, backupGrace, rmFailed, faults>>

RemoveMarker ==
  /\ control.step = "unmark"
  /\ marker' = 0
  /\ control' = [control EXCEPT !.step = "unauthorize"]
  /\ UNCHANGED <<now, witnessVars, authority, runtime, materialized, watchVars, renewing,
                 backupGrace, rmFailed, faults>>

\* The watchdog's own pass ends here, and its timer starts counting.
Unauthorize ==
  /\ control.step = "unauthorize"
  /\ authority' = "standby_none"
  /\ control' = NoControl
  /\ IF control.by = "watchdog"
       THEN watchdog' = NoWatch /\ watchdogDue' = now + WatchdogPeriod
       ELSE UNCHANGED watchVars
  /\ UNCHANGED <<now, witnessVars, marker, runtime, materialized, renewing, backupGrace, rmFailed, faults>>

-----------------------------------------------------------------------------
(* lease-enforce and lease-renew.                                          *)

\* The pass goes on, or it ends and the timer counts from here.
WatchdogGoesOn(next) ==
  /\ watchdog' = next
  /\ watchdogDue' = IF next = NoWatch THEN now + WatchdogPeriod ELSE 0
  /\ UNCHANGED <<now, witnessVars, files, control, renewing, backupGrace, rmFailed, faults>>

\* The pass looks at the runtime,
WatchdogLooks ==
  /\ watchdog = NoWatch
  /\ WatchdogGoesOn([NoWatch EXCEPT !.step = "looked", !.seen = runtime])

\* then at the marker.  With the marker it asks the witness; without it any
\* runtime at all is rolled back, and with none the pass ends.
WatchdogReadsMarker ==
  /\ watchdog.step = "looked"
  /\ IF Activated THEN WatchdogGoesOn([watchdog EXCEPT !.step = "asking"])
     ELSE IF watchdog.seen # {} THEN WatchdogGoesOn([NoWatch EXCEPT !.step = "rollback"])
     ELSE WatchdogGoesOn(NoWatch)

\* lease-renew --status-only.  A status that names no live lease of the backup is
\* rejected like an ssh call that fails, so it is left out here.
WitnessAnswersWatchdog ==
  /\ watchdog.step = "asking"
  /\ watchdog.reply = NoLease(0)
  /\ HeldBy(Backup)
  /\ WatchdogGoesOn([watchdog EXCEPT !.reply = lease])

\* The end of a pass that asked.
Judged(lease_valid, rest_valid) ==
  /\ watchdog.step = "asking"
  /\ WatchdogGoesOn(IF lease_valid /\ rest_valid THEN NoWatch
                    ELSE [NoWatch EXCEPT !.step = "rollback"])

\* The status had lease_valid when it was sent, and has not run out since.
StatusValid == watchdog.reply.holder = Backup /\ watchdog.reply.expires > now

\* Mutants: the pass does not look at the lease; at the runtime; at the age of
\* the status.
JudgesRuntimeOnly == Judged(TRUE, authority = "active" /\ watchdog.seen = Runtime)

JudgesLeaseOnly   == Judged(StatusValid, authority = "active")

JudgesStaleStatus == Judged(watchdog.reply.holder = Backup,
                            authority = "active" /\ watchdog.seen = Runtime)

\* The status arrives, at any time after it was sent: the ssh call has a connect
\* timeout only.  Or the call fails.  The authority file is read now; the runtime
\* was looked at before.
WatchdogJudges ==
  \E arrived \in BOOLEAN :
    Judged(arrived /\ StatusValid, authority = "active" /\ watchdog.seen = Runtime)

\* It calls the control script, which waits for the control lock.
WatchdogRollsBack ==
  /\ watchdog.step = "rollback"
  /\ ControlFree
  /\ control' = [by |-> "watchdog", step |-> "stop", reply |-> NoLease(0)]
  /\ UNCHANGED <<now, witnessVars, files, watchVars, renewing, backupGrace, rmFailed, faults>>

RenewTimerFires ==
  /\ Activated
  /\ ~renewing
  /\ renewing' = TRUE
  /\ UNCHANGED <<now, witnessVars, files, control, watchVars, backupGrace, rmFailed, faults>>

\* The renewal reaches the witness, whatever became of the marker, or it is lost.
RenewalReachesWitness ==
  /\ renewing
  /\ RenewBackup
  /\ renewing' = FALSE
  /\ UNCHANGED <<files, control, watchVars, backupGrace, rmFailed, faults>>

RenewalLost ==
  /\ renewing
  /\ renewing' = FALSE
  /\ UNCHANGED <<now, witnessVars, files, control, watchVars, backupGrace, rmFailed, faults>>

-----------------------------------------------------------------------------
\* Mutant: a lock that survives the power loss, as a pid file would.
PowerLossKeepsLock ==
  /\ faults < MaxFaults
  /\ faults' = faults + 1
  /\ runtime' = runtime \ Services
  /\ watchdog' = NoWatch
  /\ watchdogDue' = now + WatchdogBoot
  /\ backupGrace' = now + WatchdogBoot
  /\ renewing' = FALSE
  /\ UNCHANGED <<now, witnessVars, authority, marker, materialized, control, rmFailed>>

\* Power loss: commands and locks are gone, files and containers stay, and the
\* enabled service units start if their conditions on marker and authority hold.
PowerLoss ==
  /\ faults < MaxFaults
  /\ faults' = faults + 1
  /\ \E up \in SUBSET (IF Activated /\ authority = "active" THEN Services ELSE {}) :
       runtime' = (runtime \ Services) \cup up
  /\ control' = NoControl
  /\ watchdog' = NoWatch
  /\ watchdogDue' = now + WatchdogBoot
  /\ backupGrace' = now + WatchdogBoot
  /\ renewing' = FALSE
  /\ UNCHANGED <<now, witnessVars, authority, marker, materialized, rmFailed>>

Activating == \/ LeaseConfirmed \/ ActivationDenied \/ ActivationAbandoned
              \/ Authorize \/ CreateMarker \/ ComposeUp \/ HealthAnswers
              \/ StartMcp \/ StartBridge \/ ActivationReady \/ ActivationFails

ReturningPassive == StopServices \/ RemoveContainer \/ RemoveMarker \/ Unauthorize

BackupStep ==
  \/ Materialize \/ ActivateStarts \/ Deactivate
  \/ WitnessAnswersControl
  \/ Activating \/ ReturningPassive
  \/ WatchdogLooks \/ WatchdogReadsMarker \/ WitnessAnswersWatchdog
  \/ WatchdogJudges \/ WatchdogRollsBack
  \/ RenewTimerFires \/ RenewalReachesWitness \/ RenewalLost
  \/ PowerLoss

\* A pass that is due has started and what it does on the host itself takes no
\* five seconds, nor does one that can take the control lock wait for it: only
\* the witness's answer and the lock are waited for.
WatchdogPrompt == /\ watchdog.step = "idle" => now < watchdogDue
                  /\ watchdog.step # "looked"
                  /\ watchdog.step = "rollback" => ~ControlFree

BackupTick == WatchdogPrompt /\ Tick /\ UNCHANGED backupVars

\* The witness commands of the other parties.
WitnessElsewhere ==
  /\ RenewPrimary \/ GrantBackup \/ RevokeBackup \/ ExpireLease
  /\ lease'.epoch <= MaxEpoch
  /\ UNCHANGED backupVars

TrackGrants == grantedUntil' = IF lease'.holder = Backup THEN lease'.expires ELSE grantedUntil

\* What the observer sees matters only to WitnessAuthority: here it saw takeover
\* evidence, and its observation stays fresh.
Init == WitnessInit /\ observer.evidence /\ BackupInit
Next == (BackupStep \/ WitnessElsewhere \/ BackupTick) /\ TrackGrants

\* The watchdog's timer keeps firing, a status call ends, and a control command
\* that holds the lock runs to its end.
Fairness == /\ WF_vars(WatchdogLooks /\ TrackGrants)
            /\ WF_vars(WatchdogReadsMarker /\ TrackGrants)
            /\ WF_vars(WatchdogJudges /\ TrackGrants)
            /\ SF_vars(WatchdogRollsBack /\ TrackGrants)
            /\ WF_vars(Activating /\ TrackGrants)
            /\ WF_vars(ReturningPassive /\ TrackGrants)

Spec     == Init /\ [][Next]_vars
FairSpec == Spec /\ Fairness

-----------------------------------------------------------------------------
\* The marker that allows the services to run never outlives the authority
\* file that allows them to act, whatever step a power loss cuts short
\* (activate_runtime writes it second, return_passive removes it first).
MarkerMeansActive == Activated => authority = "active"

\* The epoch in the marker is one the witness gave to the backup: the witness
\* still names the backup under it, or has moved to a later one.
Granted(epoch) == \/ epoch < lease.epoch
                  \/ epoch = lease.epoch /\ lease.holder = Backup

MarkerIsWitnessed == Activated => Granted(marker)

\* Nothing of the runtime exists without the marker, whatever a power loss cuts
\* short, unless a docker rm has failed (remove_runtime, activate_runtime).
RuntimeNeedsMarker == runtime # {} /\ ~Activated => rmFailed

\* Rollback in time (lease-enforce): an activated backup that no command holds
\* and no pass examines does not see a watchdog period pass after its last lease
\* would have run out, unless it has just booted.  The bound is the lease's own
\* expiry, revoked or not: a pass believes a status that was sent before the
\* revocation.
RollbackBound ==
  [][now' > now /\ Activated /\ ControlFree /\ watchdog = NoWatch
       => now' < grantedUntil + WatchdogPeriod \/ now' <= backupGrace]_vars

\* What makes these inductive.  The lease a control command acts on is one the
\* witness gave.
LeaseInHand ==
  /\ lease.epoch # 0
  /\ control.reply.holder = Backup => control.reply.epoch # 0 /\ Granted(control.reply.epoch)

\* What each step of a control command finds.
ActivationPhases ==
  /\ control.step \in {"authorize", "mark"} => control.reply.holder = Backup
  /\ control.step \in {"renew", "authorize", "mark"} => ~Activated /\ runtime = {}
  /\ control.step = "mark" => authority = "active"
  /\ control.step \in {"container", "health", "reconfirm", "mcp", "bridge", "confirm"} => Activated
  /\ control.step = "remove" => runtime \subseteq {"container"}
  /\ control.step \in {"unmark", "unauthorize"} /\ runtime # {} => rmFailed
  /\ control.step = "unauthorize" => ~Activated

\* An activation has its lease confirmed anew from the second reply on.
Confirmed == \/ ControlFree
             \/ control.step \in {"mcp", "bridge", "confirm"}
             \/ control.step = "reconfirm" /\ Answered

\* No status is longer than the leases given out.  The next pass comes within a
\* period, and on an activated host it was scheduled while a lease given to the
\* backup had not run out, or at boot.
WatchdogScheduled ==
  /\ grantedUntil <= now + LEASE_TTL
  /\ lease.holder = Backup => lease.expires = grantedUntil
  /\ watchdog.reply.expires <= grantedUntil
  /\ watchdogDue <= now + WatchdogPeriod \/ watchdogDue <= backupGrace
  /\ Activated /\ Confirmed /\ watchdog = NoWatch =>
       watchdogDue < grantedUntil + WatchdogPeriod \/ watchdogDue <= backupGrace

\* The inductive invariant of the host (control and watchdog scripts together).
BackupInv == LeaseInHand /\ ActivationPhases /\ WatchdogScheduled

\* An activated backup that lost its lease is deactivated, or gets a new lease.
LeaseLossRollsBack ==
  Activated /\ ~HeldBy(Backup) ~> ~Activated \/ HeldBy(Backup)

\* An activation that ends without a complete runtime does not stay.
HalfActivationRollsBack ==
  Activated /\ ControlFree /\ runtime # Runtime
    ~> ~Activated \/ runtime = Runtime
=============================================================================
