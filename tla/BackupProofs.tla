---------------------------- MODULE BackupProofs ----------------------------
(***************************************************************************)
(* Proofs about BackupHost, for every lease length, margin, period and     *)
(* bound: the types, that marker, authority file, runtime and witness agree *)
(* whatever a power loss cuts short, and that rollback comes in time.      *)
(***************************************************************************)
EXTENDS BackupHost, WitnessProofs

USE DEF Hosts, NoLease, LeaseRecord, Observation

\* Every step of the system is a witness command, a tick, or leaves the witness
\* and the clock alone.
LEMMA WitnessOrLocal ==
  ASSUME [Next]_vars
  PROVE  WitnessCommand \/ Tick \/ UNCHANGED <<now, witnessVars>>
BY DEF Next, BackupStep, WitnessElsewhere, BackupTick, vars, witnessVars, WitnessCommand,
   Materialize, ActivateStarts, Deactivate, WitnessAnswersControl, Activating, LeaseConfirmed,
   ActivationDenied, ActivationAbandoned, Advance, Authorize, CreateMarker, ComposeUp,
   HealthAnswers, StartMcp, StartBridge, ActivationReady, ActivationFails, ReturningPassive,
   StopServices, RemoveContainer, RemoveMarker, Unauthorize, WatchdogLooks, WatchdogReadsMarker,
   WitnessAnswersWatchdog, WatchdogJudges, Judged, WatchdogGoesOn,
   WatchdogRollsBack, RenewTimerFires, RenewalReachesWitness, RenewalLost, PowerLoss

\* What a step does to the witness, the clock and the end of the backup's last
\* lease: the epoch never falls, one that was the backup's stays so, and a lease
\* given to the backup runs no shorter than the one before.
LEMMA WitnessStep ==
  ASSUME WitnessTypeOK, grantedUntil \in Nat, grantedUntil <= now + LEASE_TTL,
         lease.holder = Backup => lease.expires = grantedUntil, [Next]_vars
  PROVE  /\ WitnessTypeOK'
         /\ now' = now \/ now' = now + 1
         /\ lease'.epoch >= lease.epoch
         /\ lease'.epoch = lease.epoch /\ lease.holder = Backup => lease'.holder = Backup
         /\ grantedUntil' \in Nat /\ grantedUntil <= grantedUntil'
         /\ grantedUntil' <= now' + LEASE_TTL
         /\ lease'.holder = Backup => lease'.expires = grantedUntil'
<1>1. now \in Nat /\ lease \in LeaseRecord /\ Backup # None /\ LEASE_TTL \in Nat
  BY WitnessAssumption DEF WitnessTypeOK
<1>2. /\ WitnessTypeOK' /\ (now' = now \/ now' = now + 1)
      /\ lease'.epoch >= lease.epoch
      /\ lease'.epoch = lease.epoch /\ lease.holder = Backup => lease'.holder = Backup
      /\ \/ lease' = lease
         \/ lease'.holder # Backup
         \/ lease'.expires = now + LEASE_TTL /\ now' = now
  <2>1. CASE WitnessCommand
    <3>1. \/ lease'.expires = now + LEASE_TTL /\ now' = now
          \/ lease'.holder # Backup
      BY <1>1, <2>1 DEF WitnessCommand, RenewPrimary, GrantBackup, RenewBackup, RenewHolder,
         RevokeBackup, ExpireLease
    <3> QED
      BY <1>1, <2>1, <3>1, WitnessMovesForward
  <2>2. CASE Tick \/ UNCHANGED <<now, witnessVars>>
    BY <1>1, <2>2 DEF Tick, witnessVars, WitnessTypeOK
  <2> QED
    BY <2>1, <2>2, WitnessOrLocal
<1>3. CASE TrackGrants
  <2>1. lease'.expires \in Nat /\ lease' \in LeaseRecord
    BY <1>2 DEF WitnessTypeOK
  <2> QED
    BY <1>1, <1>2, <1>3, <2>1 DEF TrackGrants
<1>4. CASE UNCHANGED vars
  BY <1>1, <1>2, <1>4 DEF vars, witnessVars
<1> QED
  BY <1>2, <1>3, <1>4 DEF Next

USE DEF AuthorityStates, Services, Runtime, ActivateSteps, PassiveSteps, NoControl,
        ControlRuns, Watching, NoWatch

-----------------------------------------------------------------------------
\* A control command that holds the lock goes to another step, with its reply or
\* with none.
LEMMA ControlGoesOn ==
  ASSUME NEW c \in ControlRuns, c.step # "done", NEW s \in ActivateSteps \cup PassiveSteps
  PROVE  /\ [c EXCEPT !.step = s] \in ControlRuns
         /\ [c EXCEPT !.step = s].by = c.by
         /\ [c EXCEPT !.step = s].step = s
         /\ [c EXCEPT !.step = s].reply = c.reply
         /\ [c EXCEPT !.step = s, !.reply = NoLease(0)] \in ControlRuns
         /\ [c EXCEPT !.step = s, !.reply = NoLease(0)].by = c.by
         /\ [c EXCEPT !.step = s, !.reply = NoLease(0)].step = s
         /\ [c EXCEPT !.step = s, !.reply = NoLease(0)].reply = NoLease(0)
<1>1. NoLease(0) \in LeaseRecord
  BY WitnessAssumption
<1> HIDE DEF NoLease, LeaseRecord, ActivateSteps, PassiveSteps
<1>2. c \in [by : {"operator", "watchdog"}, step : ActivateSteps \cup PassiveSteps,
             reply : LeaseRecord]
  OBVIOUS
<1> QED
  BY <1>1, <1>2

\* A control command starts.
LEMMA ControlBegins ==
  ASSUME NEW by \in {"operator", "watchdog"}, NEW s \in ActivateSteps \cup PassiveSteps
  PROVE  [by |-> by, step |-> s, reply |-> NoLease(0)] \in ControlRuns
<1>1. NoLease(0) \in LeaseRecord
  BY WitnessAssumption
<1> QED
  BY <1>1 DEF LeaseRecord

\* What the lemmas below call the control command's part of the type invariant.
ControlTypeOK ==
  /\ control \in ControlRuns
  /\ control.by = "watchdog" => control.step \in PassiveSteps /\ watchdog.step = "rollback"

LEMMA ControlTypeStep ==
  ASSUME WitnessTypeOK', BackupTypeOK, [Next]_vars
  PROVE  ControlTypeOK'
<1> USE DEF ControlTypeOK
<1>0. /\ control \in ControlRuns
      /\ control.by = "watchdog" => control.step \in PassiveSteps /\ watchdog.step = "rollback"
  BY DEF BackupTypeOK
<1>1. CASE UNCHANGED <<control, watchdog>>
  BY <1>0, <1>1
<1>2. CASE control' = NoControl
  BY <1>2
<1>3. CASE Activating
  <2>1. control.step \in ActivateSteps /\ UNCHANGED watchdog
    BY <1>3 DEF Activating, LeaseConfirmed, ActivationDenied, ActivationAbandoned, Advance, Asking,
       Authorize, CreateMarker, ComposeUp, HealthAnswers, StartMcp, StartBridge, ActivationReady,
       ActivationFails, watchVars
  <2>2. control.by # "watchdog" /\ control.step # "done"
    BY <1>0, <2>1
  <2>3. \/ control' = NoControl
        \/ \E s \in ActivateSteps \cup PassiveSteps :
             \/ control' = [control EXCEPT !.step = s]
             \/ control' = [control EXCEPT !.step = s, !.reply = NoLease(0)]
    BY <1>3 DEF Activating, LeaseConfirmed, ActivationDenied, ActivationAbandoned, Advance,
       Authorize, CreateMarker, ComposeUp, HealthAnswers, StartMcp, StartBridge, ActivationReady,
       ActivationFails
  <2>4. control' = NoControl \/ (control' \in ControlRuns /\ control'.by = control.by)
    <3>1. ASSUME NEW s \in ActivateSteps \cup PassiveSteps,
                 control' = [control EXCEPT !.step = s]
          PROVE  control' \in ControlRuns /\ control'.by = control.by
      BY <1>0, <2>2, <3>1, ControlGoesOn
    <3>2. ASSUME NEW s \in ActivateSteps \cup PassiveSteps,
                 control' = [control EXCEPT !.step = s, !.reply = NoLease(0)]
          PROVE  control' \in ControlRuns /\ control'.by = control.by
      BY <1>0, <2>2, <3>2, ControlGoesOn
    <3> QED
      BY <2>3, <3>1, <3>2, Zenon
  <2> QED
    BY <1>2, <2>2, <2>4
<1>4. CASE StopServices \/ RemoveContainer \/ RemoveMarker
  <2>1. control.step \in PassiveSteps /\ control.step # "done" /\ UNCHANGED watchdog
    BY <1>4 DEF StopServices, RemoveContainer, RemoveMarker, watchVars
  <2>2. PICK s \in PassiveSteps : control' = [control EXCEPT !.step = s]
    BY <1>4 DEF StopServices, RemoveContainer, RemoveMarker
  <2>3. control' \in ControlRuns /\ control'.by = control.by /\ control'.step \in PassiveSteps
    BY <1>0, <2>1, <2>2, ControlGoesOn
  <2> QED
    BY <1>0, <2>1, <2>3
<1>5. CASE ActivateStarts \/ Deactivate \/ WatchdogRollsBack
  <2>1. CASE ActivateStarts \/ Deactivate
    <3>1. \E s \in ActivateSteps \cup PassiveSteps :
            control' = [by |-> "operator", step |-> s, reply |-> NoLease(0)]
      BY <2>1 DEF ActivateStarts, Deactivate
    <3> QED
      BY <3>1, ControlBegins
  <2>2. CASE WatchdogRollsBack
    <3>1. /\ control' = [by |-> "watchdog", step |-> "stop", reply |-> NoLease(0)]
          /\ watchdog' = watchdog /\ watchdog.step = "rollback"
      BY <2>2 DEF WatchdogRollsBack, watchVars
    <3> QED
      BY <3>1, ControlBegins
  <2> QED
    BY <1>5, <2>1, <2>2
<1>6. CASE WitnessAnswersControl
  <2>1. /\ lease' \in LeaseRecord /\ control # NoControl
        /\ control' = [control EXCEPT !.reply = lease'] /\ UNCHANGED watchdog
    BY <1>6 DEF WitnessTypeOK, WitnessAnswersControl, Asking, watchVars
  <2>2. control' \in ControlRuns /\ control'.by = control.by /\ control'.step = control.step
    BY <1>0, <2>1
  <2> QED
    BY <1>0, <2>1, <2>2
<1>7. CASE WatchdogLooks \/ WatchdogReadsMarker \/ WitnessAnswersWatchdog \/ WatchdogJudges
  <2>1. control' = control /\ watchdog.step # "rollback"
    BY <1>7 DEF WatchdogLooks, WatchdogReadsMarker, WitnessAnswersWatchdog, WatchdogJudges,
       Judged, WatchdogGoesOn
  <2> QED
    BY <1>0, <2>1
<1>8. CASE Unauthorize
  BY <1>2, <1>8 DEF Unauthorize
<1>9. CASE PowerLoss
  BY <1>2, <1>9 DEF PowerLoss
<1>10. CASE \/ Materialize \/ RenewTimerFires \/ RenewalReachesWitness \/ RenewalLost
            \/ WitnessElsewhere \/ BackupTick \/ UNCHANGED vars
  BY <1>1, <1>10 DEF Materialize, RenewTimerFires, RenewalReachesWitness, RenewalLost,
     WitnessElsewhere, BackupTick, backupVars, watchVars, vars
<1> QED
  BY <1>3, <1>4, <1>5, <1>6, <1>7, <1>8, <1>9, <1>10 DEF Next, BackupStep, ReturningPassive

\* The same for the watchdog.
WatchdogTypeOK == watchdog \in Watching /\ watchdogDue \in Nat /\ backupGrace \in Nat

LEMMA WatchdogTypeStep ==
  ASSUME WitnessTypeOK, BackupTypeOK, [Next]_vars
  PROVE  WatchdogTypeOK'
<1> USE DEF WatchdogTypeOK
<1>0. /\ watchdog \in Watching /\ watchdogDue \in Nat /\ backupGrace \in Nat
      /\ runtime \in SUBSET Runtime /\ now \in Nat
  BY DEF BackupTypeOK, WitnessTypeOK
<1>1. now + WatchdogPeriod \in Nat /\ now + WatchdogBoot \in Nat
  BY <1>0, BackupAssumption
<1>2. /\ NoWatch \in Watching
      /\ \A seen \in SUBSET Runtime : [NoWatch EXCEPT !.step = "looked", !.seen = seen] \in Watching
      /\ [NoWatch EXCEPT !.step = "rollback"] \in Watching
      /\ [watchdog EXCEPT !.step = "asking"] \in Watching
      /\ \A l \in LeaseRecord : [watchdog EXCEPT !.reply = l] \in Watching
  BY <1>0, WitnessAssumption
<1> HIDE DEF Watching, NoWatch, Runtime
<1>3. ASSUME NEW next \in Watching, WatchdogGoesOn(next)
      PROVE  WatchdogTypeOK'
  BY <1>0, <1>1, <1>3 DEF WatchdogGoesOn
<1>4. CASE WatchdogLooks \/ WatchdogReadsMarker \/ WitnessAnswersWatchdog \/ WatchdogJudges
  <2>1. CASE WatchdogLooks
    BY <1>0, <1>2, <1>3, <2>1 DEF WatchdogLooks
  <2>2. CASE WatchdogReadsMarker
    BY <1>2, <1>3, <2>2, Zenon DEF WatchdogReadsMarker
  <2>3. CASE WitnessAnswersWatchdog
    BY <1>2, <1>3, <2>3 DEF WitnessAnswersWatchdog, WitnessTypeOK
  <2>4. CASE WatchdogJudges
    <3>1. WatchdogGoesOn(NoWatch) \/ WatchdogGoesOn([NoWatch EXCEPT !.step = "rollback"])
      BY <2>4 DEF WatchdogJudges, Judged
    <3> QED
      BY <1>2, <1>3, <3>1
  <2> QED
    BY <1>4, <2>1, <2>2, <2>3, <2>4
<1>5. CASE Unauthorize
  BY <1>0, <1>1, <1>2, <1>5 DEF Unauthorize, watchVars
<1>6. CASE PowerLoss
  BY <1>1, <1>2, <1>6 DEF PowerLoss
<1>7. CASE UNCHANGED <<watchVars, backupGrace>>
  BY <1>0, <1>7 DEF watchVars
<1> QED
  BY <1>4, <1>5, <1>6, <1>7 DEF Next, BackupStep, WitnessElsewhere, BackupTick, vars,
     backupVars, Materialize, ActivateStarts, Deactivate, WitnessAnswersControl, Activating,
     LeaseConfirmed, ActivationDenied, ActivationAbandoned, Advance, Authorize, CreateMarker,
     ComposeUp, HealthAnswers, StartMcp, StartBridge, ActivationReady, ActivationFails,
     ReturningPassive, StopServices, RemoveContainer, RemoveMarker, WatchdogRollsBack,
     RenewTimerFires, RenewalReachesWitness, RenewalLost

\* And for the files and the runtime.
FilesTypeOK ==
  /\ authority \in AuthorityStates
  /\ marker \in Nat
  /\ runtime \subseteq Runtime
  /\ materialized \in BOOLEAN
  /\ renewing \in BOOLEAN
  /\ rmFailed \in BOOLEAN
  /\ faults \in Nat

LEMMA FilesTypeStep ==
  ASSUME BackupTypeOK, [Next]_vars
  PROVE  FilesTypeOK'
<1>0. FilesTypeOK /\ (control = NoControl \/ control.reply.epoch \in Nat)
  BY DEF FilesTypeOK, BackupTypeOK
<1> USE DEF FilesTypeOK
<1>1. CASE UNCHANGED <<files, renewing, rmFailed, faults>>
  BY <1>0, <1>1 DEF files
<1>2. CASE Materialize \/ RenewTimerFires \/ RenewalReachesWitness \/ RenewalLost
  BY <1>0, <1>2 DEF Materialize, RenewTimerFires, RenewalReachesWitness, RenewalLost, files
<1>3. CASE Authorize \/ CreateMarker
  BY <1>0, <1>3 DEF Authorize, CreateMarker, Advance
<1>4. CASE ComposeUp \/ StartMcp \/ StartBridge
  BY <1>0, <1>4 DEF ComposeUp, StartMcp, StartBridge, Advance
<1>5. CASE ActivationFails
  BY <1>0, <1>5 DEF ActivationFails
<1>6. CASE StopServices \/ RemoveContainer
  BY <1>0, <1>6 DEF StopServices, RemoveContainer
<1>7. CASE RemoveMarker \/ Unauthorize
  BY <1>0, <1>7 DEF RemoveMarker, Unauthorize
<1>8. CASE PowerLoss
  <2>1. runtime' \subseteq Runtime
    <3>1. PICK up \in SUBSET Services : runtime' = (runtime \ Services) \cup up
      BY <1>8 DEF PowerLoss
    <3> QED
      BY <1>0, <3>1
  <2>2. faults' \in Nat
    BY <1>0, <1>8 DEF PowerLoss
  <2>3. renewing' = FALSE /\ UNCHANGED <<authority, marker, materialized, rmFailed>>
    BY <1>8 DEF PowerLoss
  <2> QED
    BY <1>0, <2>1, <2>2, <2>3, Zenon
<1> QED
  BY <1>1, <1>2, <1>3, <1>4, <1>5, <1>6, <1>7, <1>8 DEF Next, BackupStep, WitnessElsewhere,
     BackupTick, vars, backupVars, files, ActivateStarts, Deactivate, WitnessAnswersControl,
     Activating, LeaseConfirmed, ActivationDenied, ActivationAbandoned, Advance, HealthAnswers,
     ActivationReady, ReturningPassive, WatchdogLooks, WatchdogReadsMarker,
     WitnessAnswersWatchdog, WatchdogJudges, Judged, WatchdogGoesOn, WatchdogRollsBack

\* Every step keeps the types.
LEMMA BackupTypeStep ==
  ASSUME WitnessTypeOK, WitnessTypeOK', BackupTypeOK, grantedUntil' \in Nat, [Next]_vars
  PROVE  BackupTypeOK'
BY ControlTypeStep, WatchdogTypeStep, FilesTypeStep
   DEF ControlTypeOK, WatchdogTypeOK, FilesTypeOK, BackupTypeOK

-----------------------------------------------------------------------------
\* An epoch the witness gave to the backup stays one it gave.
LEMMA GrantedStays ==
  ASSUME WitnessTypeOK, WitnessTypeOK', grantedUntil \in Nat, grantedUntil <= now + LEASE_TTL,
         lease.holder = Backup => lease.expires = grantedUntil, [Next]_vars,
         NEW epoch \in Nat, Granted(epoch)
  PROVE  epoch < lease'.epoch \/ (epoch = lease'.epoch /\ lease'.holder = Backup)
<1>1. lease.epoch \in Nat /\ lease'.epoch \in Nat
  BY DEF WitnessTypeOK
<1> QED
  BY <1>1, WitnessStep DEF Granted

\* A step leaves the reply of the control command alone, takes what the witness
\* answered, or drops it; and it sets the marker only to an epoch of the backup's.
LEMMA ReplyStep ==
  ASSUME WitnessTypeOK', BackupTypeOK, ActivationPhases, [Next]_vars
  PROVE  /\ \/ control'.reply = control.reply
            \/ control'.reply = NoLease(0)
            \/ control'.reply = lease' /\ lease'.holder = Backup
         /\ \/ marker' \in {marker, 0}
            \/ marker' = control.reply.epoch /\ control.reply.holder = Backup
<1>0. control \in ControlRuns
  BY DEF BackupTypeOK
<1>1. CASE \/ LeaseConfirmed \/ Authorize \/ CreateMarker \/ ComposeUp \/ StartMcp \/ StartBridge
           \/ StopServices \/ RemoveContainer \/ RemoveMarker
  <2>1. PICK s \in ActivateSteps \cup PassiveSteps : control' = [control EXCEPT !.step = s]
    BY <1>1 DEF LeaseConfirmed, Advance, Authorize, CreateMarker, ComposeUp, StartMcp, StartBridge,
       StopServices, RemoveContainer, RemoveMarker
  <2>2. control.step # "done"
    BY <1>1 DEF LeaseConfirmed, Asking, Advance, Authorize, CreateMarker, ComposeUp, StartMcp,
       StartBridge, StopServices, RemoveContainer, RemoveMarker
  <2>3. control'.reply = control.reply
    BY <1>0, <2>1, <2>2, ControlGoesOn
  <2>4. marker' \in {marker, 0} \/ (marker' = control.reply.epoch /\ control.reply.holder = Backup)
    BY <1>1 DEF Advance, ActivationPhases, LeaseConfirmed, Authorize, CreateMarker, ComposeUp,
      StartMcp, StartBridge, StopServices, RemoveContainer, RemoveMarker, files
  <2> QED
    BY <2>3, <2>4
<1>2. CASE HealthAnswers \/ ActivationFails
  <2>1. PICK s \in ActivateSteps \cup PassiveSteps :
          control' = [control EXCEPT !.step = s, !.reply = NoLease(0)]
    BY <1>2 DEF HealthAnswers, Advance, ActivationFails
  <2>2. control.step # "done"
    BY <1>2 DEF HealthAnswers, Advance, ActivationFails
  <2>3. control'.reply = NoLease(0)
    BY <1>0, <2>1, <2>2, ControlGoesOn
  <2>4. marker' = marker
    BY <1>2 DEF HealthAnswers, Advance, ActivationFails
  <2> QED
    BY <2>3, <2>4
<1>3. CASE WitnessAnswersControl
  <2>1. /\ lease' \in LeaseRecord /\ control # NoControl /\ marker' = marker
        /\ control' = [control EXCEPT !.reply = lease']
    BY <1>3 DEF WitnessTypeOK, WitnessAnswersControl, Asking, files
  <2>2. control'.reply = lease'
    BY <1>0, <2>1
  <2>3. lease'.holder = Backup
    BY <1>3 DEF WitnessAnswersControl, RenewBackup, RenewHolder
  <2> QED
    BY <2>1, <2>2, <2>3
<1>4. CASE \/ ActivationDenied \/ ActivationAbandoned \/ ActivationReady \/ Unauthorize \/ PowerLoss
  BY <1>4 DEF ActivationDenied, ActivationAbandoned, Advance, ActivationReady, Unauthorize,
     PowerLoss, files
<1>5. CASE ActivateStarts \/ Deactivate \/ WatchdogRollsBack
  BY <1>5 DEF ActivateStarts, Deactivate, WatchdogRollsBack, files
<1>6. CASE UNCHANGED <<control, marker>>
  BY <1>6
<1> QED
  BY <1>1, <1>2, <1>3, <1>4, <1>5, <1>6 DEF Next, BackupStep, Activating, ReturningPassive,
    WitnessElsewhere, BackupTick, backupVars, files, vars, Materialize, WatchdogLooks,
    WatchdogReadsMarker, WitnessAnswersWatchdog, WatchdogJudges, Judged, WatchdogGoesOn,
    RenewTimerFires, RenewalReachesWitness, RenewalLost

\* The lease a control command acts on, and the epoch in the marker, are the
\* witness's: every step keeps this.
LEMMA LeaseInHandStep ==
  ASSUME WitnessTypeOK, WitnessTypeOK', BackupTypeOK, grantedUntil <= now + LEASE_TTL,
         lease.holder = Backup => lease.expires = grantedUntil, [Next]_vars,
         LeaseInHand, MarkerIsWitnessed, ActivationPhases
  PROVE  LeaseInHand' /\ MarkerIsWitnessed'
<1>1. /\ lease \in LeaseRecord /\ lease' \in LeaseRecord
      /\ marker \in Nat /\ control.reply.epoch \in Nat /\ grantedUntil \in Nat
      /\ Backup # None
  <2>1. control.reply.epoch \in Nat
    BY DEF BackupTypeOK
  <2> QED
    BY <2>1, WitnessAssumption DEF BackupTypeOK, WitnessTypeOK
<1>2. lease'.epoch # 0
  <2>1. lease.epoch \in Nat /\ lease'.epoch \in Nat /\ lease'.epoch >= lease.epoch
    BY <1>1, WitnessStep
  <2> QED
    BY <2>1 DEF LeaseInHand
<1>3. ASSUME NEW epoch \in Nat, Granted(epoch)
      PROVE  epoch < lease'.epoch \/ (epoch = lease'.epoch /\ lease'.holder = Backup)
  BY <1>1, <1>3, GrantedStays
<1>4. ASSUME control'.reply.holder = Backup
      PROVE  /\ control'.reply.epoch # 0
             /\ \/ control'.reply.epoch < lease'.epoch
                \/ control'.reply.epoch = lease'.epoch /\ lease'.holder = Backup
  <2>1. CASE control'.reply = control.reply
    BY <1>1, <1>3, <1>4, <2>1 DEF LeaseInHand
  <2>2. CASE control'.reply = NoLease(0)
    BY <1>1, <1>4, <2>2
  <2>3. CASE control'.reply = lease' /\ lease'.holder = Backup
    BY <1>2, <2>3
  <2> QED
    BY <2>1, <2>2, <2>3, ReplyStep
<1>5. ASSUME marker' # 0
      PROVE  marker' < lease'.epoch \/ (marker' = lease'.epoch /\ lease'.holder = Backup)
  <2>1. CASE marker' = marker
    BY <1>1, <1>3, <1>5, <2>1 DEF MarkerIsWitnessed, Activated
  <2>2. CASE marker' = control.reply.epoch /\ control.reply.holder = Backup
    BY <1>1, <1>3, <2>2 DEF LeaseInHand
  <2> QED
    BY <1>5, <2>1, <2>2, ReplyStep
<1> QED
  BY <1>2, <1>4, <1>5 DEF LeaseInHand, MarkerIsWitnessed, Activated, Granted

\* Where a control command stands fits the files and the runtime: every step keeps
\* this, one that a power loss or an error cuts short too.
PhasesOK == ActivationPhases /\ MarkerMeansActive /\ RuntimeNeedsMarker

LEMMA PhasesStep ==
  ASSUME WitnessTypeOK', BackupTypeOK, LeaseInHand, PhasesOK, [Next]_vars
  PROVE  PhasesOK'
<1>0. /\ control \in ControlRuns
      /\ runtime \subseteq Runtime
      /\ Backup # None
  BY WitnessAssumption DEF BackupTypeOK
<1> USE DEF PhasesOK, ActivationPhases, MarkerMeansActive, RuntimeNeedsMarker, Activated
<1>1. CASE ActivateStarts
  BY <1>1 DEF ActivateStarts, files
<1>2. CASE Deactivate \/ WatchdogRollsBack
  BY <1>2 DEF Deactivate, WatchdogRollsBack, files
<1>3. CASE WitnessAnswersControl
  <2>1. /\ control # NoControl /\ control.step \in {"renew", "reconfirm"}
        /\ control' = [control EXCEPT !.reply = lease'] /\ UNCHANGED <<files, rmFailed>>
    BY <1>3 DEF WitnessAnswersControl, Asking
  <2>2. control'.step = control.step
    BY <1>0, <2>1
  <2> QED
    BY <2>1, <2>2 DEF files
<1>4. CASE LeaseConfirmed
  <2>1. /\ control.step # "done" /\ control.reply.holder = Backup /\ UNCHANGED <<files, rmFailed>>
        /\ \/ control.step = "renew" /\ control' = [control EXCEPT !.step = "authorize"]
           \/ control.step = "reconfirm" /\ control' = [control EXCEPT !.step = "mcp"]
    BY <1>4 DEF LeaseConfirmed, LeaseAccepted, Asking
  <2>2. /\ control'.reply = control.reply
        /\ \/ control.step = "renew" /\ control'.step = "authorize"
           \/ control.step = "reconfirm" /\ control'.step = "mcp"
    <3>1. CASE control.step = "renew" /\ control' = [control EXCEPT !.step = "authorize"]
      BY <1>0, <2>1, <3>1, ControlGoesOn
    <3>2. CASE control.step = "reconfirm" /\ control' = [control EXCEPT !.step = "mcp"]
      BY <1>0, <2>1, <3>2, ControlGoesOn
    <3> QED
      BY <2>1, <3>1, <3>2
  <2> QED
    BY <2>1, <2>2 DEF files
<1>5. CASE ActivationDenied \/ ActivationAbandoned \/ ActivationReady
  BY <1>5 DEF ActivationDenied, ActivationAbandoned, Advance, ActivationReady, files
<1>6. CASE Authorize
  <2>1. /\ control.step = "authorize" /\ control' = [control EXCEPT !.step = "mark"]
        /\ authority' = "active" /\ UNCHANGED <<marker, runtime, rmFailed>>
    BY <1>6 DEF Authorize, Advance
  <2>2. control'.step = "mark" /\ control'.reply = control.reply
    BY <1>0, <2>1, ControlGoesOn
  <2> QED
    BY <2>1, <2>2
<1>7. CASE CreateMarker
  <2>1. /\ control.step = "mark" /\ control' = [control EXCEPT !.step = "container"]
        /\ marker' = control.reply.epoch /\ UNCHANGED <<authority, runtime, rmFailed>>
    BY <1>7 DEF CreateMarker, Advance
  <2>2. control'.step = "container" /\ marker' # 0
    BY <1>0, <2>1, ControlGoesOn DEF LeaseInHand
  <2> QED
    BY <2>1, <2>2
<1>8. CASE ComposeUp \/ StartMcp \/ StartBridge \/ HealthAnswers \/ ActivationFails
  <2>1. /\ control.step \in {"container", "health", "reconfirm", "mcp", "bridge", "confirm"}
        /\ \E s \in {"health", "bridge", "confirm", "reconfirm", "stop"} :
             \/ control' = [control EXCEPT !.step = s]
             \/ control' = [control EXCEPT !.step = s, !.reply = NoLease(0)]
        /\ UNCHANGED <<authority, marker, rmFailed>>
    BY <1>8 DEF ComposeUp, StartMcp, StartBridge, HealthAnswers, ActivationFails, Advance
  <2>2. control'.step \in {"health", "bridge", "confirm", "reconfirm", "stop"}
    <3>1. PICK s \in {"health", "bridge", "confirm", "reconfirm", "stop"} :
            \/ control' = [control EXCEPT !.step = s]
            \/ control' = [control EXCEPT !.step = s, !.reply = NoLease(0)]
      BY <2>1
    <3>2. control.step # "done" /\ s \in ActivateSteps \cup PassiveSteps
      BY <2>1
    <3>3. CASE control' = [control EXCEPT !.step = s]
      BY <1>0, <3>2, <3>3, ControlGoesOn
    <3>4. CASE control' = [control EXCEPT !.step = s, !.reply = NoLease(0)]
      BY <1>0, <3>2, <3>4, ControlGoesOn
    <3> QED
      BY <3>1, <3>3, <3>4
  <2> QED
    BY <2>1, <2>2
<1>9. CASE StopServices
  <2>1. /\ control.step = "stop" /\ control' = [control EXCEPT !.step = "remove"]
        /\ runtime' = runtime \ Services /\ UNCHANGED <<authority, marker, rmFailed>>
    BY <1>9 DEF StopServices
  <2>2. control'.step = "remove"
    BY <1>0, <2>1, ControlGoesOn
  <2> QED
    BY <1>0, <2>1, <2>2
<1>10. CASE RemoveContainer
  <2>1. /\ control.step = "remove" /\ control' = [control EXCEPT !.step = "unmark"]
        /\ UNCHANGED <<authority, marker>>
        /\ (runtime' = runtime \ {"container"} /\ rmFailed' = rmFailed) \/ rmFailed' = TRUE
    BY <1>10 DEF RemoveContainer
  <2>2. control'.step = "unmark"
    BY <1>0, <2>1, ControlGoesOn
  <2>3. runtime' = {} \/ rmFailed'
    BY <2>1
  <2>4. runtime' # {} /\ ~Activated' => rmFailed'
    BY <2>3
  <2> QED
    BY <2>1, <2>2, <2>3, <2>4
<1>11. CASE RemoveMarker
  <2>1. /\ control.step = "unmark" /\ control' = [control EXCEPT !.step = "unauthorize"]
        /\ marker' = 0 /\ UNCHANGED <<authority, runtime, rmFailed>>
    BY <1>11 DEF RemoveMarker
  <2>2. control'.step = "unauthorize"
    BY <1>0, <2>1, ControlGoesOn
  <2> QED
    BY <2>1, <2>2
<1>12. CASE Unauthorize
  BY <1>12 DEF Unauthorize
<1>13. CASE PowerLoss
  <2>1. /\ control' = NoControl /\ UNCHANGED <<authority, marker, rmFailed>>
        /\ ~Activated => runtime' \subseteq runtime
    BY <1>13 DEF PowerLoss
  <2>2. runtime' # {} /\ ~Activated' => rmFailed'
    <3>1. runtime' # {} /\ ~Activated => runtime # {}
      BY <2>1
    <3> QED
      BY <2>1, <3>1
  <2> QED
    BY <2>1, <2>2
<1>14. CASE UNCHANGED <<control, authority, marker, runtime, rmFailed>>
  BY <1>14
<1> QED
  BY <1>1, <1>2, <1>3, <1>4, <1>5, <1>6, <1>7, <1>8, <1>9, <1>10, <1>11, <1>12, <1>13, <1>14 DEF
    Next, BackupStep, Activating, ReturningPassive, WitnessElsewhere, BackupTick, backupVars,
    files, vars, Materialize, WatchdogLooks, WatchdogReadsMarker, WitnessAnswersWatchdog,
    WatchdogJudges, Judged, WatchdogGoesOn, RenewTimerFires, RenewalReachesWitness, RenewalLost

-----------------------------------------------------------------------------
\* A step keeps the next watchdog pass, schedules it anew, begins or goes on with
\* one, or boots the host.
LEMMA DueStep ==
  ASSUME [Next]_vars
  PROVE  \/ UNCHANGED <<watchdogDue, backupGrace>>
         \/ /\ watchdogDue' \in {0, now + WatchdogPeriod}
            /\ UNCHANGED <<now, backupGrace>>
         \/ watchdogDue' = backupGrace'
<1>1. CASE \/ WatchdogLooks \/ WatchdogReadsMarker \/ WitnessAnswersWatchdog \/ WatchdogJudges
           \/ Unauthorize \/ PowerLoss
  BY <1>1 DEF WatchdogLooks, WatchdogReadsMarker, WitnessAnswersWatchdog, WatchdogJudges, Judged,
     WatchdogGoesOn, Unauthorize, PowerLoss, watchVars
<1>2. CASE UNCHANGED <<watchdogDue, backupGrace>>
  BY <1>2
<1> QED
  BY <1>1, <1>2 DEF Next, BackupStep, WitnessElsewhere, BackupTick, vars, backupVars, watchVars,
     Materialize, ActivateStarts, Deactivate, WitnessAnswersControl, Activating, LeaseConfirmed,
     ActivationDenied, ActivationAbandoned, Advance, Authorize, CreateMarker, ComposeUp,
     HealthAnswers, StartMcp, StartBridge, ActivationReady, ActivationFails, ReturningPassive,
     StopServices, RemoveContainer, RemoveMarker, WatchdogRollsBack, RenewTimerFires,
     RenewalReachesWitness, RenewalLost

\* An activated host that no command leaves unconfirmed and no pass examines was
\* one before, or it has just booted, or a lease given to the backup has not run
\* out.
Guarded == Activated /\ Confirmed /\ watchdog = NoWatch

LEMMA GuardedStep ==
  ASSUME WitnessTypeOK, BackupTypeOK, ActivationPhases, WatchdogScheduled, [Next]_vars, Guarded'
  PROVE  \/ Guarded /\ UNCHANGED <<watchdogDue, backupGrace>>
         \/ watchdogDue' = backupGrace'
         \/ now' < grantedUntil'
<1>0. /\ control \in ControlRuns /\ watchdog \in Watching /\ Backup # None
      /\ now \in Nat /\ LEASE_TTL \in Nat \ {0} /\ grantedUntil \in Nat
  BY WitnessAssumption DEF BackupTypeOK, WitnessTypeOK
<1> USE DEF Guarded, Confirmed, Answered, Activated, ControlFree
<1>1. CASE UNCHANGED <<marker, control, watchdog, watchdogDue, backupGrace>>
  BY <1>1
<1>2. CASE PowerLoss
  BY <1>2 DEF PowerLoss
<1>3. CASE ActivateStarts \/ Deactivate \/ WatchdogRollsBack
  BY <1>3 DEF ActivateStarts, Deactivate, WatchdogRollsBack
<1>4. CASE WitnessAnswersControl /\ TrackGrants
  <2>1. lease'.holder = Backup /\ lease'.expires = now + LEASE_TTL /\ now' = now
    BY <1>4 DEF WitnessAnswersControl, RenewBackup, RenewHolder
  <2> QED
    BY <1>0, <1>4, <2>1 DEF TrackGrants
<1>5. CASE LeaseConfirmed
  <2>1. /\ control.step # "done" /\ control.reply.holder = Backup
        /\ UNCHANGED <<marker, watchdog, watchdogDue, backupGrace>>
        /\ \/ control.step = "renew" /\ control' = [control EXCEPT !.step = "authorize"]
           \/ control.step = "reconfirm"
    BY <1>5 DEF LeaseConfirmed, LeaseAccepted, Asking, files, watchVars
  <2>2. control.reply # NoLease(0)
    BY <1>0, <2>1
  <2>3. CASE control.step = "renew" /\ control' = [control EXCEPT !.step = "authorize"]
    <3>1. control'.step = "authorize"
      BY <1>0, <2>1, <2>3, ControlGoesOn
    <3> QED
      BY <3>1
  <2> QED
    BY <2>1, <2>2, <2>3
<1>6. CASE ActivationDenied \/ ActivationAbandoned
  BY <1>6 DEF ActivationDenied, ActivationAbandoned, ActivationPhases, files, watchVars
<1>7. CASE Authorize \/ CreateMarker \/ ComposeUp \/ HealthAnswers \/ ActivationFails
           \/ StopServices \/ RemoveContainer \/ RemoveMarker
  <2>1. control.step # "done"
    BY <1>7 DEF Authorize, CreateMarker, ComposeUp, HealthAnswers, ActivationFails, Advance,
       StopServices, RemoveContainer, RemoveMarker
  <2>2. PICK s \in ActivateSteps \cup PassiveSteps :
          /\ \/ control' = [control EXCEPT !.step = s] /\ s # "reconfirm"
             \/ control' = [control EXCEPT !.step = s, !.reply = NoLease(0)]
          /\ s \notin {"mcp", "bridge", "confirm"}
    BY <1>7 DEF Authorize, CreateMarker, ComposeUp, HealthAnswers, ActivationFails, Advance,
       StopServices, RemoveContainer, RemoveMarker
  <2>3. CASE control' = [control EXCEPT !.step = s] /\ s # "reconfirm"
    <3>1. control'.step = s
      BY <1>0, <2>1, <2>3, ControlGoesOn
    <3> QED
      BY <2>2, <2>3, <3>1
  <2>4. CASE control' = [control EXCEPT !.step = s, !.reply = NoLease(0)]
    <3>1. control'.step = s /\ control'.reply = NoLease(0)
      BY <1>0, <2>1, <2>4, ControlGoesOn
    <3> QED
      BY <2>2, <3>1
  <2> QED
    BY <2>2, <2>3, <2>4
<1>8. CASE StartMcp \/ StartBridge \/ ActivationReady
  BY <1>8 DEF StartMcp, StartBridge, ActivationReady, Advance, watchVars
<1>9. CASE Unauthorize
  BY <1>9 DEF Unauthorize, ActivationPhases
<1>10. CASE WatchdogLooks \/ WatchdogReadsMarker \/ WitnessAnswersWatchdog
  <2>1. marker' = marker
    BY <1>10 DEF WatchdogLooks, WatchdogReadsMarker, WitnessAnswersWatchdog, WatchdogGoesOn, files
  <2>2. watchdog'.step \in {"looked", "asking"}
    <3>1. CASE WatchdogLooks
      BY <3>1 DEF WatchdogLooks, WatchdogGoesOn
    <3>2. CASE WatchdogReadsMarker
      BY <1>0, <2>1, <3>2 DEF WatchdogReadsMarker, WatchdogGoesOn
    <3>3. CASE WitnessAnswersWatchdog
      BY <1>0, <3>3 DEF WitnessAnswersWatchdog, WatchdogGoesOn
    <3> QED
      BY <1>10, <3>1, <3>2, <3>3
  <2> QED
    BY <2>2
<1>11. CASE WatchdogJudges /\ TrackGrants
  <2>1. watchdog' # NoWatch \/ StatusValid
    BY <1>11 DEF WatchdogJudges, Judged, WatchdogGoesOn
  <2>2. now < grantedUntil
    BY <1>0, <2>1 DEF StatusValid, WatchdogScheduled
  <2>3. UNCHANGED <<now, witnessVars>>
    BY <1>11 DEF WatchdogJudges, Judged, WatchdogGoesOn
  <2> QED
    BY <1>11, <2>2, <2>3 DEF TrackGrants, WatchdogScheduled, witnessVars
<1> QED
  BY <1>1, <1>2, <1>3, <1>4, <1>5, <1>6, <1>7, <1>8, <1>9, <1>10, <1>11 DEF Next, BackupStep,
     Activating, ReturningPassive, WitnessElsewhere, BackupTick, backupVars, watchVars, files, vars,
     Materialize, RenewTimerFires, RenewalReachesWitness, RenewalLost

\* A step leaves the status a pass has got alone, drops it, or is the answer.
LEMMA StatusStep ==
  ASSUME BackupTypeOK, [Next]_vars
  PROVE  \/ watchdog'.reply = watchdog.reply
         \/ watchdog'.reply = NoLease(0)
         \/ watchdog'.reply = lease' /\ lease'.holder = Backup
<1>0. watchdog \in Watching
  BY DEF BackupTypeOK
<1>1. CASE WatchdogLooks \/ WatchdogReadsMarker
  <2>1. \/ watchdog' = [NoWatch EXCEPT !.step = "looked", !.seen = runtime]
        \/ watchdog' = [watchdog EXCEPT !.step = "asking"]
        \/ watchdog' \in {NoWatch, [NoWatch EXCEPT !.step = "rollback"]}
    BY <1>1 DEF WatchdogLooks, WatchdogReadsMarker, WatchdogGoesOn
  <2>2. [watchdog EXCEPT !.step = "asking"].reply = watchdog.reply
    BY <1>0
  <2>3. /\ [NoWatch EXCEPT !.step = "looked", !.seen = runtime].reply = NoLease(0)
        /\ [NoWatch EXCEPT !.step = "rollback"].reply = NoLease(0)
        /\ NoWatch.reply = NoLease(0)
    OBVIOUS
  <2> HIDE DEF Watching, NoWatch, NoLease
  <2> QED
    BY <2>1, <2>2, <2>3, Zenon
<1>2. CASE WitnessAnswersWatchdog
  BY <1>0, <1>2 DEF WitnessAnswersWatchdog, WatchdogGoesOn, HeldBy, witnessVars
<1>3. CASE WatchdogJudges \/ PowerLoss
  BY <1>3 DEF WatchdogJudges, Judged, WatchdogGoesOn, PowerLoss
<1>4. CASE Unauthorize
  BY <1>4 DEF Unauthorize, watchVars
<1>5. CASE UNCHANGED watchdog
  BY <1>5
<1> QED
  BY <1>1, <1>2, <1>3, <1>4, <1>5 DEF Next, BackupStep, WitnessElsewhere, BackupTick, vars,
     backupVars, watchVars, Materialize, ActivateStarts, Deactivate, WitnessAnswersControl,
     Activating, LeaseConfirmed, ActivationDenied, ActivationAbandoned, Advance, Authorize,
     CreateMarker, ComposeUp, HealthAnswers, StartMcp, StartBridge, ActivationReady,
     ActivationFails, ReturningPassive, StopServices, RemoveContainer, RemoveMarker,
     WatchdogRollsBack, RenewTimerFires, RenewalReachesWitness, RenewalLost

\* A bound moves on with the clock.
LEMMA BoundMovesOn ==
  ASSUME NEW due \in Nat, NEW from \in Nat, NEW to \in Nat, NEW period \in Nat, from <= to
  PROVE  /\ due <= from + period => due <= to + period
         /\ due < from + period => due < to + period
OBVIOUS

LEMMA DueBefore ==
  ASSUME NEW due \in Nat, NEW from \in Nat, NEW to \in Nat, NEW period \in Nat,
         due <= from + period, from < to
  PROVE  due < to + period
OBVIOUS

LEMMA NoLater == ASSUME NEW due \in Nat, NEW grace \in Nat, due = grace PROVE due <= grace
OBVIOUS

\* Every step keeps the schedule of the watchdog.
LEMMA ScheduleStep ==
  ASSUME WitnessTypeOK, WitnessTypeOK', BackupTypeOK, BackupTypeOK', ActivationPhases,
         WatchdogScheduled, [Next]_vars
  PROVE  WatchdogScheduled'
<1>0. /\ now \in Nat /\ now' \in Nat /\ grantedUntil \in Nat /\ grantedUntil' \in Nat
      /\ watchdogDue \in Nat /\ watchdogDue' \in Nat
      /\ backupGrace \in Nat /\ backupGrace' \in Nat /\ WatchdogPeriod \in Nat
  BY BackupAssumption DEF WitnessTypeOK, BackupTypeOK
<1>1. /\ grantedUntil <= now + LEASE_TTL
      /\ lease.holder = Backup => lease.expires = grantedUntil
      /\ watchdogDue <= now + WatchdogPeriod \/ watchdogDue <= backupGrace
  BY DEF WatchdogScheduled
<1>2. /\ now' = now \/ now' = now + 1
      /\ grantedUntil <= grantedUntil' /\ grantedUntil' <= now' + LEASE_TTL
      /\ lease'.holder = Backup => lease'.expires = grantedUntil'
  BY <1>0, <1>1, WitnessStep
<1>3. watchdogDue' <= now' + WatchdogPeriod \/ watchdogDue' <= backupGrace'
  <2>1. now <= now'
    BY <1>0, <1>2
  <2>2. CASE UNCHANGED <<watchdogDue, backupGrace>>
    BY <1>0, <1>1, <2>1, <2>2, BoundMovesOn
  <2>3. CASE watchdogDue' \in {0, now + WatchdogPeriod} /\ now' = now
    BY <1>0, <2>3
  <2>4. CASE watchdogDue' = backupGrace'
    BY <1>0, <2>4, NoLater
  <2> QED
    BY <2>2, <2>3, <2>4, DueStep
<1>4. ASSUME Guarded'
      PROVE  watchdogDue' < grantedUntil' + WatchdogPeriod \/ watchdogDue' <= backupGrace'
  <2>1. CASE Guarded /\ UNCHANGED <<watchdogDue, backupGrace>>
    <3>1. watchdogDue < grantedUntil + WatchdogPeriod \/ watchdogDue <= backupGrace
      BY <2>1 DEF WatchdogScheduled, Guarded
    <3>2. CASE watchdogDue < grantedUntil + WatchdogPeriod
      BY <1>0, <1>2, <2>1, <3>2, BoundMovesOn
    <3>3. CASE watchdogDue <= backupGrace
      BY <2>1, <3>3
    <3> QED
      BY <3>1, <3>2, <3>3
  <2>2. CASE watchdogDue' = backupGrace'
    BY <1>0, <2>2, NoLater
  <2>3. CASE now' < grantedUntil'
    BY <1>0, <1>3, <2>3, DueBefore
  <2> QED
    BY <1>4, <2>1, <2>2, <2>3, GuardedStep
<1>5. watchdog'.reply.expires <= grantedUntil'
  <2>1. \/ watchdog'.reply = watchdog.reply
        \/ watchdog'.reply = NoLease(0)
        \/ watchdog'.reply = lease' /\ lease'.holder = Backup
    BY StatusStep
  <2>2. watchdog.reply.expires \in Nat /\ watchdog.reply.expires <= grantedUntil
    BY DEF WatchdogScheduled, BackupTypeOK
  <2> QED
    BY <1>0, <1>2, <2>1, <2>2
<1> QED
  BY <1>2, <1>3, <1>4, <1>5 DEF WatchdogScheduled, Guarded

-----------------------------------------------------------------------------
\* The inductive invariant of the backup host and the witness together.
BackupIInv == /\ WitnessTypeOK /\ BackupTypeOK /\ BackupInv
              /\ MarkerMeansActive /\ MarkerIsWitnessed /\ RuntimeNeedsMarker

LEMMA BackupInitially == Init => BackupIInv
<1> SUFFICES ASSUME Init PROVE BackupIInv
  OBVIOUS
<1>1. WitnessTypeOK /\ now \in Nat /\ lease.epoch # 0 /\ WatchdogBoot \in Nat
  BY WitnessAssumption, BackupAssumption DEF Init, WitnessInit, WitnessTypeOK
<1>2. BackupTypeOK
  <2>1. /\ authority \in AuthorityStates /\ marker \in Nat /\ runtime \subseteq Runtime
        /\ materialized \in BOOLEAN /\ renewing \in BOOLEAN /\ rmFailed \in BOOLEAN
        /\ control \in ControlRuns /\ control.by # "watchdog"
    BY DEF Init, BackupInit
  <2>2. watchdog \in Watching
    BY DEF Init, BackupInit
  <2>3. watchdogDue \in Nat /\ grantedUntil \in Nat /\ backupGrace \in Nat /\ faults \in Nat
    BY <1>1 DEF Init, BackupInit
  <2> QED
    BY <2>1, <2>2, <2>3 DEF BackupTypeOK
<1>3. LeaseInHand /\ MarkerIsWitnessed
  BY <1>1, WitnessAssumption DEF Init, BackupInit, LeaseInHand, MarkerIsWitnessed, Activated
<1>4. ActivationPhases /\ MarkerMeansActive /\ RuntimeNeedsMarker
  BY DEF Init, BackupInit, ActivationPhases, MarkerMeansActive, RuntimeNeedsMarker, Activated
<1>5. WatchdogScheduled
  BY <1>1, WitnessAssumption, BackupAssumption DEF Init, WitnessInit, BackupInit, WatchdogScheduled
<1> QED
  BY <1>1, <1>2, <1>3, <1>4, <1>5 DEF BackupIInv, BackupInv

LEMMA BackupInductive == BackupIInv /\ [Next]_vars => BackupIInv'
<1> SUFFICES ASSUME BackupIInv, [Next]_vars PROVE BackupIInv'
  OBVIOUS
<1> USE DEF BackupIInv, BackupInv
<1>1. /\ grantedUntil \in Nat /\ grantedUntil <= now + LEASE_TTL
      /\ lease.holder = Backup => lease.expires = grantedUntil
  BY DEF BackupTypeOK, WatchdogScheduled
<1>2. WitnessTypeOK' /\ grantedUntil' \in Nat
  BY <1>1, WitnessStep
<1>3. BackupTypeOK'
  BY <1>2, BackupTypeStep
<1>4. LeaseInHand' /\ MarkerIsWitnessed'
  BY <1>1, <1>2, LeaseInHandStep
<1>5. ActivationPhases' /\ MarkerMeansActive' /\ RuntimeNeedsMarker'
  BY <1>2, PhasesStep DEF PhasesOK
<1>6. WatchdogScheduled'
  BY <1>2, <1>3, ScheduleStep
<1> QED
  BY <1>2, <1>3, <1>4, <1>5, <1>6

THEOREM BackupInvariant == Spec => []BackupIInv
BY BackupInitially, BackupInductive, PTL DEF Spec

\* The types of the files, the control command and the watchdog
\* (spot-backup-control.sh, spot-backup-lease-enforce.sh).
THEOREM BackupTypes == Spec => []BackupTypeOK
BY BackupInvariant, PTL DEF BackupIInv

\* The reply in hand, the phases of a control command and the watchdog's
\* schedule are in step (control and watchdog scripts together).
THEOREM BackupInvariantHolds == Spec => []BackupInv
BY BackupInvariant, PTL DEF BackupIInv

\* The activation marker never outlives the authority file (activate_runtime and
\* return_passive), for any number of power losses.
THEOREM MarkerImpliesAuthority == Spec => []MarkerMeansActive
BY BackupInvariant, PTL DEF BackupIInv

\* The epoch in the marker is one the witness gave to the backup
\* (create_activation_marker).
THEOREM MarkerEpochIsWitnessed == Spec => []MarkerIsWitnessed
BY BackupInvariant, PTL DEF BackupIInv

\* Nothing of the runtime is left without the marker unless a docker rm failed
\* (remove_runtime).
THEOREM NoRuntimeWithoutMarker == Spec => []RuntimeNeedsMarker
BY BackupInvariant, PTL DEF BackupIInv

\* The watchdog is in time (spot-backup-lease-enforce.sh and its timer).
THEOREM RollbackInTime == Spec => RollbackBound
<1>1. ASSUME BackupIInv, [Next]_vars,
             now' > now, Activated, ControlFree, watchdog = NoWatch
      PROVE  now' < grantedUntil + WatchdogPeriod \/ now' <= backupGrace
  <2>1. /\ now \in Nat /\ watchdogDue \in Nat /\ grantedUntil \in Nat /\ backupGrace \in Nat
        /\ WatchdogPeriod \in Nat
    BY <1>1, BackupAssumption DEF BackupIInv, WitnessTypeOK, BackupTypeOK
  <2>2. BackupTick
    BY <1>1, <2>1 DEF Next, vars, BackupStep, WitnessElsewhere, RenewPrimary, GrantBackup,
       RevokeBackup, ExpireLease, RenewBackup, Materialize, ActivateStarts, Deactivate,
       WitnessAnswersControl, Activating, LeaseConfirmed, ActivationDenied, ActivationAbandoned,
       Advance, Authorize, CreateMarker, ComposeUp, HealthAnswers, StartMcp, StartBridge,
       ActivationReady, ActivationFails, ReturningPassive, StopServices, RemoveContainer,
       RemoveMarker, Unauthorize, WatchdogLooks, WatchdogReadsMarker, WitnessAnswersWatchdog,
       WatchdogJudges, Judged, WatchdogGoesOn, WatchdogRollsBack,
       RenewTimerFires, RenewalReachesWitness, RenewalLost, PowerLoss
  <2>3. now < watchdogDue /\ now' = now + 1
    BY <1>1, <2>2 DEF BackupTick, WatchdogPrompt, Tick
  <2>4. watchdogDue < grantedUntil + WatchdogPeriod \/ watchdogDue <= backupGrace
    BY <1>1 DEF BackupIInv, BackupInv, WatchdogScheduled, Confirmed
  <2> QED
    BY <2>1, <2>3, <2>4
<1>2. BackupIInv /\ [Next]_vars =>
        [now' > now /\ Activated /\ ControlFree /\ watchdog = NoWatch
           => now' < grantedUntil + WatchdogPeriod \/ now' <= backupGrace]_vars
  BY <1>1, Zenon
<1> QED
  BY <1>2, BackupInvariant, PTL DEF Spec, RollbackBound
=============================================================================
