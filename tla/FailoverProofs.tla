--------------------------- MODULE FailoverProofs ---------------------------
(***************************************************************************)
(* Proofs about the hosts that share the witness, for every lease length,  *)
(* margin, period, delay and bound.                                        *)
(*   1. PrimaryHost: the types, that the lease on file is the witness's,   *)
(*      that a fenced host is quiet, that self-fencing comes in time.      *)
(*   2. FailoverPair: it implements the witness, the primary and the       *)
(*      backup; no epoch is in the hands of both hosts; the time both are  *)
(*      active is bounded.  What BackupProofs shows of the backup is cited *)
(*      from there, under the pair's names.                                *)
(*   3. SharedEndpoint: the types, and that the address is on both hosts   *)
(*      only when their probes overlapped.                                 *)
(***************************************************************************)
EXTENDS FailoverPair, SharedEndpoint, WitnessProofs

USE DEF Hosts, NoLease, LeaseRecord, Observation

\* Every step of the system is a witness command, a tick, or leaves the witness
\* and the clock alone.
LEMMA WitnessOrLocal ==
  ASSUME [Next]_vars
  PROVE  WitnessCommand \/ Tick \/ UNCHANGED <<now, witnessVars>>
BY DEF Next, PrimaryStep, WitnessElsewhere, PrimaryTick, vars, witnessVars, WitnessCommand,
  WitnessAnswersPrimary, RenewTimerFires, StoreRenewal, RenewalFails, GoesAstray, StrayRenewal,
  EnforcerChecks, EnforceSkips, EngageFence, EnforceFence, FenceStep, StopUnits, StopExecutor,
  ReleaseStarts, Releasing, ReleaseChecks, StartWorkers, StartExecutor, HealthAnswers,
  StartServices, Starts, StartFails, Reboot

USE DEF PrimaryUnits, FenceCallers, FenceSteps, NoRenewal, NoFence, Renewals, FenceRuns

\* Every step of the host keeps the types, and with them who waits for whom:
\* a release for its renewal, the enforcement run for its fence command.
LEMMA PrimaryTypeStep ==
  ASSUME WitnessTypeOK, WitnessTypeOK', PrimaryTypeOK, [Next]_vars
  PROVE  PrimaryTypeOK'
<1>1. CASE RenewTimerFires
  BY <1>1 DEF RenewTimerFires, fenceVars, PrimaryTypeOK
<1>2. CASE WitnessAnswersPrimary
  <2>1. lease' \in LeaseRecord
    BY DEF WitnessTypeOK
  <2>2. renewal # NoRenewal
    BY <1>2 DEF WitnessAnswersPrimary
  <2>3. renewal' \in Renewals /\ renewal'.by = renewal.by
    BY <1>2, <2>1, <2>2 DEF WitnessAnswersPrimary, PrimaryTypeOK
  <2> QED
    BY <1>2, <2>3 DEF WitnessAnswersPrimary, fenceVars, PrimaryTypeOK
<1>3. CASE StoreRenewal
  BY <1>3 DEF StoreRenewal, ReleaseResumes, PrimaryTypeOK
<1>4. CASE RenewalFails \/ StrayRenewal
  <2>1. stray' \in BOOLEAN
    BY <1>4, Zenon DEF RenewalFails, GoesAstray, StrayRenewal, PrimaryTypeOK
  <2>2. CASE RenewalFails
    BY <2>1, <2>2 DEF RenewalFails, ReleaseResumes, PrimaryTypeOK
  <2>3. CASE StrayRenewal
    BY <2>1, <2>3 DEF StrayRenewal, fenceVars, PrimaryTypeOK
  <2> QED
    BY <1>4, <2>2, <2>3
<1>5. CASE EnforcerChecks
  BY <1>5, PrimaryAssumption DEF EnforcerChecks, fenceVars, PrimaryTypeOK, WitnessTypeOK
<1>6. CASE EnforceSkips
  BY <1>6 DEF EnforceSkips, FenceFree, fenceVars, PrimaryTypeOK
<1>7. CASE \E by \in {"enforcer", "operator"} : EngageFence(by)
  BY <1>7 DEF EngageFence, FenceFree, PrimaryTypeOK
<1>8. CASE \E by \in {"enforcer", "guard"} : EnforceFence(by)
  BY <1>8 DEF EnforceFence, FenceFree, PrimaryTypeOK
<1>9. CASE StopUnits
  <2>1. stray' \in BOOLEAN
    BY <1>9, Zenon DEF StopUnits, GoesAstray
  <2> QED
    BY <1>9, <2>1 DEF StopUnits, PrimaryTypeOK
<1>10. CASE StopExecutor
  <2>1. PICK updated \in BOOLEAN, stopped \in BOOLEAN :
          /\ autostart' = (autostart /\ ~updated)
          /\ units' = IF stopped THEN units \ {"executor"} ELSE units
          /\ faults' = IF updated /\ stopped THEN faults ELSE faults + 1
    BY <1>10, Zenon DEF StopExecutor
  <2>2. units \subseteq PrimaryUnits /\ faults \in Nat
    BY DEF PrimaryTypeOK
  <2>3. units' \subseteq PrimaryUnits
    BY <2>1, <2>2
  <2>4. faults' \in Nat
    BY <2>1, <2>2
  <2>5. autostart' \in BOOLEAN
    BY <2>1, Zenon
  <2>6. fence' = NoFence /\ enforcer' \in {"idle", "engage", "enforce"}
    BY <1>10 DEF StopExecutor, FenceReturns, PrimaryTypeOK
  <2> QED
    BY <1>10, <2>3, <2>4, <2>5, <2>6 DEF StopExecutor, PrimaryTypeOK
<1>11. CASE ReleaseStarts
  BY <1>11 DEF ReleaseStarts, FenceFree, PrimaryTypeOK
<1>12. CASE Releasing
  <2>1. CASE ReleaseChecks
    <3>1. fenced' \in BOOLEAN
      BY <2>1, Zenon DEF ReleaseChecks, PrimaryTypeOK
    <3>2. units' \subseteq PrimaryUnits
      BY <2>1 DEF ReleaseChecks, PrimaryTypeOK
    <3>3. fence' \in FenceRuns /\ (fence.by = fence'.by \/ fence' = NoFence)
      BY <2>1 DEF ReleaseChecks, PrimaryTypeOK
    <3>4. fence.step # "renew" /\ fence'.step # "renew"
      BY <2>1 DEF ReleaseChecks, PrimaryTypeOK
    <3> QED
      BY <2>1, <3>1, <3>2, <3>3, <3>4 DEF ReleaseChecks, PrimaryTypeOK
  <2>2. ASSUME NEW step \in StartSteps, NEW started \in SUBSET PrimaryUnits,
               NEW next \in FenceRuns, Starts(step, started, next),
               next.by = "enforcer" => fence.by = "enforcer", next.step # "renew"
        PROVE  PrimaryTypeOK'
    <3>1. autostart' = (autostart \/ "executor" \in started)
      BY <2>2 DEF Starts
    <3>2. autostart' \in BOOLEAN
      BY <3>1, Zenon
    <3>3. units' \subseteq PrimaryUnits
      BY <2>2 DEF Starts, PrimaryTypeOK
    <3> QED
      BY <2>2, <3>2, <3>3 DEF Starts, StartSteps, PrimaryTypeOK
  <2>3. CASE StartWorkers
    BY <2>2, <2>3 DEF StartWorkers, Starts, StartSteps, PrimaryTypeOK
  <2>4. CASE StartExecutor
    BY <2>2, <2>4 DEF StartExecutor, Starts, StartSteps, PrimaryTypeOK
  <2>5. CASE HealthAnswers
    BY <2>2, <2>5 DEF HealthAnswers, Starts, StartSteps, PrimaryTypeOK
  <2>6. CASE StartServices
    BY <2>2, <2>6 DEF StartServices, StartSteps
  <2>7. CASE StartFails
    BY <2>7 DEF StartFails, StartSteps, PrimaryTypeOK
  <2> QED
    BY <1>12, <2>1, <2>3, <2>4, <2>5, <2>6, <2>7 DEF Releasing
<1>13. CASE Reboot
  <2>1. stray' \in BOOLEAN
    BY <1>13, Zenon DEF Reboot, GoesAstray
  <2> QED
    BY <1>13, <2>1, PrimaryAssumption DEF Reboot, PrimaryTypeOK, WitnessTypeOK
<1>14. CASE WitnessElsewhere \/ PrimaryTick \/ UNCHANGED vars
  BY <1>14 DEF WitnessElsewhere, PrimaryTick, primaryVars, fenceVars, vars, PrimaryTypeOK
<1> QED
  BY <1>1, <1>2, <1>3, <1>4, <1>5, <1>6, <1>7, <1>8, <1>9, <1>10, <1>11, <1>12, <1>13, <1>14
     DEF Next, PrimaryStep, FenceStep

-----------------------------------------------------------------------------
\* lease-renew: a reply is stored as it came, and only the release's own renewal
\* moves the release on.  Every other step leaves the file alone, and leaves a
\* renewal alone, starts one or ends it.
LEMMA OthersKeepLeases ==
  ASSUME [Next]_vars, ~WitnessAnswersPrimary, ~StoreRenewal
  PROVE  /\ cache' = cache
         /\ \/ renewal' = renewal
            \/ renewal' = NoRenewal
            \/ renewal' \in [by : {"timer", "release"}, phase : {"asked"}, reply : {NoLease(0)}]
<1> USE DEF NoLease
<1>1. CASE PrimaryStep
  BY <1>1 DEF PrimaryStep, RenewTimerFires, RenewalFails, GoesAstray, StrayRenewal,
    EnforcerChecks, EnforceSkips, EngageFence, EnforceFence, FenceStep, StopUnits, StopExecutor,
    ReleaseStarts, Releasing, ReleaseChecks, StartWorkers, StartExecutor, HealthAnswers,
    StartServices, Starts, StartFails, Reboot
<1>2. CASE WitnessElsewhere \/ PrimaryTick \/ UNCHANGED vars
  BY <1>2 DEF WitnessElsewhere, PrimaryTick, primaryVars, vars
<1> QED
  BY <1>1, <1>2 DEF Next

\* What a step does to the clock and to the time the primary was last named.
LEMMA ClockStep ==
  ASSUME WitnessTypeOK, WitnessTypeOK', LeasesInOrder, [Next]_vars
  PROVE  /\ now' = now \/ now' = now + 1
         /\ lease'.expires <= now' + LEASE_TTL
         /\ heldUntil' \in 0 .. now' /\ heldUntil <= heldUntil'
         /\ lease'.holder = Primary => heldUntil' = now'
<1>1. now \in Nat /\ lease \in LeaseRecord /\ LEASE_TTL \in Nat
  BY WitnessAssumption DEF WitnessTypeOK
<1>2. now' = now \/ now' = now + 1
  BY WitnessOrLocal, WitnessMovesForward DEF LeasesInOrder, Tick, witnessVars
<1>3. lease'.expires <= now' + LEASE_TTL
  <2>1. CASE WitnessCommand
    BY <2>1, WitnessMovesForward DEF LeasesInOrder
  <2>2. CASE lease' = lease
    BY <1>1, <1>2, <2>2 DEF LeasesInOrder
  <2> QED
    BY <2>1, <2>2, WitnessOrLocal DEF Tick, witnessVars
<1>4. CASE TrackHolding
  BY <1>1, <1>2, <1>3, <1>4 DEF TrackHolding, LeasesInOrder
<1>5. CASE UNCHANGED vars
  BY <1>1, <1>2, <1>3, <1>5 DEF vars, witnessVars, LeasesInOrder
<1> QED
  BY <1>4, <1>5 DEF Next

\* Every lease was given while the witness named the primary, and a reply in
\* hand is no shorter than the file.
LEMMA LeasesInOrderStep ==
  ASSUME WitnessTypeOK, WitnessTypeOK', PrimaryTypeOK, LeasesInOrder, [Next]_vars
  PROVE  LeasesInOrder'
<1>1. /\ LEASE_TTL \in Nat /\ cache.expires \in Nat
      /\ heldUntil \in Nat /\ heldUntil' \in Nat /\ heldUntil <= heldUntil'
      /\ cache.expires <= heldUntil + LEASE_TTL
  <2>1. LEASE_TTL \in Nat /\ cache.expires \in Nat
    BY WitnessAssumption DEF PrimaryTypeOK
  <2> QED
    BY <2>1, ClockStep DEF LeasesInOrder, WitnessTypeOK
<1>2. \A e \in Nat : e <= heldUntil + LEASE_TTL => e <= heldUntil' + LEASE_TTL
  <2>1. \A a, b, t \in Nat : a <= b => \A e \in Nat : e <= a + t => e <= b + t
    OBVIOUS
  <2> QED
    BY <1>1, <2>1
<1>3. CASE WitnessAnswersPrimary
  <2>1. lease'.expires = now + LEASE_TTL /\ lease'.holder = Primary /\ now' = now
    BY <1>3 DEF WitnessAnswersPrimary, RenewPrimary, RenewHolder
  <2>2. cache' = cache /\ renewal'.reply = lease'
    BY <1>3 DEF WitnessAnswersPrimary, PrimaryTypeOK
  <2>3. heldUntil' = now
    BY <2>1, ClockStep
  <2> QED
    BY <1>1, <1>2, <2>1, <2>2, <2>3, ClockStep DEF LeasesInOrder
<1>4. CASE StoreRenewal
  <2>1. /\ cache' = renewal.reply /\ renewal'.phase # "answered"
        /\ cache'.expires \in Nat /\ cache'.expires <= heldUntil + LEASE_TTL
    BY <1>4 DEF StoreRenewal, LeasesInOrder, PrimaryTypeOK
  <2> QED
    BY <1>1, <1>2, <2>1, ClockStep DEF LeasesInOrder
<1>5. CASE ~WitnessAnswersPrimary /\ ~StoreRenewal
  <2>1. cache' = cache
    BY <1>5, OthersKeepLeases
  <2>2. renewal' = renewal \/ renewal'.phase # "answered"
    BY <1>5, OthersKeepLeases
  <2>3. renewal.phase = "answered" =>
          /\ renewal.reply.expires \in Nat
          /\ cache.expires <= renewal.reply.expires
          /\ renewal.reply.expires <= heldUntil + LEASE_TTL
    BY DEF LeasesInOrder, PrimaryTypeOK
  <2> QED
    BY <1>1, <1>2, <2>1, <2>2, <2>3, ClockStep DEF LeasesInOrder
<1> QED
  BY <1>3, <1>4, <1>5

\* What the witness made of a lease m since it gave out the lease l.
Backs(l, m) == l.holder = Primary => \/ l.epoch < m.epoch
                                     \/ /\ l.epoch = m.epoch
                                        /\ m.holder = Primary
                                        /\ l.expires <= m.expires

\* No step takes the witness back behind a lease it gave to the primary.
LEMMA BackedStaysBacked ==
  ASSUME WitnessTypeOK, WitnessTypeOK', LeasesInOrder, [Next]_vars
  PROVE  \A l \in LeaseRecord : Backs(l, lease) => Backs(l, lease')
<1>1. CASE WitnessCommand
  BY <1>1, WitnessMovesForward, WitnessAssumption DEF LeasesInOrder, Backs, WitnessTypeOK
<1>2. CASE lease' = lease
  BY <1>2
<1> QED
  BY <1>1, <1>2, WitnessOrLocal DEF Tick, witnessVars

\* Every step keeps the file and the reply in hand backed by the witness.
LEMMA CacheIsWitnessedStep ==
  ASSUME WitnessTypeOK, WitnessTypeOK', PrimaryTypeOK, LeasesInOrder, CacheIsWitnessed,
         [Next]_vars
  PROVE  CacheIsWitnessed'
<1>1. Backs(cache, lease) /\ Backs(renewal.reply, lease)
  BY DEF CacheIsWitnessed, WitnessBacks, Backs
<1>2. cache \in LeaseRecord /\ renewal.reply \in LeaseRecord
  BY DEF PrimaryTypeOK
<1>3. Backs(cache, lease') /\ Backs(renewal.reply, lease')
  BY <1>1, <1>2, BackedStaysBacked
<1>4. Backs(NoLease(0), lease')
  BY WitnessAssumption DEF Backs
<1>5. Backs(cache', lease') /\ Backs(renewal'.reply, lease')
  <2>1. CASE WitnessAnswersPrimary
    <3>1. cache' = cache /\ renewal'.reply = lease'
      BY <2>1 DEF WitnessAnswersPrimary, PrimaryTypeOK
    <3>2. Backs(lease', lease')
      BY DEF Backs, WitnessTypeOK
    <3> QED
      BY <1>3, <3>1, <3>2
  <2>2. CASE StoreRenewal
    <3>1. cache' = renewal.reply /\ renewal'.reply = NoLease(0)
      BY <2>2 DEF StoreRenewal
    <3> QED
      BY <1>3, <1>4, <3>1
  <2>3. CASE ~WitnessAnswersPrimary /\ ~StoreRenewal
    <3>1. cache' = cache /\ (renewal' = renewal \/ renewal'.reply = NoLease(0))
      BY <2>3, OthersKeepLeases
    <3> QED
      BY <1>3, <1>4, <3>1
  <2> QED
    BY <2>1, <2>2, <2>3
<1> QED
  BY <1>5 DEF CacheIsWitnessed, WitnessBacks, Backs

-----------------------------------------------------------------------------
\* The fence commands keep their phases: what is stopped stays stopped under
\* the fence, and no timer renewal outlives the step that stops the timer.
LEMMA FencePhasesStep ==
  ASSUME PrimaryTypeOK, FencePhases, [Next]_vars
  PROVE  FencePhases'
<1> USE DEF FencePhases, StartSteps, PrimaryTypeOK
<1>1. CASE RenewTimerFires
  BY <1>1 DEF RenewTimerFires, fenceVars
<1>2. CASE WitnessAnswersPrimary
  BY <1>2 DEF WitnessAnswersPrimary, fenceVars
<1>3. CASE StoreRenewal
  BY <1>3 DEF StoreRenewal, ReleaseResumes
<1>4. CASE RenewalFails \/ StrayRenewal
  <2>1. CASE RenewalFails
    BY <2>1 DEF RenewalFails, ReleaseResumes
  <2>2. CASE StrayRenewal
    <3>1. UNCHANGED <<fenced, units, fence, renewal, faults>>
      BY <2>2 DEF StrayRenewal, fenceVars
    <3> QED
      BY <3>1
  <2> QED
    BY <1>4, <2>1, <2>2
<1>5. CASE EnforcerChecks \/ EnforceSkips
  <2>1. UNCHANGED <<fenced, units, fence, renewal, faults>>
    BY <1>5 DEF EnforcerChecks, EnforceSkips, fenceVars
  <2> QED
    BY <2>1
<1>6. CASE \E by \in {"enforcer", "operator"} : EngageFence(by)
  BY <1>6 DEF EngageFence, FenceFree
<1>7. CASE \E by \in {"enforcer", "guard"} : EnforceFence(by)
  BY <1>7 DEF EnforceFence, FenceFree
<1>8. CASE StopUnits
  <2>1. /\ fenced /\ fenced' = fenced /\ faults' = faults
        /\ fence'.step = "stop_executor"
    BY <1>8 DEF StopUnits
  <2>2. renewal'.by # "timer"
    BY <1>8 DEF StopUnits
  <2>3. units' \subseteq {"executor"}
    BY <1>8 DEF StopUnits
  <2> QED
    BY <2>1, <2>2, <2>3
<1>9. CASE StopExecutor
  <2>1. /\ fence' = NoFence /\ renewal' = renewal
        /\ fence.step = "stop_executor"
        /\ \/ units' = units \ {"executor"} /\ faults' = faults
           \/ faults' = faults + 1
    <3>1. PICK updated \in BOOLEAN, stopped \in BOOLEAN :
            /\ units' = IF stopped THEN units \ {"executor"} ELSE units
            /\ faults' = IF updated /\ stopped THEN faults ELSE faults + 1
      BY <1>9, Zenon DEF StopExecutor
    <3> QED
      BY <1>9, <3>1, Zenon DEF StopExecutor, FenceReturns
  <2>2. units \subseteq {"executor"} /\ (renewal.by = "timer" => ~fenced)
    BY <2>1
  <2>3. fenced' => fenced
    BY <1>9 DEF StopExecutor
  <2>4. faults' = 0 => units' = {}
    <3>1. faults \in Nat
      OBVIOUS
    <3>2. faults' = 0 => units' = units \ {"executor"}
      BY <2>1, <3>1
    <3> QED
      BY <2>2, <3>2
  <2> QED
    BY <2>1, <2>2, <2>3, <2>4
<1>10. CASE ReleaseStarts
  BY <1>10 DEF ReleaseStarts, FenceFree
<1>11. CASE ReleaseChecks
  <2>1. fence.step = "check" /\ fenced /\ renewal.by # "timer" /\ (faults = 0 => units = {})
    BY <1>11 DEF ReleaseChecks
  <2>2. renewal' = renewal /\ faults' = faults
    BY <1>11 DEF ReleaseChecks
  <2>3. CASE LeaseSafe
    <3>1. ~fenced' /\ fence'.step = "start_workers"
      BY <1>11, <2>3 DEF ReleaseChecks
    <3> QED
      BY <3>1
  <2>4. CASE ~LeaseSafe
    <3>1. fence' = NoFence /\ units' = units
      BY <1>11, <2>4 DEF ReleaseChecks
    <3> QED
      BY <2>1, <2>2, <3>1
  <2> QED
    BY <2>3, <2>4
<1>12. CASE StartWorkers \/ StartExecutor \/ HealthAnswers \/ StartServices
  <2>1. ~fenced \/ fence.step \in StartSteps
    BY <1>12 DEF StartWorkers, StartExecutor, HealthAnswers, StartServices, Starts, StartSteps
  <2> QED
    BY <1>12, <2>1 DEF StartWorkers, StartExecutor, HealthAnswers, StartServices, Starts, StartSteps
<1>13. CASE StartFails
  BY <1>13 DEF StartFails, StartSteps
<1>14. CASE Reboot
  <2>1. faults' # 0 /\ fence' = NoFence /\ renewal' = NoRenewal
    BY <1>14 DEF Reboot
  <2> QED
    BY <2>1
<1>15. CASE WitnessElsewhere \/ PrimaryTick \/ UNCHANGED vars
  <2>1. UNCHANGED <<fenced, units, fence, renewal, faults>>
    BY <1>15 DEF WitnessElsewhere, PrimaryTick, primaryVars, fenceVars, vars
  <2> QED
    BY <2>1
<1> QED
  BY <1>1, <1>2, <1>3, <1>4, <1>5, <1>6, <1>7, <1>8, <1>9, <1>10, <1>11, <1>12, <1>13, <1>14,
     <1>15 DEF Next, PrimaryStep, FenceStep, Releasing

\* The enforcement timer keeps its date: on a host that is not fenced the next
\* check was scheduled while the lease on file was live, or at boot.
LEMMA EnforcementScheduledStep ==
  ASSUME WitnessTypeOK, WitnessTypeOK', PrimaryTypeOK, LeasesInOrder, FencePhases,
         EnforcementScheduled, [Next]_vars
  PROVE  EnforcementScheduled'
<1> USE DEF EnforcementScheduled
<1>1. /\ now \in Nat /\ enforceDue \in Nat /\ bootGrace \in Nat /\ cache.expires \in Nat
      /\ EnforcePeriod \in Nat /\ ReleaseMargin \in Nat /\ BootDelay \in Nat
  BY PrimaryAssumption DEF WitnessTypeOK, PrimaryTypeOK
<1>2. now' = now \/ now' = now + 1
  BY ClockStep
<1>3. CASE EnforcerChecks
  <2>1. UNCHANGED <<now, cache, fenced, bootGrace>> /\ enforceDue' = now + EnforcePeriod
    BY <1>3 DEF EnforcerChecks, fenceVars
  <2>2. ~fenced /\ enforcer' # "engage" => cache.expires > now
    BY <1>3 DEF EnforcerChecks, CacheCovers
  <2> QED
    BY <1>1, <2>1, <2>2
<1>4. CASE StoreRenewal
  <2>1. /\ cache' = renewal.reply /\ cache'.expires >= cache.expires /\ cache'.expires \in Nat
        /\ UNCHANGED <<now, enforceDue, bootGrace, fenced, enforcer>>
    BY <1>4 DEF StoreRenewal, LeasesInOrder, PrimaryTypeOK
  <2> QED
    BY <1>1, <2>1
<1>5. CASE ReleaseChecks
  <2>1. UNCHANGED <<now, cache, enforceDue, bootGrace, enforcer>>
    BY <1>5 DEF ReleaseChecks
  <2>2. fenced
    BY <1>5 DEF ReleaseChecks, FencePhases
  <2>3. ~fenced' => LeaseSafe
    BY <1>5, <2>2, Zenon DEF ReleaseChecks
  <2>4. LeaseSafe => cache.expires > now
    BY <1>1 DEF LeaseSafe
  <2> QED
    BY <1>1, <2>1, <2>3, <2>4
<1>6. CASE Reboot
  BY <1>1, <1>6 DEF Reboot
<1>7. CASE StopExecutor
  <2>1. UNCHANGED <<now, cache, enforceDue, bootGrace>> /\ fenced'
    BY <1>7 DEF StopExecutor, FencePhases
  <2> QED
    BY <1>1, <2>1
<1>8. CASE ~EnforcerChecks /\ ~StoreRenewal /\ ~ReleaseChecks /\ ~Reboot /\ ~StopExecutor
  <2>1. UNCHANGED <<cache, enforceDue, bootGrace>> /\ (fenced => fenced')
    BY <1>8 DEF Next, PrimaryStep, RenewTimerFires, WitnessAnswersPrimary, RenewalFails,
      GoesAstray, StrayRenewal, EnforceSkips, EngageFence, EnforceFence, FenceStep, StopUnits,
      ReleaseStarts, Releasing, StartWorkers, StartExecutor, HealthAnswers, StartServices, Starts,
      StartFails, fenceVars, WitnessElsewhere, PrimaryTick, primaryVars, vars
  <2>2. enforcer' = enforcer \/ enforcer = "enforce"
    BY <1>8 DEF Next, PrimaryStep, RenewTimerFires, WitnessAnswersPrimary, RenewalFails,
      GoesAstray, StrayRenewal, EnforceSkips, EngageFence, EnforceFence, FenceStep, StopUnits,
      ReleaseStarts, Releasing, StartWorkers, StartExecutor, HealthAnswers, StartServices, Starts,
      StartFails, fenceVars, WitnessElsewhere, PrimaryTick, primaryVars, vars
  <2>3. ~fenced' /\ enforcer' # "engage" => ~fenced /\ enforcer # "engage"
    BY <2>1, <2>2
  <2>4. cache' = cache /\ enforceDue' = enforceDue /\ bootGrace' = bootGrace
    BY <2>1
  <2>5. enforceDue <= now + EnforcePeriod \/ enforceDue <= bootGrace
    OBVIOUS
  <2>6. enforceDue <= now' + EnforcePeriod \/ enforceDue <= bootGrace
    BY <1>1, <1>2, <2>5
  <2> QED
    BY <2>3, <2>4, <2>6
<1> QED
  BY <1>3, <1>4, <1>5, <1>6, <1>7, <1>8

-----------------------------------------------------------------------------
\* Everything the theorems rest on, inductive as it stands.
HostInv == WitnessTypeOK /\ PrimaryTypeOK /\ PrimaryInv /\ CacheIsWitnessed

LEMMA HostInvInit == Init => HostInv
<1> SUFFICES ASSUME Init
             PROVE  HostInv
  OBVIOUS
<1> USE WitnessAssumption, PrimaryAssumption DEF Init, WitnessInit, PrimaryInit
<1>1. WitnessTypeOK
  BY DEF WitnessTypeOK
<1>2. PrimaryTypeOK
  <2>1. fenced \in BOOLEAN /\ autostart \in BOOLEAN /\ stray \in BOOLEAN
    BY Zenon
  <2>2. units \subseteq PrimaryUnits
    OBVIOUS
  <2> QED
    BY <2>1, <2>2 DEF PrimaryTypeOK
<1>3. LeasesInOrder /\ EnforcementScheduled
  BY DEF LeasesInOrder, EnforcementScheduled
<1>4. FencePhases
  BY DEF FencePhases, StartSteps
<1>5. CacheIsWitnessed
  BY DEF CacheIsWitnessed, WitnessBacks
<1> QED
  BY <1>1, <1>2, <1>3, <1>4, <1>5 DEF HostInv, PrimaryInv

LEMMA HostInvStep == HostInv /\ [Next]_vars => HostInv'
<1> SUFFICES ASSUME HostInv, [Next]_vars
             PROVE  HostInv'
  OBVIOUS
<1> USE DEF HostInv, PrimaryInv
<1>1. WitnessTypeOK'
  <2>1. CASE WitnessCommand
    BY <2>1, WitnessMovesForward DEF LeasesInOrder
  <2>2. CASE Tick \/ UNCHANGED <<now, witnessVars>>
    BY <2>2 DEF Tick, witnessVars, WitnessTypeOK
  <2> QED
    BY <2>1, <2>2, WitnessOrLocal
<1> QED
  BY <1>1, PrimaryTypeStep, LeasesInOrderStep, FencePhasesStep, EnforcementScheduledStep,
     CacheIsWitnessedStep

\* The inductive invariant holds of every behaviour of the host.
THEOREM HostInvariant == Spec => []HostInv
BY HostInvInit, HostInvStep, PTL DEF Spec

\* The types of the host, and who waits for whom (renew, enforce and fence).
THEOREM PrimaryTypes == Spec => []PrimaryTypeOK
BY HostInvariant, PTL DEF HostInv

\* The lease the primary has on file is the witness's (lease-renew).
THEOREM LeaseOnFileIsWitnessed == Spec => []CacheIsWitnessed
BY HostInvariant, PTL DEF HostInv

\* Leases, fence commands and the enforcement timer are in step with the
\* witness and the clock (fence, renew and enforce together).
THEOREM PrimaryInvariantHolds == Spec => []PrimaryInv
BY HostInvariant, PTL DEF HostInv

\* Behind the fence nothing renews and, without faults, nothing runs (fence.sh).
THEOREM FenceIsQuiet == Spec => []FencedHostIsQuiet
<1>1. HostInv => FencedHostIsQuiet
  BY DEF HostInv, PrimaryInv, PrimaryTypeOK, FencePhases, FencedHostIsQuiet, FenceFree
<1> QED
  BY <1>1, HostInvariant, PTL

\* A tick of the clock finds a host that is not fenced either covered by its
\* lease on file, or at most a period later, or just booted.
LEMMA TickFindsCovered ==
  ASSUME HostInv, [Next]_vars, now' > now, ~fenced, FenceFree
  PROVE  now' < cache.expires + EnforcePeriod \/ now' <= bootGrace
<1>1. /\ now \in Nat /\ enforceDue \in Nat /\ bootGrace \in Nat /\ cache.expires \in Nat
      /\ EnforcePeriod \in Nat /\ enforcer \in {"idle", "engage", "enforce"}
  BY PrimaryAssumption DEF HostInv, WitnessTypeOK, PrimaryTypeOK
<1>2. ~WitnessCommand /\ ~UNCHANGED <<now, witnessVars>>
  BY <1>1, WitnessMovesForward DEF HostInv, PrimaryInv, LeasesInOrder
<1>3. PrimaryTick /\ now' = now + 1
  BY <1>1, <1>2 DEF Next, PrimaryStep, WitnessElsewhere, PrimaryTick, Tick, vars, witnessVars,
    WitnessCommand, WitnessAnswersPrimary, RenewTimerFires, StoreRenewal, RenewalFails,
    GoesAstray, StrayRenewal, EnforcerChecks, EnforceSkips, EngageFence, EnforceFence, FenceStep,
    StopUnits, StopExecutor, ReleaseStarts, Releasing, ReleaseChecks, StartWorkers, StartExecutor,
    HealthAnswers, StartServices, Starts, StartFails, Reboot
<1>4. enforcer = "idle" /\ now < enforceDue
  BY <1>3 DEF PrimaryTick, EnforcementPrompt
<1>5. enforceDue < cache.expires + EnforcePeriod \/ enforceDue <= bootGrace
  BY <1>4 DEF HostInv, PrimaryInv, EnforcementScheduled
<1> QED
  BY <1>1, <1>3, <1>4, <1>5

\* Self-fencing comes within a period of the end of the lease (lease-enforce).
THEOREM SelfFencingInTime == Spec => SelfFenceBound
<1>1. HostInv /\ [Next]_vars
        => [now' > now /\ ~fenced /\ FenceFree
              => now' < cache.expires + EnforcePeriod \/ now' <= bootGrace]_vars
  BY TickFindsCovered
<1> QED
  BY <1>1, HostInvariant, PTL DEF Spec, SelfFenceBound

\* A primary that the witness displaced is fenced within a lease and a period
\* (grant-backup and expire-lease against lease-enforce).
THEOREM DisplacementEnds == Spec => DisplacedPrimaryFences
<1>1. HostInv /\ [Next]_vars
        => [now' > now /\ ~fenced /\ FenceFree
              => now' < heldUntil + LEASE_TTL + EnforcePeriod \/ now' <= bootGrace]_vars
  <2> SUFFICES ASSUME HostInv, [Next]_vars, now' > now, ~fenced, FenceFree
               PROVE  now' < heldUntil + LEASE_TTL + EnforcePeriod \/ now' <= bootGrace
    OBVIOUS
  <2>1. /\ now' = now \/ now' = now + 1
        /\ now \in Nat /\ bootGrace \in Nat /\ cache.expires \in Nat /\ heldUntil \in Nat
        /\ EnforcePeriod \in Nat /\ LEASE_TTL \in Nat
    BY ClockStep, HostInvStep, PrimaryAssumption, WitnessAssumption
       DEF HostInv, PrimaryInv, LeasesInOrder, WitnessTypeOK, PrimaryTypeOK
  <2>2. cache.expires <= heldUntil + LEASE_TTL
    BY DEF HostInv, PrimaryInv, LeasesInOrder
  <2> QED
    BY <2>1, <2>2, TickFindsCovered
<1> QED
  BY <1>1, HostInvariant, PTL DEF Spec, DisplacedPrimaryFences

-----------------------------------------------------------------------------
(* FailoverPair.                                                           *)

\* The theorems of BackupProofs, of the backup of the pair.
BB == INSTANCE BackupProofs WITH faults <- backupFaults

LEMMA BackupConstants == BB!WitnessAssumption /\ BB!BackupAssumption
<1>1. BB!WitnessAssumption
  BY WitnessAssumption DEF BB!WitnessAssumption, WitnessAssumption, BB!Hosts
<1>2. BB!BackupAssumption
  BY PairAssumption, PrimaryAssumption DEF BB!BackupAssumption
<1> QED
  BY <1>1, <1>2

\* The backup's scripts reach the lease by renew-backup only.
LEMMA BackupAsksOrLeavesAlone ==
  ASSUME B!BackupStep
  PROVE  RenewBackup \/ UNCHANGED <<now, witnessVars>>
BY DEF B!BackupStep, B!Materialize, B!ActivateStarts, B!Deactivate, B!WitnessAnswersControl,
   B!Activating, B!LeaseConfirmed, B!ActivationDenied, B!ActivationAbandoned, B!Advance,
   B!Authorize, B!CreateMarker, B!ComposeUp, B!HealthAnswers, B!StartMcp, B!StartBridge,
   B!ActivationReady, B!ActivationFails, B!ReturningPassive, B!StopServices, B!RemoveContainer,
   B!RemoveMarker, B!Unauthorize, B!WatchdogLooks, B!WatchdogReadsMarker, B!WitnessAnswersWatchdog,
   B!WatchdogJudges, B!Judged, B!WatchdogGoesOn, B!WatchdogRollsBack,
   B!RenewTimerFires, B!RenewalReachesWitness, B!RenewalLost, B!PowerLoss, B!RenewBackup,
   RenewBackup, B!RenewHolder, RenewHolder, B!HeldBy, HeldBy, B!Live, Live, B!witnessVars,
   witnessVars, B!Init

\* What joins the hosts: a lease that names somebody was given within the bound
\* of the epochs, and the backup's last one ends when the witness says.
PairLinks == /\ lease.holder # None => lease.epoch <= MaxEpoch
             /\ lease.holder = Backup => lease.expires = grantedUntil

\* What every step of the pair is to the primary: its own, a witness command of
\* somebody else, or nothing.
LEMMA PairStepsPrimary ==
  ASSUME HostInv, PairLinks, [PairNext]_pairVars
  PROVE  [Next]_vars
<1>1. CASE PrimaryActs /\ TrackHolding
  BY <1>1 DEF PrimaryActs, Next
<1>2. CASE BackupActs /\ TrackHolding
  <2>1. UNCHANGED primaryVars
    BY <1>2 DEF BackupActs
  <2>2. CASE RenewBackup
    <3>1. lease.holder = Backup /\ lease'.epoch = lease.epoch
      BY <2>2 DEF RenewBackup, RenewHolder, HeldBy
    <3>2. lease'.epoch <= MaxEpoch
      BY <3>1, WitnessAssumption DEF PairLinks
    <3> QED
      BY <1>2, <2>1, <2>2, <3>2 DEF Next, WitnessElsewhere
  <2>3. CASE UNCHANGED <<now, witnessVars>>
    <3>1. heldUntil' = heldUntil
      BY <1>2, <2>3 DEF TrackHolding, HostInv, PrimaryInv, LeasesInOrder, witnessVars
    <3> QED
      BY <2>1, <2>3, <3>1 DEF vars
  <2> QED
    BY <1>2, <2>2, <2>3, BackupAsksOrLeavesAlone DEF BackupActs
<1>3. CASE WitnessActs /\ TrackHolding
  BY <1>3 DEF WitnessActs, Next, WitnessElsewhere
<1>4. CASE PairTick /\ TrackHolding
  BY <1>4 DEF PairTick, Next, PrimaryTick
<1>5. CASE UNCHANGED pairVars
  BY <1>5 DEF pairVars
<1> QED
  BY <1>1, <1>2, <1>3, <1>4, <1>5 DEF PairNext

\* The primary's scripts reach the lease by renew-primary only.
LEMMA PrimaryAsksOrLeavesAlone ==
  ASSUME PrimaryStep
  PROVE  \/ RenewPrimary /\ lease'.epoch <= MaxEpoch
         \/ UNCHANGED <<now, witnessVars>>
BY DEF PrimaryStep, WitnessAnswersPrimary, RenewTimerFires, StoreRenewal, RenewalFails,
  GoesAstray, StrayRenewal, EnforcerChecks, EnforceSkips, EngageFence, EnforceFence, FenceStep,
  StopUnits, StopExecutor, ReleaseStarts, Releasing, ReleaseChecks, StartWorkers, StartExecutor,
  HealthAnswers, StartServices, Starts, StartFails, Reboot

\* What every step of the pair is to the witness.
LEMMA PairStepsWitness ==
  ASSUME PairLinks, [PairNext]_pairVars
  PROVE  [WitnessNext]_<<now, witnessVars>>
<1>1. CASE PrimaryActs
  BY <1>1, PrimaryAsksOrLeavesAlone DEF PrimaryActs, WitnessNext, WitnessCommand
<1>2. CASE RenewBackup
  <2>1. lease.holder = Backup /\ lease'.epoch = lease.epoch
    BY <1>2 DEF RenewBackup, RenewHolder, HeldBy
  <2> QED
    BY <1>2, <2>1, WitnessAssumption DEF PairLinks, WitnessNext, WitnessCommand
<1>3. CASE WitnessActs
  BY <1>3 DEF WitnessActs, WitnessNext, WitnessCommand
<1>4. CASE PairTick
  BY <1>4 DEF PairTick, WitnessNext
<1>5. CASE UNCHANGED <<now, witnessVars>>
  BY <1>5
<1> QED
  BY <1>1, <1>2, <1>3, <1>4, <1>5, BackupAsksOrLeavesAlone
     DEF PairNext, BackupActs, pairVars, vars

\* The links hold from the start and over every step.
LEMMA PairLinksStep ==
  ASSUME WitnessTypeOK, WitnessTypeOK', PairLinks, [PairNext]_pairVars
  PROVE  PairLinks'
<1>1. lease'.holder # None => lease'.epoch <= MaxEpoch
  <2>1. [WitnessNext]_<<now, witnessVars>>
    BY PairStepsWitness
  <2>2. lease' = lease \/ lease'.epoch <= MaxEpoch
    BY <2>1 DEF WitnessNext, Observe, Tick, witnessVars
  <2> QED
    BY <2>2 DEF PairLinks
<1>2. lease'.holder = Backup => lease'.expires = grantedUntil'
  <2>1. CASE B!TrackGrants
    BY <2>1 DEF B!TrackGrants
  <2>2. CASE UNCHANGED pairVars
    BY <2>2 DEF pairVars, vars, witnessVars, PairLinks
  <2> QED
    BY <2>1, <2>2 DEF PairNext
<1> QED
  BY <1>1, <1>2 DEF PairLinks

PairInv == HostInv /\ PairLinks

THEOREM PairInvariant == PairSpec => []PairInv
<1>1. PairInit => PairInv
  <2> SUFFICES ASSUME PairInit
               PROVE  PairInv
    OBVIOUS
  <2>1. HostInv
    BY HostInvInit DEF PairInit
  <2>2. lease.holder = None
    BY DEF PairInit, Init, WitnessInit
  <2> QED
    BY <2>1, <2>2, WitnessAssumption DEF PairInv, PairLinks
<1>2. PairInv /\ [PairNext]_pairVars => PairInv'
  <2> SUFFICES ASSUME PairInv, [PairNext]_pairVars
               PROVE  PairInv'
    OBVIOUS
  <2>1. HostInv'
    BY PairStepsPrimary, HostInvStep DEF PairInv
  <2>2. PairLinks'
    BY <2>1, PairLinksStep DEF PairInv, HostInv
  <2> QED
    BY <2>1, <2>2 DEF PairInv
<1> QED
  BY <1>1, <1>2, PTL DEF PairSpec

\* The witness of the pair is the witness (spot-witness-authority.sh is asked by
\* the hosts, the operator and the expiry timer alike).
THEOREM PairImplementsWitness == PairSpec => WitnessSpec
<1>1. PairInit => WitnessInit
  BY DEF PairInit, Init
<1>2. PairInv /\ [PairNext]_pairVars => [WitnessNext]_<<now, witnessVars>>
  BY PairStepsWitness DEF PairInv
<1> QED
  BY <1>1, <1>2, PairInvariant, PTL DEF PairSpec, WitnessSpec

\* The primary of the pair is PrimaryHost, the backup's grants and renewals being
\* what it calls WitnessElsewhere (primary scripts next to the backup's).
THEOREM PairImplementsPrimary == PairSpec => Spec
<1>1. PairInit => Init
  BY DEF PairInit
<1>2. PairInv /\ [PairNext]_pairVars => [Next]_vars
  BY PairStepsPrimary DEF PairInv
<1> QED
  BY <1>1, <1>2, PairInvariant, PTL DEF PairSpec, Spec

\* Both hosts together keep the tenures of the witness: an epoch names one
\* holder, and the primary never displaces a live backup (renew_primary).
THEOREM PairKeepsTenures == PairSpec => WitnessKeepsTenures
BY PairImplementsWitness, WitnessImplementsTenure, PTL

\* What every step of the pair is to the backup.
LEMMA PairStepsBackup ==
  ASSUME PairInv, [PairNext]_pairVars
  PROVE  [B!Next]_B!vars
<1> USE DEF B!backupVars, B!files, B!watchVars, B!witnessVars, witnessVars, backupState
<1>1. CASE BackupActs /\ B!TrackGrants
  BY <1>1 DEF BackupActs, B!Next
<1>2. CASE (PrimaryActs \/ WitnessActs \/ PairTick) /\ B!TrackGrants
  <2> UNCHANGED backupState
    BY <1>2 DEF PrimaryActs, WitnessActs, PairTick
  <2>1. CASE UNCHANGED <<now, witnessVars>>
    <3>1. grantedUntil' = grantedUntil
      BY <1>2, <2>1 DEF B!TrackGrants, PairInv, PairLinks
    <3> QED
      BY <1>2, <2>1, <3>1 DEF B!vars
  <2>2. CASE /\ RenewPrimary \/ GrantBackup \/ RevokeBackup \/ ExpireLease
             /\ lease'.epoch <= MaxEpoch
    <3>1. B!RenewPrimary \/ B!GrantBackup \/ B!RevokeBackup \/ B!ExpireLease
      BY <2>2 DEF RenewPrimary, GrantBackup, RevokeBackup, ExpireLease, RenewHolder, HeldBy, Live,
         GrantAllowed, B!RenewPrimary, B!GrantBackup, B!RevokeBackup, B!ExpireLease,
         B!RenewHolder, B!HeldBy, B!Live, B!GrantAllowed, B!NoLease
    <3> QED
      BY <1>2, <2>2, <3>1 DEF B!Next, B!WitnessElsewhere
  <2>3. CASE PairTick
    BY <1>2, <2>3 DEF PairTick, Tick, B!Next, B!BackupTick, B!Tick
  <2> QED
    BY <1>2, <2>1, <2>2, <2>3, PrimaryAsksOrLeavesAlone DEF PrimaryActs, WitnessActs
<1>3. CASE UNCHANGED pairVars
  BY <1>3 DEF pairVars, vars, B!vars
<1> QED
  BY <1>1, <1>2, <1>3 DEF PairNext

\* The names of BackupProofs for the backup of the pair are those of FailoverPair.
LEMMA SameBackup == /\ B!Init => BB!Init
                    /\ [B!Next]_B!vars => [BB!Next]_BB!vars
<1>1. B!Init => BB!Init
  BY DEF B!Init, BB!Init, B!WitnessInit, BB!WitnessInit, B!BackupInit, BB!BackupInit, B!NoLease,
     BB!NoLease, B!NoControl, BB!NoControl, B!NoWatch, BB!NoWatch
<1>2. [B!Next]_B!vars => [BB!Next]_BB!vars
  BY DEF B!Next, BB!Next, B!BackupStep, BB!BackupStep, B!Materialize, BB!Materialize, B!Activated,
    BB!Activated, B!witnessVars, BB!witnessVars, B!watchVars, BB!watchVars, B!ActivateStarts,
    BB!ActivateStarts, B!ControlFree, BB!ControlFree, B!NoControl, BB!NoControl, B!NoLease,
    BB!NoLease, B!files, BB!files, B!Deactivate, BB!Deactivate, B!WitnessAnswersControl,
    BB!WitnessAnswersControl, B!Asking, BB!Asking, B!Answered, BB!Answered, B!RenewBackup,
    BB!RenewBackup, B!HeldBy, BB!HeldBy, B!Live, BB!Live, B!RenewHolder, BB!RenewHolder,
    B!Activating, BB!Activating, B!LeaseConfirmed, BB!LeaseConfirmed, B!LeaseAccepted,
    BB!LeaseAccepted, B!ActivationDenied, BB!ActivationDenied, B!ActivationAbandoned,
    BB!ActivationAbandoned, B!Authorize, BB!Authorize, B!Advance, BB!Advance, B!CreateMarker,
    BB!CreateMarker, B!ComposeUp, BB!ComposeUp, B!HealthAnswers, BB!HealthAnswers, B!StartMcp,
    BB!StartMcp, B!StartBridge, BB!StartBridge, B!ActivationReady, BB!ActivationReady,
    B!ActivationFails, BB!ActivationFails, B!ReturningPassive, BB!ReturningPassive,
    B!StopServices, BB!StopServices, B!Services, BB!Services, B!RemoveContainer,
    BB!RemoveContainer, B!RemoveMarker, BB!RemoveMarker, B!Unauthorize, BB!Unauthorize, B!NoWatch,
    BB!NoWatch, B!WatchdogLooks, BB!WatchdogLooks, B!WatchdogReadsMarker, BB!WatchdogReadsMarker,
    B!WitnessAnswersWatchdog, BB!WitnessAnswersWatchdog, B!WatchdogGoesOn, BB!WatchdogGoesOn,
    B!Judged, BB!Judged, B!StatusValid, BB!StatusValid, B!WatchdogJudges, BB!WatchdogJudges,
    B!Runtime, BB!Runtime, B!WatchdogRollsBack, BB!WatchdogRollsBack, B!RenewTimerFires,
    BB!RenewTimerFires, B!RenewalReachesWitness, BB!RenewalReachesWitness, B!RenewalLost,
    BB!RenewalLost, B!PowerLoss, BB!PowerLoss, B!WitnessElsewhere, BB!WitnessElsewhere,
    B!RenewPrimary, BB!RenewPrimary, B!GrantBackup, BB!GrantBackup, B!GrantAllowed,
    BB!GrantAllowed, B!RevokeBackup, BB!RevokeBackup, B!ExpireLease, BB!ExpireLease, B!backupVars,
    BB!backupVars, B!BackupTick, BB!BackupTick, B!WatchdogPrompt, BB!WatchdogPrompt, B!Tick,
    BB!Tick, B!TrackGrants, BB!TrackGrants, B!vars, BB!vars
<1> QED
  BY <1>1, <1>2

LEMMA PairStartsBackup == PairInit => B!Init
BY DEF PairInit, Init, WitnessInit, NoLease, B!Init, B!WitnessInit, B!NoLease

\* The backup of the pair is BackupHost, the primary's renewals being what it
\* calls WitnessElsewhere (backup scripts next to the primary's).
THEOREM PairImplementsBackup == PairSpec => B!Spec
<1>1. PairInv /\ [PairNext]_pairVars => [B!Next]_B!vars
  BY PairStepsBackup
<1> QED
  BY <1>1, PairStartsBackup, PairInvariant, PTL DEF PairSpec, B!Spec

\* What BackupProofs shows of the backup holds of the backup of the pair.
LEMMA PairHasBackup ==
  PairSpec => []BB!BackupIInv /\ BB!RollbackBound
<1>1. PairInit => BB!Init
  BY PairStartsBackup, SameBackup
<1>2. PairInv /\ [PairNext]_pairVars => [BB!Next]_BB!vars
  BY PairStepsBackup, SameBackup
<1>3. PairSpec => BB!Spec
  BY <1>1, <1>2, PairInvariant, PTL DEF PairSpec, BB!Spec
<1>4. BB!WitnessAssumption /\ BB!BackupAssumption
  BY BackupConstants
<1>5. BB!Spec => []BB!BackupIInv
  BY <1>4, BB!BackupInvariant
<1>6. BB!Spec => BB!RollbackBound
  BY <1>4, BB!RollbackInTime
<1> QED
  BY <1>3, <1>5, <1>6, PTL

-----------------------------------------------------------------------------
(* Epochs as fencing tokens.                                               *)

\* A host gets a new epoch from the witness only, in the answer that names it
\* (lease-renew's cache is a reply, the marker of activate_runtime has a reply's).
LEMMA PrimaryTokensGrow ==
  ASSUME HostInv, [Next]_vars
  PROVE  \A e \in PrimaryTokens' :
           e \in PrimaryTokens \/ (e = lease'.epoch /\ lease'.holder = Primary)
<1>1. CASE WitnessAnswersPrimary
  <2>1. cache' = cache /\ renewal'.reply = lease' /\ lease'.holder = Primary
    BY <1>1 DEF WitnessAnswersPrimary, RenewPrimary, RenewHolder, HostInv, PrimaryTypeOK
  <2> QED
    BY <2>1 DEF PrimaryTokens
<1>2. CASE StoreRenewal
  <2>1. cache' = renewal.reply /\ renewal'.reply.holder # Primary
    BY <1>2, WitnessAssumption DEF StoreRenewal
  <2> QED
    BY <2>1 DEF PrimaryTokens
<1>3. CASE ~WitnessAnswersPrimary /\ ~StoreRenewal
  <2>1. cache' = cache /\ (renewal' = renewal \/ renewal'.reply.holder # Primary)
    BY <1>3, OthersKeepLeases, WitnessAssumption
  <2> QED
    BY <2>1 DEF PrimaryTokens
<1> QED
  BY <1>1, <1>2, <1>3

LEMMA BackupTokensGrow ==
  ASSUME BB!BackupIInv, BB!BackupIInv', [BB!Next]_BB!vars
  PROVE  \A e \in BackupTokens' :
           e \in BackupTokens \/ (e = lease'.epoch /\ lease'.holder = Backup)
<1>1. BB!WitnessAssumption /\ BB!BackupAssumption
  BY BackupConstants
<1>2. BB!WitnessTypeOK' /\ BB!BackupTypeOK /\ BB!ActivationPhases
  BY DEF BB!BackupIInv, BB!BackupInv
<1>3. /\ \/ control'.reply = control.reply
         \/ control'.reply.holder # Backup
         \/ control'.reply = lease' /\ lease'.holder = Backup
      /\ \/ marker' \in {marker, 0}
         \/ marker' = control.reply.epoch /\ control.reply.holder = Backup
  BY <1>1, <1>2, BB!ReplyStep, WitnessAssumption DEF BB!NoLease
<1> QED
  BY <1>3 DEF BackupTokens

\* A token both hosts hold after a step is old for both, or the one the witness
\* has just given to one of them, and then not spent by the other.
LEMMA TokensDistinctStep ==
  ASSUME HostInv, HostInv', BB!BackupIInv, BB!BackupIInv', TokensDistinct,
         [Next]_vars, [BB!Next]_BB!vars
  PROVE  TokensDistinct'
<1>1. \A e \in PrimaryTokens' : e < lease'.epoch \/ lease'.holder = Primary
  BY DEF HostInv, CacheIsWitnessed, WitnessBacks, PrimaryTokens
<1>2. \A e \in BackupTokens' : e < lease'.epoch \/ lease'.holder = Backup
  BY DEF BB!BackupIInv, BB!BackupInv, BB!LeaseInHand, BB!MarkerIsWitnessed, BB!Activated,
     BB!Granted, BackupTokens
<1>3. lease'.epoch \in Nat
  BY DEF HostInv, WitnessTypeOK
<1> SUFFICES ASSUME NEW e \in PrimaryTokens', e \in BackupTokens'
             PROVE  FALSE
  BY DEF TokensDistinct
<1>4. ~ (e \in PrimaryTokens /\ e \in BackupTokens)
  BY DEF TokensDistinct
<1>5. e # lease'.epoch
  BY <1>1, <1>2, <1>3, WitnessAssumption
<1> QED
  BY <1>4, <1>5, PrimaryTokensGrow, BackupTokensGrow

\* No epoch is ever in the hands of both hosts, whatever they crash into and
\* however late replies come: epochs serve as fencing tokens (renew_holder).
THEOREM TokensNeverShared == PairSpec => []TokensDistinct
<1>1. PairInit => TokensDistinct
  <2>1. PairInit => cache.holder # Primary /\ renewal.reply.holder # Primary
    BY WitnessAssumption DEF PairInit, Init, PrimaryInit
  <2> QED
    BY <2>1 DEF TokensDistinct, PrimaryTokens
<1>2. TokensDistinct /\ HostInv /\ HostInv' /\ BB!BackupIInv /\ BB!BackupIInv'
        /\ [Next]_vars /\ [BB!Next]_BB!vars
        => TokensDistinct'
  BY TokensDistinctStep
<1>3. PairInv /\ [PairNext]_pairVars => HostInv /\ [Next]_vars /\ [BB!Next]_BB!vars
  BY PairStepsPrimary, PairStepsBackup, SameBackup DEF PairInv
<1>4. PairInv => HostInv
  BY DEF PairInv
<1> QED
  BY <1>1, <1>2, <1>3, <1>4, PairInvariant, PairHasBackup, PTL DEF PairSpec

\* Two active hosts do not stay: the primary's fence and the backup's rollback
\* are each due (lease-enforce on either host, with its timer).
THEOREM OverlapBounded == PairSpec => OverlapBound
<1>1. /\ PairInv
      /\ [now' > now /\ ~fenced /\ FenceFree
            => now' < heldUntil + LEASE_TTL + EnforcePeriod \/ now' <= bootGrace]_vars
      /\ [now' > now /\ BB!Activated /\ BB!ControlFree /\ watchdog = BB!NoWatch
            => now' < grantedUntil + WatchdogPeriod \/ now' <= backupGrace]_BB!vars
      => [now' > now /\ BothActive =>
            /\ now' < heldUntil + LEASE_TTL + EnforcePeriod \/ now' <= bootGrace
            /\ now' < grantedUntil + WatchdogPeriod \/ now' <= backupGrace]_pairVars
  <2>1. PairInv /\ now' > now => now' # now
    BY DEF PairInv, HostInv, WitnessTypeOK
  <2>2. now' # now => vars' # vars /\ BB!vars' # BB!vars
    BY DEF vars, BB!vars
  <2> QED
    BY <2>1, <2>2, Zenon DEF BothActive, BB!Activated, BB!ControlFree, B!ControlFree, B!NoWatch,
      BB!NoWatch, BB!NoControl, B!NoControl, B!NoLease, BB!NoLease
<1>2. PairSpec => DisplacedPrimaryFences
  BY PairImplementsPrimary, DisplacementEnds, PTL
<1> QED
  BY <1>1, <1>2, PairInvariant, PairHasBackup, PTL DEF DisplacedPrimaryFences, BB!RollbackBound,
    OverlapBound

-----------------------------------------------------------------------------
(* SharedEndpoint.                                                         *)

\* What makes HeldAlone inductive: a probe runs for at most its time, and an
\* address that appears on the other host meanwhile is younger than the probe.
ProbesInTime ==
  \A h \in Hosts :
    /\ acquired[h] <= now
    /\ pass[h].step = "probe" =>
         /\ pass[h].since <= now
         /\ now <= pass[h].since + ProbeTime
         /\ Other(h) \in address => pass[h].since <= acquired[Other(h)]

EndpointInv == EndpointTypeOK /\ ProbesInTime /\ HeldAlone

LEMMA OtherHost ==
  \A h \in Hosts : Other(h) \in Hosts /\ Other(h) # h /\ Other(Other(h)) = h
BY WitnessAssumption DEF Other

\* A step of the script leaves the clock and the witness alone.
LEMMA EndpointStepsLocal ==
  ASSUME NEW h \in Hosts, EndpointStep(h)
  PROVE  UNCHANGED <<now, witnessVars>>
BY DEF EndpointStep, PassStep, PassStarts, WitnessAnswers, EnforceDecides, AcquireDecides,
   AcquireFails, AddAddress, Release, LocalStateChanges, Reboots

LEMMA EndpointInitially == EndpointInit => EndpointInv
<1> SUFFICES ASSUME EndpointInit
             PROVE  EndpointInv
  OBVIOUS
<1>1. WitnessTypeOK
  BY DEF EndpointInit, WitnessInit, WitnessTypeOK
<1>2. EndpointTypeOK
  BY <1>1 DEF EndpointInit, EndpointTypeOK, NoPass, Asking, Passes, Steps, Replies
<1>3. ProbesInTime /\ HeldAlone
  BY <1>1 DEF EndpointInit, ProbesInTime, HeldAlone, NoPass, Asking, WitnessTypeOK
<1> QED
  BY <1>2, <1>3 DEF EndpointInv

\* A pass goes on to a step that is no probe, and the address of no host appears.
LEMMA PassGoesOn ==
  ASSUME EndpointInv, UNCHANGED <<now, witnessVars>>, NEW h \in Hosts, NEW next \in Passes,
         next.step # "probe", Goto(h, next),
         address' \in SUBSET address, allowed' \subseteq Hosts, acquired' = acquired
  PROVE  EndpointInv'
<1>1. pass' \in [Hosts -> Passes] /\ pass'[h] = next /\ \A g \in Hosts \ {h} : pass'[g] = pass[g]
  BY DEF EndpointInv, EndpointTypeOK, Goto
<1>2. WitnessTypeOK'
  BY DEF EndpointInv, EndpointTypeOK, WitnessTypeOK, witnessVars
<1>3. EndpointTypeOK'
  BY <1>1, <1>2 DEF EndpointInv, EndpointTypeOK
<1>4. ProbesInTime'
  BY <1>1 DEF EndpointInv, ProbesInTime, Other
<1>5. HeldAlone'
  BY DEF EndpointInv, HeldAlone, Other
<1> QED
  BY <1>3, <1>4, <1>5 DEF EndpointInv

LEMMA EndpointInvStep == EndpointInv /\ [EndpointNext]_endVars => EndpointInv'
<1> SUFFICES ASSUME EndpointInv, [EndpointNext]_endVars
             PROVE  EndpointInv'
  OBVIOUS
<1>1. ASSUME NEW h \in Hosts, EndpointStep(h)
      PROVE  EndpointInv'
  <2>0. /\ now \in Nat /\ ProbeTime \in Nat /\ address \subseteq Hosts /\ allowed \subseteq Hosts
        /\ pass[h] \in Passes /\ acquired \in [Hosts -> Nat]
        /\ UNCHANGED <<now, witnessVars>>
    BY <1>1, EndpointStepsLocal, EndpointAssumption DEF EndpointInv, EndpointTypeOK, WitnessTypeOK
  <2> USE DEF Passes, Steps, Replies
  <2>1. CASE \E action \in {"enforce", "acquire"} : PassStarts(h, action)
    BY <2>0, <2>1, PassGoesOn DEF PassStarts, Asking
  <2>2. CASE WitnessAnswers(h)
    <3>1. PICK r \in {"refused", "valid"} : Goto(h, [pass[h] EXCEPT !.reply = r])
      BY <2>2 DEF WitnessAnswers
    <3>2. /\ [pass[h] EXCEPT !.reply = r] \in Passes
          /\ [pass[h] EXCEPT !.reply = r].step # "probe"
      BY <2>0, <2>2 DEF WitnessAnswers
    <3> QED
      BY <2>0, <2>2, <3>1, <3>2, PassGoesOn DEF WitnessAnswers
  <2>3. CASE EnforceDecides(h)
    <3>1. PICK next \in {Asking("acquire"), NoPass} : Goto(h, next)
      BY <2>3 DEF EnforceDecides
    <3>2. address' \in SUBSET address
      BY <2>3 DEF EnforceDecides
    <3> QED
      BY <2>0, <2>3, <3>1, <3>2, PassGoesOn DEF EnforceDecides, Asking, NoPass
  <2>4. CASE AcquireDecides(h)
    <3>1. CASE Goto(h, NoPass)
      BY <2>0, <2>4, <3>1, PassGoesOn DEF AcquireDecides, Asking, NoPass
    <3>2. CASE address = {} /\ Goto(h, [step |-> "probe", reply |-> "none", since |-> now])
      <4>1. /\ pass' \in [Hosts -> Passes]
            /\ pass'[h] = [step |-> "probe", reply |-> "none", since |-> now]
            /\ \A g \in Hosts \ {h} : pass'[g] = pass[g]
        BY <2>0, <3>2 DEF EndpointInv, EndpointTypeOK, Goto
      <4>2. UNCHANGED <<address, allowed, acquired>>
        BY <2>4 DEF AcquireDecides
      <4>3. EndpointTypeOK'
        BY <2>0, <4>1, <4>2 DEF EndpointInv, EndpointTypeOK, WitnessTypeOK, witnessVars
      <4>4. ProbesInTime' /\ HeldAlone'
        BY <2>0, <3>2, <4>1, <4>2 DEF EndpointInv, ProbesInTime, HeldAlone
      <4> QED
        BY <4>3, <4>4 DEF EndpointInv
    <3> QED
      BY <2>4, <3>1, <3>2 DEF AcquireDecides
  <2>5. CASE AcquireFails(h)
    BY <2>0, <2>5, PassGoesOn DEF AcquireFails, Asking, NoPass
  <2>6. CASE AddAddress(h)
    <3>1. /\ pass' \in [Hosts -> Passes] /\ pass'[h] = NoPass
          /\ \A g \in Hosts \ {h} : pass'[g] = pass[g]
          /\ acquired' \in [Hosts -> Nat] /\ acquired'[h] = now
          /\ \A g \in Hosts \ {h} : acquired'[g] = acquired[g]
          /\ address' = address \cup {h} /\ allowed' = allowed
          /\ pass[h].step = "probe"
      BY <2>0, <2>6 DEF EndpointInv, EndpointTypeOK, AddAddress, Goto, NoPass, Asking
    <3>2. EndpointTypeOK'
      BY <2>0, <3>1 DEF EndpointInv, EndpointTypeOK, WitnessTypeOK, witnessVars
    <3>3. ProbesInTime'
      BY <2>0, <3>1, OtherHost DEF EndpointInv, ProbesInTime, NoPass, Asking
    <3>4. HeldAlone'
      <4>1. Other(h) \in Hosts \ {h} /\ acquired[Other(h)] \in Nat
        BY <2>0, OtherHost
      <4>2. CASE Other(h) \in address
        <5>1. /\ pass[h].since \in Nat /\ now <= pass[h].since + ProbeTime
              /\ pass[h].since <= acquired[Other(h)] /\ acquired[Other(h)] <= now
          BY <2>0, <3>1, <4>1, <4>2 DEF EndpointInv, ProbesInTime
        <5>2. /\ acquired'[h] <= acquired'[Other(h)] + ProbeTime
              /\ acquired'[Other(h)] <= acquired'[h] + ProbeTime
          BY <2>0, <3>1, <4>1, <5>1
        <5>3. \A g \in Hosts : g = h \/ g = Other(h)
          BY <4>1
        <5> QED
          BY <5>2, <5>3, OtherHost DEF HeldAlone
      <4>3. CASE Other(h) \notin address
        BY <3>1, <4>1, <4>3 DEF HeldAlone
      <4> QED
        BY <4>2, <4>3
    <3> QED
      BY <3>2, <3>3, <3>4 DEF EndpointInv
  <2>7. CASE Release(h)
    BY <2>0, <2>7 DEF Release, EndpointInv, EndpointTypeOK, WitnessTypeOK, witnessVars,
      ProbesInTime, HeldAlone, Other
  <2>8. CASE LocalStateChanges(h)
    BY <2>0, <2>8 DEF LocalStateChanges, EndpointInv, EndpointTypeOK, WitnessTypeOK, witnessVars,
      ProbesInTime, HeldAlone, Other
  <2>9. CASE Reboots(h)
    BY <2>0, <2>9, PassGoesOn DEF Reboots, Asking, NoPass
  <2> QED
    BY <1>1, <2>1, <2>2, <2>3, <2>4, <2>5, <2>6, <2>7, <2>8, <2>9 DEF EndpointStep, PassStep
<1>2. CASE Elsewhere \/ UNCHANGED endVars
  <2>1. UNCHANGED endpointVars /\ [WitnessNext]_<<now, witnessVars>>
    BY <1>2 DEF Elsewhere, endVars
  <2>2. WitnessTypeOK'
    BY <2>1, WitnessTypeStep DEF EndpointInv, EndpointTypeOK
  <2>3. EndpointTypeOK'
    BY <2>1, <2>2 DEF endpointVars, EndpointInv, EndpointTypeOK
  <2>4. HeldAlone'
    BY <2>1 DEF endpointVars, EndpointInv, HeldAlone
  <2>5. now \in Nat /\ (now' = now \/ (now' = now + 1 /\ ProbesEnd))
    <3>1. now \in Nat
      BY DEF EndpointInv, EndpointTypeOK, WitnessTypeOK
    <3>2. now' = now \/ now' = now + 1
      BY <2>1 DEF WitnessNext, WitnessCommand, RenewPrimary, GrantBackup, RenewBackup,
         RevokeBackup, ExpireLease, Observe, Tick, witnessVars
    <3> QED
      BY <1>2, <3>1, <3>2 DEF Elsewhere, endVars
  <2>6. ProbesInTime'
    BY <2>1, <2>5, EndpointAssumption
       DEF endpointVars, EndpointInv, EndpointTypeOK, Passes, ProbesInTime, ProbesEnd
  <2> QED
    BY <2>3, <2>4, <2>6 DEF EndpointInv
<1> QED
  BY <1>1, <1>2 DEF EndpointNext

THEOREM EndpointInvariant == EndpointSpec => []EndpointInv
BY EndpointInitially, EndpointInvStep, PTL DEF EndpointSpec

\* The types of the address, the passes and the witness (spot-failover-endpoint.sh).
THEOREM EndpointTypes == EndpointSpec => []EndpointTypeOK
BY EndpointInvariant, PTL DEF EndpointInv

\* The address is on both hosts only when their probes overlapped (acquire).
THEOREM AddressHeldAlone == EndpointSpec => []HeldAlone
BY EndpointInvariant, PTL DEF EndpointInv

\* Next to the endpoint scripts the witness is the witness, and keeps its tenures
\* (the scripts ask for its status only).
THEOREM EndpointKeepsTenures == EndpointSpec => WitnessKeepsTenures
<1>1. EndpointInit => WitnessInit
  BY DEF EndpointInit
<1>2. [EndpointNext]_endVars => [WitnessNext]_<<now, witnessVars>>
  BY EndpointStepsLocal DEF EndpointNext, Elsewhere, endVars
<1>3. EndpointSpec => WitnessSpec
  BY <1>1, <1>2, PTL DEF EndpointSpec, WitnessSpec
<1> QED
  BY <1>3, WitnessImplementsTenure, PTL
=============================================================================
