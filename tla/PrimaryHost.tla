---------------------------- MODULE PrimaryHost ----------------------------
(***************************************************************************)
(* The primary host spot-core and the witness it leases authority from:    *)
(* spot-primary-lease-renew.sh (timer, 15 s), spot-primary-lease-enforce.sh *)
(* (timer, 5 s) and spot-primary-fence.sh, whose engage, enforce and       *)
(* release commands exclude each other with one flock.                     *)
(*                                                                         *)
(* One tick is five seconds.  A script's local steps take no time unless   *)
(* the code waits in them (ssh, docker stop, the health loop), so the      *)
(* clock waits for an enforcement that is due and free to run.             *)
(***************************************************************************)
EXTENDS WitnessAuthority

CONSTANTS ReleaseMargin,   \* 20 s: lease time a release must still have
          EnforcePeriod,   \* 5 s: the enforcement timer
          BootDelay,       \* 15 s: its OnBootSec
          MaxFaults        \* bound: reboots and fences whose docker commands fail

ASSUME PrimaryAssumption == /\ ReleaseMargin \in Nat
                            /\ EnforcePeriod \in Nat \ {0}
                            /\ BootDelay \in Nat
                            /\ MaxFaults \in Nat

VARIABLES cache,       \* witness-lease.json, the last lease the witness confirmed
          fenced,      \* the file `fenced`
          units,       \* what is running
          autostart,   \* docker restart policy unless-stopped
          renewal,     \* the run of lease-renew that holds its lock
          enforcer,    \* the enforcement run: idle, or waiting on the fence command
          enforceDue,  \* when the enforcement timer fires next
          fence,       \* the fence command that holds the fence lock
          bootGrace,   \* aux: enforcement starts no later than this after a boot
          heldUntil,   \* aux: when the witness last named the primary
          stray,       \* a renew-primary without its client is on its way to the witness
          faults

fenceVars   == <<fenced, units, autostart, fence>>
primaryVars == <<cache, renewal, enforcer, enforceDue, bootGrace, stray, faults, fenceVars>>

\* The lease-renew timer; cron, self-heal and recovery timers; MCP and bridge;
\* the spot-core container.
PrimaryUnits == {"renew_timer", "workers", "services", "executor"}

FenceCallers == {"enforcer", "guard", "operator"}
FenceSteps   == {"stop_units", "stop_executor", "renew", "check", "start_workers",
                 "start_executor", "await_health", "start_services"}

NoRenewal == [by |-> "nobody", phase |-> "idle", reply |-> NoLease(0)]
NoFence   == [by |-> "nobody", step |-> "done"]

Renewals == [by : {"timer", "release"}, phase : {"asked", "answered"}, reply : LeaseRecord]
            \cup {NoRenewal}
FenceRuns == [by : FenceCallers, step : FenceSteps] \cup {NoFence}

PrimaryTypeOK ==
  /\ cache \in LeaseRecord
  /\ fenced \in BOOLEAN
  /\ units \subseteq PrimaryUnits
  /\ autostart \in BOOLEAN
  /\ renewal \in Renewals
  /\ renewal.by = "release" <=> fence.step = "renew"
  /\ enforcer \in {"idle", "engage", "enforce"}
  /\ enforceDue \in Nat
  /\ fence \in FenceRuns
  /\ fence.by = "enforcer" => enforcer # "idle"
  /\ bootGrace \in Nat
  /\ stray \in BOOLEAN
  /\ faults \in Nat

\* Enforcement is switched on (marker lease-enforcement-enabled present) on a
\* host that runs, or that was commissioned behind its fence.
PrimaryInit ==
  /\ cache = NoLease(0)
  /\ fenced \in BOOLEAN
  /\ units = IF fenced THEN {} ELSE PrimaryUnits
  /\ autostart = ~fenced
  /\ renewal = NoRenewal
  /\ enforcer = "idle"
  /\ enforceDue = now + BootDelay
  /\ fence = NoFence
  /\ bootGrace = now + BootDelay
  /\ heldUntil = 0
  /\ stray = FALSE
  /\ faults = 0

-----------------------------------------------------------------------------
(* lease-renew: ask the witness over ssh, validate, replace the cache.     *)

RenewTimerFires ==
  /\ "renew_timer" \in units
  /\ ~fenced
  /\ renewal = NoRenewal
  /\ renewal' = [by |-> "timer", phase |-> "asked", reply |-> NoLease(0)]
  /\ UNCHANGED <<now, witnessVars, cache, enforcer, enforceDue, bootGrace, stray, faults, fenceVars>>

\* The witness runs renew-primary and prints the new lease.
WitnessAnswersPrimary ==
  /\ renewal.phase = "asked"
  /\ RenewPrimary
  /\ renewal' = [renewal EXCEPT !.phase = "answered", !.reply = lease']
  /\ UNCHANGED <<cache, enforcer, enforceDue, bootGrace, stray, faults, fenceVars>>

\* The release command goes on to its check, or gives up, when its renewal ends.
ReleaseResumes(step) ==
  fence' = IF renewal.by = "release" THEN step ELSE fence

StoreRenewal ==
  /\ renewal.phase = "answered"
  /\ cache' = renewal.reply
  /\ renewal' = NoRenewal
  /\ ReleaseResumes([fence EXCEPT !.step = "check"])
  /\ UNCHANGED <<now, witnessVars, enforcer, enforceDue, bootGrace, stray, faults,
                 fenced, units, autostart>>

\* Mutant: a release whose renewal failed is not told.
RenewalFailsSilently ==
  /\ renewal # NoRenewal
  /\ renewal' = NoRenewal
  /\ UNCHANGED <<now, witnessVars, cache, enforcer, enforceDue, bootGrace, stray, faults, fenceVars>>

\* A renew-primary whose ssh client is gone may still be run by the witness.
GoesAstray(asked) == stray' = (stray \/ asked)

\* The witness refuses, or the ssh call times out before or after the witness
\* renewed the lease: the cache keeps what it had.
RenewalFails ==
  /\ renewal # NoRenewal
  /\ renewal' = NoRenewal
  /\ ReleaseResumes(NoFence)
  /\ GoesAstray(renewal.phase = "asked")
  /\ UNCHANGED <<now, witnessVars, cache, enforcer, enforceDue, bootGrace, faults,
                 fenced, units, autostart>>

\* The witness runs a renewal nobody waits for; another may be on its way.
StrayRenewal ==
  /\ stray
  /\ RenewPrimary
  /\ stray' \in BOOLEAN
  /\ UNCHANGED <<cache, renewal, enforcer, enforceDue, bootGrace, faults, fenceVars>>

-----------------------------------------------------------------------------
(* lease-enforce: fence the host when the cached lease does not cover it.  *)

\* Mutant: the check forgets the expiry.
CacheNamesPrimary == cache.holder = Primary

CacheCovers == cache.holder = Primary /\ cache.expires > now

EnforcerChecks ==
  /\ enforcer = "idle"
  /\ enforcer' = IF fenced THEN "enforce" ELSE IF CacheCovers THEN "idle" ELSE "engage"
  /\ enforceDue' = now + EnforcePeriod
  /\ UNCHANGED <<now, witnessVars, cache, renewal, bootGrace, stray, faults, fenceVars>>

-----------------------------------------------------------------------------
(* fence: engage | enforce | release, one at a time.                       *)

FenceFree == fence = NoFence

\* engage: write the fence file, then stop everything.
EngageFence(by) ==
  /\ FenceFree
  /\ by = "enforcer" => enforcer = "engage"
  /\ fenced' = TRUE
  /\ fence' = [by |-> by, step |-> "stop_units"]
  /\ UNCHANGED <<now, witnessVars, cache, renewal, enforcer, enforceDue, bootGrace, stray, faults,
                 units, autostart>>

\* enforce: stop everything again, if the fence is up.
EnforceFence(by) ==
  /\ FenceFree
  /\ fenced
  /\ by = "enforcer" => enforcer = "enforce"
  /\ fence' = [by |-> by, step |-> "stop_units"]
  /\ UNCHANGED <<now, witnessVars, cache, renewal, enforcer, enforceDue, bootGrace, stray, faults,
                 fenced, units, autostart>>

\* enforce, after a release took the fence down first: nothing to do.
EnforceSkips ==
  /\ FenceFree
  /\ ~fenced
  /\ enforcer = "enforce"
  /\ enforcer' = "idle"
  /\ UNCHANGED <<now, witnessVars, cache, renewal, enforceDue, bootGrace, stray, faults, fenceVars>>

\* Mutant: only the timer is stopped, a renewal in flight goes on.
StopUnitsKeepsRenewal ==
  /\ fence.step = "stop_units"
  /\ units' = units \cap {"executor"}
  /\ fence' = [fence EXCEPT !.step = "stop_executor"]
  /\ UNCHANGED <<now, witnessVars, cache, renewal, enforcer, enforceDue, bootGrace, stray, faults,
                 fenced, autostart>>

\* stop_primary_executor, up to the container: stopping the renewal service
\* kills a renewal in flight, not what its ssh call has asked for.
StopUnits ==
  /\ fence.step = "stop_units"
  /\ units' = units \cap {"executor"}
  /\ renewal' = IF renewal.by = "timer" THEN NoRenewal ELSE renewal
  /\ GoesAstray(renewal.by = "timer" /\ renewal.phase = "asked")
  /\ fence' = [fence EXCEPT !.step = "stop_executor"]
  /\ UNCHANGED <<now, witnessVars, cache, enforcer, enforceDue, bootGrace, faults,
                 fenced, autostart>>

FenceReturns ==
  /\ fence' = NoFence
  /\ enforcer' = IF fence.by = "enforcer" THEN "idle" ELSE enforcer

\* Mutant: docker update without docker stop.
UpdateOnly ==
  /\ fence.step = "stop_executor"
  /\ autostart' = FALSE
  /\ FenceReturns
  /\ UNCHANGED <<now, witnessVars, cache, renewal, enforceDue, bootGrace, stray, fenced, units, faults>>

\* docker update --restart=no and docker stop; each is allowed to fail.
StopExecutor ==
  /\ fence.step = "stop_executor"
  /\ \E updated, stopped \in BOOLEAN :
       /\ (updated /\ stopped) \/ faults < MaxFaults
       /\ autostart' = (autostart /\ ~updated)
       /\ units' = IF stopped THEN units \ {"executor"} ELSE units
       /\ faults' = IF updated /\ stopped THEN faults ELSE faults + 1
  /\ FenceReturns
  /\ UNCHANGED <<now, witnessVars, cache, renewal, enforceDue, bootGrace, stray, fenced>>

\* release: only of a fenced host, and it renews the lease first.  While the
\* fence is up no timer renewal runs, so the renewal lock is free.
ReleaseStarts ==
  /\ FenceFree
  /\ fenced
  /\ renewal = NoRenewal
  /\ fence' = [by |-> "operator", step |-> "renew"]
  /\ renewal' = [by |-> "release", phase |-> "asked", reply |-> NoLease(0)]
  /\ UNCHANGED <<now, witnessVars, cache, enforcer, enforceDue, bootGrace, stray, faults,
                 fenced, units, autostart>>

LeaseSafe == cache.holder = Primary /\ cache.expires > now + ReleaseMargin

ReleaseChecks ==
  /\ fence.step = "check"
  /\ \/ /\ LeaseSafe
        /\ fenced' = FALSE
        /\ units' = units \cup {"renew_timer"}
        /\ fence' = [fence EXCEPT !.step = "start_workers"]
     \/ /\ ~LeaseSafe
        /\ fence' = NoFence
        /\ UNCHANGED <<fenced, units>>
  /\ UNCHANGED <<now, witnessVars, cache, renewal, enforcer, enforceDue, bootGrace, stray, faults,
                 autostart>>

\* One step of start_primary_executor succeeds and the next one begins.
Starts(step, started, next) ==
  /\ fence.step = step
  /\ units' = units \cup started
  /\ autostart' = (autostart \/ "executor" \in started)
  /\ fence' = next
  /\ UNCHANGED <<now, witnessVars, cache, renewal, enforcer, enforceDue, bootGrace, stray, faults,
                 fenced>>

StartWorkers  == Starts("start_workers", {"workers"}, [fence EXCEPT !.step = "start_executor"])
StartExecutor == Starts("start_executor", {"executor"}, [fence EXCEPT !.step = "await_health"])
HealthAnswers == Starts("await_health", {}, [fence EXCEPT !.step = "start_services"])
StartServices == Starts("start_services", {"services"}, NoFence)

StartSteps == {"start_workers", "start_executor", "await_health", "start_services"}

\* A start step fails: the fence goes back up and everything is stopped.
StartFails ==
  /\ fence.step \in StartSteps
  /\ fenced' = TRUE
  /\ fence' = [fence EXCEPT !.step = "stop_units"]
  /\ UNCHANGED <<now, witnessVars, cache, renewal, enforcer, enforceDue, bootGrace, stray, faults,
                 units, autostart>>

-----------------------------------------------------------------------------
\* Power loss: processes and locks are gone; docker restarts a container that
\* ran under unless-stopped, the enabled units come up, fenced or not, and the
\* enforcement timer waits for its OnBootSec.
Reboot ==
  /\ faults < MaxFaults
  /\ faults' = faults + 1
  /\ units' = PrimaryUnits \ (IF autostart THEN {"executor"} \ units ELSE {"executor"})
  /\ renewal' = NoRenewal
  /\ GoesAstray(renewal.phase = "asked")
  /\ enforcer' = "idle"
  /\ fence' = NoFence
  /\ enforceDue' = now + BootDelay
  /\ bootGrace' = now + BootDelay
  /\ UNCHANGED <<now, witnessVars, cache, fenced, autostart>>

FenceStep == StopUnits \/ StopExecutor

Releasing == \/ ReleaseChecks \/ StartWorkers \/ StartExecutor \/ HealthAnswers
             \/ StartServices \/ StartFails

PrimaryStep ==
  \/ RenewTimerFires \/ StoreRenewal \/ RenewalFails
  \/ (WitnessAnswersPrimary \/ StrayRenewal) /\ lease'.epoch <= MaxEpoch
  \/ EnforcerChecks \/ EnforceSkips
  \/ \E by \in {"enforcer", "operator"} : EngageFence(by)
  \/ \E by \in {"enforcer", "guard"} : EnforceFence(by)
  \/ FenceStep
  \/ ReleaseStarts \/ Releasing
  \/ Reboot

\* An enforcement that is due has run, and one that can take the fence lock
\* has taken it, before the next five seconds begin.
EnforcementPrompt == IF enforcer = "idle" THEN now < enforceDue ELSE ~FenceFree

PrimaryTick == EnforcementPrompt /\ Tick /\ UNCHANGED primaryVars

\* The witness commands of the other parties.
WitnessElsewhere ==
  /\ GrantBackup \/ RenewBackup \/ RevokeBackup \/ ExpireLease
  /\ lease'.epoch <= MaxEpoch
  /\ UNCHANGED primaryVars

TrackHolding == heldUntil' = IF lease'.holder = Primary THEN now' ELSE heldUntil

vars == <<now, witnessVars, primaryVars, heldUntil>>

\* What the observer sees matters only to WitnessAuthority: here it saw takeover
\* evidence, and its observation stays fresh.
Init == WitnessInit /\ observer.evidence /\ PrimaryInit
Next == (PrimaryStep \/ WitnessElsewhere \/ PrimaryTick) /\ TrackHolding

\* The enforcement and guard timers keep firing and a fence command that holds
\* the lock runs to its end.
Fairness == /\ WF_vars(EnforcerChecks /\ TrackHolding)
            /\ WF_vars(EngageFence("enforcer") /\ TrackHolding)
            /\ WF_vars(EnforceSkips /\ TrackHolding)
            /\ WF_vars(EnforceFence("enforcer") /\ TrackHolding)
            /\ SF_vars(EnforceFence("guard") /\ TrackHolding)
            /\ WF_vars(FenceStep /\ TrackHolding)
            /\ WF_vars(Releasing /\ TrackHolding)
            /\ WF_vars((StoreRenewal \/ RenewalFails) /\ TrackHolding)

Spec     == Init /\ [][Next]_vars
FairSpec == Spec /\ Fairness

-----------------------------------------------------------------------------
\* A lease the primary still has on file, or is about to store, is a lease the
\* witness gave: if authority moved on, the witness has a later epoch, and if
\* not, the witness's lease is at least as long (renew_holder against
\* lease-renew's mv of a reply that may be old).
WitnessBacks(l) ==
  l.holder = Primary => \/ l.epoch < lease.epoch
                        \/ /\ l.epoch = lease.epoch
                           /\ lease.holder = Primary
                           /\ l.expires <= lease.expires

CacheIsWitnessed == WitnessBacks(cache) /\ WitnessBacks(renewal.reply)

\* Self-fencing in time (lease-enforce.sh): a primary that is not fenced, with
\* no fence command under way, does not see an enforcement period pass after
\* the lease it has on file ran out, unless it has just booted.  A release that
\* waits for the container's health holds the fence lock and is exempt.
SelfFenceBound ==
  [][now' > now /\ ~fenced /\ FenceFree
       => now' < cache.expires + EnforcePeriod \/ now' <= bootGrace]_vars

\* The end of a displaced primary (witness grant-backup, expire-lease): one that
\* the witness stopped naming is fenced within a lease and a period, however
\* stale the lease it has on file; the backup may be active meanwhile.
DisplacedPrimaryFences ==
  [][now' > now /\ ~fenced /\ FenceFree
       => now' < heldUntil + LEASE_TTL + EnforcePeriod \/ now' <= bootGrace]_vars

\* What the fence promises once the command that raised it is done (fence.sh
\* engage): nobody on the host asks for the primary's lease any more, though a
\* request that was under way may still reach the witness (StrayRenewal), and
\* without power loss or a failing docker command nothing runs.
FencedHostIsQuiet ==
  fenced /\ FenceFree => renewal = NoRenewal /\ (faults = 0 => units = {})

\* What makes these inductive.  A lease on file or in a reply was given while the
\* witness named the primary, and a reply not yet stored is the longer lease.
LeasesInOrder ==
  /\ lease.expires <= now + LEASE_TTL
  /\ heldUntil \in 0 .. now
  /\ lease.holder = Primary => heldUntil = now
  /\ cache.expires <= heldUntil + LEASE_TTL
  /\ renewal.phase = "answered" =>
       cache.expires <= renewal.reply.expires /\ renewal.reply.expires <= heldUntil + LEASE_TTL

\* Where the fence stands at each step of a fence command, and what still runs.
FencePhases ==
  /\ fence.step \in {"stop_units", "stop_executor", "renew", "check"} => fenced
  /\ fence.step \in StartSteps => ~fenced
  /\ fenced /\ renewal.by = "timer" => fence.step = "stop_units"
  /\ fence.step = "stop_executor" => units \subseteq {"executor"}
  /\ fenced /\ faults = 0 /\ fence.step \in {"done", "renew", "check"} => units = {}

\* The next enforcement comes within a period, and on a host that is not fenced
\* it was scheduled while the lease on file was live.
EnforcementScheduled ==
  /\ enforceDue <= now + EnforcePeriod \/ enforceDue <= bootGrace
  /\ ~fenced /\ enforcer # "engage" =>
       enforceDue < cache.expires + EnforcePeriod \/ enforceDue <= bootGrace

\* The inductive invariant of the host (renew, enforce and fence scripts together).
PrimaryInv == LeasesInOrder /\ FencePhases /\ EnforcementScheduled

\* A primary whose lease on file ran out ends up fenced, or gets a new lease.
LeaseLossFences ==
  (~fenced /\ cache.expires <= now) ~> (fenced \/ cache.expires > now)

\* A fenced primary's container stops, after power loss too (fence-guard timer),
\* or its fence is released.
FencedHostStops == fenced ~> ("executor" \notin units \/ ~fenced)
=============================================================================
