# Spot: a verification development

Formal models of Spot, the operations system in this repository: a primary and a
backup executor whose authority is leased by a witness, an API (Spot Core) that
dispatches model requests to a fleet of workers and holds workers in quarantine,
and the transactions under a single-use authorization that change its hosts. TLA+
modules model the code, TLC checks them on small instances, and TLAPS proves the
safety properties for every value of the constants.

Sections: [what the system consists of](#1-inventory), [the
modules](#2-modules), [failover](#3-failover), [the dispatcher](#4-the-dispatcher),
[transactions](#5-transactions), [the quarantine](#6-the-quarantine), [the apply
queue](#7-the-apply-queue), [runs](#8-runs), [proofs](#9-proofs), [where the code
disagrees with itself](#10-findings), [what is left out](#11-not-modelled), [what
could come next](#12-plan), [how to run it](#13-running-it).

## 1. Inventory

State that is shared, persisted or waited for decides what is worth a model.
"M" marks what is modelled, "-" what is not.

| | Component | State | Operations | Interacts with | Hard behaviour | What makes it correct |
|-|-|-|-|-|-|-|
| M | Failover witness (`recovery/spot-witness-authority.sh`) | lease file: holder, epoch, expiry; observer's file | renew-primary, grant-backup, renew-backup, revoke-backup, expire-lease, status | both hosts and the operator, by ssh forced commands | commands of three parties in any order, leases that run out unannounced, errexit ignored in conditions | one holder per epoch; a primary never takes authority from a live backup; a grant rests on evidence |
| M | Primary host (`spot-primary-lease-renew/-enforce`, `spot-primary-fence`) | lease on file, fence file, units, docker restart policy, two flocks | renew (15 s timer), enforce (5 s), guard (15 s), engage/release by the operator | witness, systemd, docker | late, lost or killed renewals, commands that wait for the fence lock, docker commands that fail without a word, power loss | fences itself in time without the witness; a fenced host is quiet and stays so after a reboot; no lease on file that the witness did not give |
| M | Backup host (`spot-backup-control`, `spot-backup-lease-enforce`, `-renew`, service units) | authority file, activation marker, container and services, control lock | activate, deactivate, rollback, watchdog pass (5 s), renewal (10 s) | witness, docker, systemd's conditions on the files | an activation of nine steps that may fail, be cut short or hang at each; a watchdog whose observations age while it waits for the witness and for the lock | marker implies authority; nothing runs without the marker; loss of the lease ends in passive, in time |
| M (part) | Release materialization (`spot-failover-materialize`, preflight) | materialized release, its projections | materialize | backup control | its checks age while it copies | refuses on an activated host; works on a passive one |
| M | Shared endpoint (`spot-failover-endpoint`) | the address on each host, a flock per host | enforce (5 s timer), acquire and release by the operator | witness status, fence file, authority file, ARP | lease and local state checked, then up to 4 s of probing, then the address is added; a reply may come late | on both hosts only if their probes overlapped; leaves a host that may not have it |
| - | Consensus view, replica verification, manifests | reports | read and compare | both hosts | none | pure |
| M | Dispatcher of Spot Core (`app.py`, `exec_route`) | active counters per worker, lane and model; `ACTIVE_LOCK`; penalties | admit, queue wait, call, retry, alternate, release, audit | workers by HTTP, watch state file | a lock held over a queue wait; checks before an await, effects after; two failures in a row | counters exact; limits hold; everybody answered; audit tells the truth |
| M (part) | Enforced actions, quarantine, file writes (`app.py`) | watch state, remediation state, penalties, backups | quarantine, release, write-file, restart-service, rollback | fleet watch and remediation, over the same files | whole-file rollback, in place, over somebody else's update; fixed temporary names | a rollback undoes its own action and nothing else |
| - | Warm models, host liveness, proactive loop (`warmd.py`, ...) | memory of loops | keep warm, evict, ping | dispatcher's snapshots | stale snapshots | never evicts what is in use |
| M (part) | Fleet watch and remediation (`fleet-watch.sh`, `fleet-remediate.sh`) | watch state and remediation state files | observe, quarantine, degrade, recover | API, over files | read, long work, write back, or an end before that | no lost quarantine |
| - | Self-heal and worker recovery | cool-down stamps | ssh command sequences | workers | retries | bounded attempts |
| - | Runtime queue and leases (`runtime/queue`) | queue file, lock files | enqueue, claim, recover | executors | read-modify-write without a lock; stale locks | no duplicate active lease, no lost job |
| M | Scoped NFS storage transaction (`storage/post239-k21d-...py`) | consumption record, backup, receipt, mount units, NFS copies | execute, roll back | systemd, NFS | a cut between any two steps; commands that finish after the step or the run that asked; queries that fail; rollback that fails | an authorization is used once; units left behind are owned by a receipt that does not deny them |
| M (part) | Installation of the controlled read-observe lane (`observe/`) | consumption record, receipt, installed files | install, roll back; observe | systemd | exceptions that pass the handler; writes that take effect and raise | the receipt says what is on the host |
| M | Governed apply queue (`phase6`) | queue, fixture state and replay guard files | enqueue, approve, reject, dispatch | orchestrator, by a subprocess | whole-file rewrites without a lock, cuts between two files | applied only if approved, and once |
| - | Apply wrapper, approval ledger, executor journal | append-only files | append | operator | none | append-only |
| - | Governance, contracts, phase fixtures, policies | JSON documents | validate | nobody | none | pure functions |
| - | Operator command line, reports, bridge API | none | read, forward | API | none | - |
| - | Memory, learning, outcomes, docs cache | notes | append | API | none | - |
| - | Dashboard (`starfleet-ui`) | none | display | API | none | - |
| - | Provisioning, DNS, NFS copies, backups of configuration | none | one-off commands | hosts | none | - |
| - | Documents, inventories, recorded runs | data | none | - | - | - |

The hazards each line hides are listed with file and line in `PROJECT.json`
("hazards"), with the property that covers each.

## 2. Modules

| Module | Content |
|-|-|
| `AuthorityTenure` | abstract: what the witness promises, numbered tenures of one holder each |
| `WitnessAuthority` | the witness script; its map to `AuthorityTenure` (`WitnessKeepsTenures`) |
| `PrimaryHost` | extends the witness by the primary host's three scripts |
| `BackupHost` | extends the witness by the backup host's scripts |
| `FailoverPair` | both hosts and the witness: extends `PrimaryHost`, takes `BackupHost` as the instance `B` |
| `SharedEndpoint` | extends the witness by the endpoint script on both hosts |
| `Dispatcher` | `exec_route` and what it calls |
| `SingleUseAttempt` | abstract: every transaction attempted once, changes inside an attempt only; one at a time where that is promised (`Alone`) |
| `StorageTransaction` | the scoped NFS storage transaction; its map to `SingleUseAttempt` |
| `InstallTransaction` | the installation of the read-observe lane; its map to `SingleUseAttempt` |
| `FleetQuarantine` | quarantine calls of Spot Core, the remediation pass and the watch pass over their two files |
| `ApplyQueue` | the governed apply queue composed with the orchestrator it runs |
| `MCWitness`, `MCPrimary`, `MCBackup`, `MCPair`, `MCEndpoint`, `MCDispatcher`, `MCStorage`, `MCInstall`, `MCFleet`, `MCApply` | TLC instances |
| `WitnessProofs`, `BackupProofs`, `FailoverProofs` (primary, pair, endpoint), `DispatcherProofs`, `StorageProofs`, `InstallProofs`, `FleetProofs`, `ApplyProofs` | theorems and proofs |

Definitions carry the names of the code's commands and functions where TLA+
allows it. Each host is composed with the witness by extending its module: the
witness's variables are shared, an ssh call is one step of both, and what the
other host asks of the witness is `WitnessElsewhere`, any command it could send.
`FailoverPair` then puts the two hosts side by side, with the real commands of each.
Definitions commented "Mutant" are plausible bugs of the definition that follows;
they are used to see that a property notices them and are part of no behaviour.

## 3. Failover

Time is counted in ticks of five seconds, one clock for the three machines: the
scripts compare `date +%s` of different hosts, and their correctness rests on
clocks that agree, which the models take for granted.

**Witness** (`WitnessAuthority`). The variables are the lease file (`lease`:
holder, epoch, expiry) and the observer's file (`observer`: whether it reports
takeover evidence, and since when). Each command is one action, because the
script runs under one `flock` on one machine: `RenewPrimary`, `GrantBackup`,
`RenewBackup`, `RevokeBackup`, `ExpireLease`. A grant tests only the age of the
observation, since that is all bash evaluates there (finding 1).
`AuthorityTenure` is the promise behind it: authority is a sequence of numbered
tenures, each belongs to one host, a primary never takes over from a live backup,
every change of holder has a new number. `WitnessKeepsTenures` states that the
witness implements it under the map `holder <- lease.holder, epoch <-
lease.epoch, live <- Live(lease)`.

**Primary** (`PrimaryHost`). `cache` is `witness-lease.json`, `fenced` the fence
file, `units` what runs (renewal timer, workers, services, container), `autostart`
docker's restart policy, `renewal` a run of `lease-renew` between its ssh and its
`mv`, `enforcer` and `enforceDue` the enforcement pass and its timer, `fence` the
fence command that holds the fence lock, at the step it has reached. One action
per step between waits: `StopUnits`, `StopExecutor`, `ReleaseStarts`,
`ReleaseChecks`, `StartWorkers`, `StartExecutor`, `HealthAnswers`,
`StartServices`, `StartFails`. A renewal reaches the witness in one step
(`WitnessAnswersPrimary`) and is stored in a later one (`StoreRenewal`) or lost
(`RenewalFails`, or the fence that stops its unit). When only the ssh client is gone
the witness may still run the command: `stray` says that such a request is on its way
and `StrayRenewal` is its arrival, with nobody left to store the reply. `docker update`
and `docker stop` fail independently of each other. `Reboot` is power loss: locks and
processes vanish, files stay, docker and systemd start what is enabled.

**Backup** (`BackupHost`). `authority` is `/etc/spot-failover/authority-state`,
`marker` the activation marker with its witness epoch, `runtime` the container and
the two services, `control` the command that holds the control lock, at the step
it has reached and with the witness's last reply, `watchdog` the pass of
`spot-backup-lease-enforce.sh` with what it saw of the runtime and the status the
witness sent it, `renewing` a renewal command under way. The pass is four steps: it
looks at the runtime (`WatchdogLooks`), at the marker (`WatchdogReadsMarker`), the
witness answers (`WitnessAnswersWatchdog`), and the answer arrives, or never does
(`WatchdogJudges`). Between the last two lies an ssh call with a connect timeout and
nothing else: what is judged is a lease as it was when the witness was asked, with
`expires_epoch > now` the only test made on arrival. A status sent before a revocation
or before the primary took over is believed. `activate_runtime` is nine steps: renew,
authorize, mark, container, health, reconfirm, mcp, bridge, confirm. Failures
inside them go to the ERR trap (`ActivationFails`, which starts the rollback),
failures inside functions, where the trap is not inherited, end the script as it
stands (`ActivationAbandoned`). `return_passive` is four steps.

**The pair** (`FailoverPair`). The hosts share the witness and the clock and
nothing else, so a step of the pair is a step of one host with the other's
variables unchanged, a command of the operator or of the expiry timer, or a tick
that both hosts' timers allow. `TrackHolding` and `TrackGrants` keep the two
auxiliary times: `heldUntil`, when the witness last named the primary, and
`grantedUntil`, the expiry of the last lease it gave the backup, which a revocation
does not change. The types are those of the two hosts.

**Endpoint** (`SharedEndpoint`). `address` is the set of hosts that have the shared
address, `pass` the run of the script that holds a host's flock: asking the witness
for `enforce`, asking again for `acquire`, or probing since some time. A reply
"valid" was true when the witness gave it and is believed whenever it comes.
`allowed` are the hosts whose own files allow the address; the scripts that write
them are those of the other modules, and here they may change at any time, so what
is shown holds next to any behaviour of the hosts. A probe ends within `ProbeTime`
(`arping -w 4`: one tick), and the hosts are taken to hear each other's probes.

Properties:

- `CacheIsWitnessed`: a lease on file or in a reply is one the witness gave, under
  an epoch that is over or with an expiry no later than the witness's own. The
  primary's judgement of its file is never more generous than the witness's.
- `SelfFenceBound`, `DisplacedPrimaryFences`: the clock does not pass an
  enforcement period after the lease on file ended, nor a lease and a period after
  the witness stopped naming the primary, without a fence. This bounds how long
  primary and backup may both act. Exempt is a host that has just booted (its
  timer has `OnBootSec`) and one on which a release holds the fence lock: it
  waits for the container's health with the lock in hand.
- `FencedHostIsQuiet`: behind a fence no renewal of the host runs (one whose request
  is on its way may still arrive once), and without reboots or failing docker commands
  nothing does; `FencedHostStops` (liveness): with them,
  the guard stops the container in the end.
- `MarkerMeansActive`, `RuntimeNeedsMarker`, `MarkerIsWitnessed`: the three files
  and the runtime agree whatever a power loss cuts short, in the one direction
  that matters: services run only with a marker, a marker stands only with
  authority, and its epoch is the witness's.
- `TokensDistinct` (pair): no epoch is ever in the hands of both hosts, in the
  lease on file, the marker or a reply on its way. Whoever compares the epochs the
  hosts show knows whose authority came later, however stale their files are.
- `OverlapBound` (pair): time does not pass over two active hosts beyond either
  bound, the primary's (a lease and an enforcement period after the witness last
  named it) or the backup's (a watchdog period after the last lease it was given would
  have run out). Commands and passes that are under way are exempt, as above.
- `HeldAlone` (endpoint): the address is on both hosts only when each added it within
  one probe of the other: `arping -D` is a test, not a lock, and two overlapping
  probes both find the address free. How long both then keep it is a matter of
  `AddressFollowsLease` (liveness): a host that may not have the address loses it,
  or may have it again, whatever a late reply made of it.
- `RollbackBound`: an activated backup that no command holds and no pass examines does
  not see a watchdog period pass after the expiry of its last lease. The bound counts
  from the lease's own expiry and not from its revocation, since that is all the code
  guarantees: a pass that judges by a status from before the revocation leaves the host
  active, and so does every later one, until `expires_epoch` is over. A pass that waits
  for the witness is exempt, because the scripts bound that wait by nothing.
- `LeaseLossRollsBack`, `HalfActivationRollsBack` (liveness): a backup that lost its
  lease is passive in the end, or has a new lease; an activation that was abandoned
  half-way does not stay.

Assumptions. The marker `lease-enforcement-enabled` is present. An enforcement or
watchdog pass that is due and free to run has run before the next tick
(`EnforcementPrompt`, `WatchdogPrompt`): systemd is not late by five seconds. An
ssh or docker command may take any time and may fail. Local file operations fail
only where the models say so; a rename is atomic. A start limit that would make
systemd give up on a timer is not modelled.

Fairness (`FairSpec`). Weak for the timers, for each step of a command that holds a
lock, and for the end of a status call (an answer or a failure: TCP gives up some time):
systemd fires them again and nothing else blocks them. Strong for
taking a lock (`EnforceFence("guard")`, `WatchdogRollsBack`), because operator
commands may hold it in between; Linux wakes the waiters of a flock in order, so a
waiter is not passed over for ever. `RenewalReachesWitness`, an operator's
commands and everything the other host asks of the witness have no fairness. The
endpoint's timer fires again until its run finds the flock free (strong), and a run
that has it goes on (weak): an ssh that never returns is outside this.

Bounds. `MaxTime` 4 or 5 ticks for one host, 3 for the pair and the endpoint, with a
lease of 3 ticks for the primary, 2 for the backup, 1 or 2 for pair and endpoint, let a
lease be given, renewed, lost, taken over and run out within one behaviour, and leave
room for a status to arrive after the lease it names is over; `MaxEpoch` 3 allows
there and back again; one fault allows a power loss at any step, and another would
only start over on the files the first one left. The pair is run without faults,
without the fence commands of the operator and the guard timer, which change no
lease, and without renewals gone astray; these are in the `primary` run. The theorems need none of these
bounds. The clock stops at `MaxTime`, so a liveness property that needs the end
of a lease is stated for leases that have ended by then.

## 4. The dispatcher

`exec_route` serves requests in one asyncio process. What lies between two awaits
is one step, so its actions are few: arrive and be admitted at once, arrive and
queue for `ACTIVE_LOCK`, poll with the lock in hand, give up after `wait_ms`, and,
when the call ends, return, retry, move to an alternate, or raise. `lockq` is the
lock: its head holds it, the rest wait in order, as `asyncio.Lock` has it.
Everything a request does under the lock but without an await inside
(`switch_active_allocation`, the `finally`) is one step on its turn.

A candidate is a worker, a lane and a model; it occupies three counters, and each
has a limit. `active` holds them in one function from places to numbers
(`increment_active`, `decrement_active` with its floor at zero). `Choices` is
`gather_candidates` without its scores: the best candidate may be any of them.
`penalised` and `down` stand for the penalty box and the watch's state file;
`PenaltyExpires` may come at any time and so needs no clock.

Properties:

- `AccountingExact`: each counter is the number of requests that are counted
  there, until a request fails on an alternate worker. `AllReleased`, the same
  without that exception, is violated (finding 2).
- `CapacityRespected`: what runs stays within every limit unless an alternate
  failed or a switch had to wait for the lock; the second exception is behaviour
  of the code (section 10).
- `LockFreezesCounters`: nothing changes a counter between a poll and the
  increment that follows it.
- `OwnersServe`: a request that may not fall back is served by the owner of its
  role and nobody else, alternates included, and its audit is no violation (if the
  owner is in `role_priority`, see section 10).
- `EveryRequestAnswered`: although whoever could free a lane queues behind the
  request that waits for it, the queue wait ends and everybody is answered.

Left out, each with its reason: priorities (`WAITING_REQUESTS` is raised only by
the request that holds the lock, so `higher_priority_waiting` is false for it);
burst (it widens the lanes of a role, `Suits` may be any set); embed requests (a
call without retry, as a request whose error is not retryable); changes of
`cluster_config.json` during a run.

Fairness. A queue wait ends with `wait_ms`, a call with `HTTP_TIMEOUT` (240 s),
and the event loop resumes whoever was given the lock; all weak. Nothing forces a
request to arrive, a penalty to expire or the watch to report.

Bounds. Three requests are what it takes for one to hold the lock, one to wait
and one to finish. A worker of one lane and one of two, of which the first owns a
role, give every alternate a place to go and a limit to meet; the three requests
are one that may fall back, one that may not and one that names its worker, the
last of a role without owner. One
report of the watch is enough to make a worker unhealthy during a request.

## 5. Transactions

Two programs change hosts under an authorization that may be used once: the
scoped NFS storage transaction (`storage/post239-k21d-scoped-nfs-storage.py`,
`StorageTransaction`) and the installation of the controlled read-observe lane
(`observe/controlled-read-observe-install-transaction.py`, `InstallTransaction`).
Both validate records, take a lock without waiting (`LOCK_NB`), look again,
consume the authorization by an exclusive record, change the host step by step,
verify and write a receipt, or roll back and write another. `SingleUseAttempt` is
what both promise: a transaction is unused, open, then closed for good, one is
open at a time, and the world changes only while one is.

In both models `pc` and `at` are the step and the unit, object or file it is at;
`checked` holds runs that have validated and not yet tried the lock, so two runs
of one transaction race as in the code. A step's outcome is "done", or it raises
"before" or "after" its effect: an fsync, a digest or a command's status comes
after the change it is about, so a write may be in place although the program
believes it failed. Journals and unit files are created by `link(2)`, installed
files by `rename(2)`: each is there whole or not at all.

They differ in their handlers, and the models with them. The storage transaction
catches `BaseException`, rolls back every unit it finds (also those whose
installation raised), and reports "premutation", "rolled back" or "incomplete";
an interrupt during the rollback ends it (`AbandonRollback`), and it has then not
succeeded. The installation catches `OSError` and `ExecutionError` only (`escape` is
what passes) and rolls back the files whose index it has recorded, and compares the
destinations with the backup before it has the lock.

The storage transaction also starts things that outlive it. A `systemctl` call may
raise with its effect still to come (the outcome "late": an interrupt while a hard NFS
mount is activating, or a lost manager), and a kill of the run ends neither the NFS
preparer nor the `systemctl` it was waiting for, although the lock goes with the run.
`late` holds these commands; each takes effect or fails at any later time
(`LateUnit`, `LateCopy`, `LateFails`), also during another run's attempt. What the
rollback is told is `Reported`: a query that fails reads as inactive, not enabled or
not mounted, so a stop or a disable may be skipped. `slipped` is the history of units
that are up or enabled behind a rollback's back in one of these two ways. The
installation starts nothing that changes its files, so there a kill ends it all.

Properties:

- `StorageIsSingleUse`, `InstallIsSingleUse`: each implements `SingleUseAttempt`
  with phases read off the consumption record, the lock and, for storage, the commands
  under way: an attempt is open until the last command its run left has finished. The
  installation also promises one at a time (`Alone`). The storage transaction does not
  keep that promise, since a second run gets the lock while the first one's preparer
  is still copying; what holds without it is that each is attempted once and that
  nothing changes outside all attempts.
- `LeftoversAreOwned`: units on the host, after any failure, kill or power loss,
  belong to a consumed transaction with a bound backup whose receipt does not call
  them rolled back. Of unit files this is true without exception. Of enabled or
  mounted units it excepts those that slipped: there the code reports a rollback that
  did not happen (section 10).
- `CopiesOfSuccess`: NFS copies are kept for ever, and a success is reported about
  the transaction's own, also with a preparer that copies on alone.
- `RolledBackLeavesNothing`: a file of a transaction that was rolled back is not
  on the host, at any later time; the exception is a rename that took effect
  before its `atomic_install` raised (`slipped`), which the rollback passes over.
- `LastReceiptIsTrue`: what the last receipt says of all destinations is so, with two
  exceptions. A receipt INSTALLED_DORMANT that was linked before the fsync of its
  directory raised (`0 \in slipped`) stays although the handler rolls the files back
  and finds a receipt it does not replace. And a file that slipped stays under
  ROLLED_BACK. A rollback restores what the backup holds, which is what the attempt met
  under the lock only if nothing changed the destinations between the comparison and
  the lock; if something did, the receipt covers a mixture, each file being one or the
  other.
- `FailureIsSettled` (violated, finding 3): an attempt that is over and changed a
  file has a receipt.

Bounds. Two runs and two transactions give one that succeeds or fails and one
that meets what it left. Two units and two objects, three files of which one
existed before, are the least for a failure between two of them. The records are
finite, so nothing else is bounded.

## 6. The quarantine

`FleetQuarantine` has the two files (`rem`: `remediation-state.json`, with
`quarantined` and `until_ts`; `status`: the quarantine in `fleet-status.json`) and
their three writers. A call of the API (`api`) is `execute_quarantine_worker` or
`execute_unquarantine_worker` under `execute_with_enforcement`: backup of both
files, then each file loaded and saved, verification, and on failure a rollback of
both, `shutil.copy2` in place, one after the other. A pass of `fleet-remediate.sh`
(`pass`) reads the remediation state, calls the API for each change and then
overwrites the file with its own copy. A pass of `fleet-watch.sh` (`sample`) reads
the quarantine host by host and publishes all at once. Spot Core is one event loop and
nothing in a call gives it up after the backup, so its calls do not overlap each other;
everything else does. Nobody takes a lock.

What can go wrong on the way is in the model:

- While a rollback copies a file in place it is empty, and an empty file is read as
  `{}` (`RestoreRemediation`, `RestoreStatus`); if the process ends there it stays so.
- `remediation-state.json.tmp` is the temporary name of the pass and of Spot Core
  alike: when both write at once, either content or an unreadable mixture is put in
  place, and whoever renames second fails (`WritesCollide`).
- A call of the pass may be refused or fail (`PassIsRefused`). A quarantine for a
  routing violation has "routing" in its reason, is classified high risk and is
  answered 403 unless `AUTONOMY_ALLOW_HIGH_RISK` (`AllowHighRisk`). The run has it
  TRUE, which includes the refusals and so covers both settings.
- A pass may end at any point between its first read and its `mv` (`PassIsCut`: a kill,
  or `set -e` when jq fails). What it has asked for is done, and the entry that goes
  with it is not written.

A request of a pass is taken up by Spot Core at once or not at all; a request of an
operator may come at any time.

Properties:

- `HoldStands`: a hold an operator was told is in place stays until he releases it, a
  violation turns it into a timed quarantine, or a pass releases it because the worker's
  degradation is cleared (which releases whatever quarantine there is). This is so
  before, during and after passes, whether they write or are cut, and whatever calls
  for other workers do, fail at or roll back. Three things the code does not protect
  are taken out where they happen: a hold confirmed while a pass is under way, which
  writes back what it had read; a hold on top of an `until_ts` left by an earlier
  quarantine, which the next pass takes for expired (`update_remediation_quarantine`
  keeps the field); and every hold, when the file itself is lost in one of the two ways
  above.
- `StatusFollows` (liveness): whatever the races, a quarantine that settles in the
  remediation state settles in what routing reads.
- `TimedHoldsEnd` (liveness): as long as passes go on being made and written, a
  quarantine with a deadline ends, even if Spot Core refuses the releases the passes ask
  for, unless an overlapping call has removed the deadline.

Fairness. Time passes, the API serves and the watch runs, all weak. For the watch the
repository has no unit or timer; its cycles are named by `spot-role-revert.py:4` ("Run by
fleet-watch on every cycle"), and that is what the assumption rests on. Nothing in the
repository starts the remediation pass, so nothing forces one to begin or to end:
`TimedHoldsEnd` has as its condition that `PassWrites` happens again and again, which is up
to whoever runs the script. Operators and violations are not forced either.

Bounds. Two workers, one of which the watch does not list (its calls fail
verification and are rolled back); one quarantine period; three events in all
(`MaxCalls`) among operator calls, violations, cleared degradations, broken calls,
cut passes and colliding writes. Refusals and passes without any of these are not
limited.

## 7. The apply queue

`ApplyQueue` composes `spot-governed-apply-queue.py` with the orchestrator it
runs. A command is a process that loads `queue.json`, checks its plan in the copy,
and writes the copy back; a dispatch runs the orchestrator in between, which reads
the fixture's state and the replay guard, writes the one and then the other.
Files are truncated and then filled (`Path.write_text`), so each write is two steps
and an end in between leaves a torn file, which every later command refuses to
parse. A command ends in three ways besides its own: killed with its orchestrator
(`Cut`), killed alone, so that the orchestrator goes on and nobody waits for its
receipt (`Orphaned`), or the orchestrator fails or is killed and the command saves the
plan as blocked (`OrchestratorFails`).

- `OutcomesAreEarned`: a plan the queue calls dispatched or rolled back has changed
  the fixture, and what changed it had been approved, however commands overwrite
  each other's copies.
- `ReplayBlocked`: a plan is applied once, even if an older copy of the queue makes
  it approved again, and also by orchestrators that outlived their command. Excluded
  are orchestrators that overlap and one that is cut or fails between the fixture's
  state and the guard.

What is not true, and no property says: that a rejection lasts. A reject and an
approve of one plan that overlap leave the later copy.

Bounds. Two processes overlap in every way the files allow, since there are no
more than two copies to confuse; two plans, one whose verification fails, let one
command overwrite the other plan's state. A plan is counted as applied at most
twice.

## 8. Runs

| Run | Expectation | What it shows |
|-|-|-|
| `endpoint` | pass | the lease file is well formed, `AuthorityTenure` is implemented, and the shared address follows the lease |
| `primary` | pass | the primary's safety and liveness, with one fault |
| `backup` | pass | the backup's safety and liveness, with one power loss, late commands and late statuses |
| `pair` | pass | both hosts at once: epochs are never shared, the overlap is bounded by the lease's own expiry |
| `dispatcher` | pass | exact counters, limits, lock, owners serve, every request answered |
| `storage` | pass | storage: single use, owned leftovers, own copies, with commands that outlive their run and queries that fail |
| `install` | pass | installation: single use, clean rollbacks, true receipts |
| `fleet` | pass | holds stand through passes, cuts and rollbacks in place; status follows; timed quarantines end while passes are written |
| `apply` | pass | outcomes earned, replay blocked, with orphaned and failing orchestrators |
| `witness_evidence` | violation | finding 1 |
| `dispatcher_leak` | violation | finding 2 |
| `install_timeout` | violation | finding 3 |

`CHECK_DEADLOCK FALSE` stands where the system may stop: the hosts' clocks end at
their bound, the dispatcher is at rest when every request is done, installations
when every authorization is used, the queue when its files are torn. The storage
and the quarantine runs check for deadlock. The largest runs have 0.6 million
(`backup`), 0.8 million (`fleet`), 1.4 million (`storage`) and 4 million (`apply`)
distinct states. For every property of a passing run
`PROJECT.json` names a mutant of the code's definition under which TLC finds the
property violated.

## 9. Proofs

TLAPS proves for every lease length, margin, period, delay and number of faults,
for every number of requests, workers, lanes, limits and retries, and for every
number of transactions, runs, files, plans, processes and calls:

- `WitnessProofs`: `WitnessTypes`, and `WitnessImplementsTenure`, step simulation
  under the refinement map. The type invariant carries it: the expiry is zero
  exactly when nobody holds.
- `FailoverProofs`, the primary: `PrimaryTypes`, `LeaseOnFileIsWitnessed`,
  `FenceIsQuiet`, `PrimaryInvariantHolds`, `SelfFencingInTime`, `DisplacementEnds`, all
  from one inductive invariant: types, `CacheIsWitnessed` and `PrimaryInv`. The
  properties alone are not inductive: that a stored renewal never shortens the lease
  needs the order of file, reply and witness (`LeasesInOrder`); that the fence goes up
  in time needs the schedule of the next pass relative to the lease on file
  (`EnforcementScheduled`); that a fenced host is quiet needs what each step of a fence
  command has already stopped (`FencePhases`).
- `FailoverProofs`, the pair: `PairImplementsWitness`, `PairImplementsPrimary` and
  `PairImplementsBackup` show that the pair is each of the three modules with the other
  host for its environment, step by step. This is what makes the proofs of the parts
  proofs about the whole. It is not for free: a step of one host must be a stutter of
  the other, which holds because the auxiliary times are already up to date
  (`heldUntil`, `PairLinks`), and a renewal by the backup must stay within the epochs
  handed out, which holds because it keeps the epoch. `TokensNeverShared` then
  follows from `CacheIsWitnessed` on one side and `LeaseInHand` and `MarkerIsWitnessed`
  on the other: a host gets a new epoch only as the witness's current one
  (`PrimaryTokensGrow`, `BackupTokensGrow`), and what the other host holds is then
  either older or names the other. `OverlapBounded` joins `DisplacementEnds` and
  `RollbackInTime`; `PairKeepsTenures` carries `AuthorityTenure` over to the pair.
- `FailoverProofs`, the endpoint: `EndpointTypes`, `AddressHeldAlone`,
  `EndpointKeepsTenures`. `HeldAlone` is inductive with `ProbesInTime`: a probe is no
  older than its time, and an address that appeared on the other host since it began is
  younger than the probe.
- `BackupProofs`: `BackupTypes`, `MarkerImpliesAuthority`, `MarkerEpochIsWitnessed`,
  `NoRuntimeWithoutMarker`, `BackupInvariantHolds`, `RollbackInTime`, from types, the
  marker properties and `BackupInv`: the reply a command acts on is the witness's
  (`LeaseInHand`), what each step of a command finds on disk (`ActivationPhases`),
  and when the next pass comes (`WatchdogScheduled`). The schedule does not rest on the
  lease the witness has now: a status may be on its way since before a revocation. It
  rests on the leases ever given (`grantedUntil`): no status says more than one of them
  did, so a pass that believes a late one ends no later than it would have with the
  lease still in force.
- `DispatcherProofs`: `DispatcherTypes`, `DispatcherInvariant`, `CountersExact`,
  `LimitsRespected`, `LockProtectsCounters`, `OwnersServeTheirs`. The counters are
  exact because a request has in hand what it will give back (`ChoicesInHand`),
  and the cardinality of the holders of a place grows and shrinks with each step
  (`EnteringCounts`, `LeavingCounts`, `SwitchingCounts`, `StandingCounts`). The
  lock's queue is a list without repetitions (`QueueMatchesPhases`), so whoever
  leaves makes room for somebody else, which is what `LockFreezesCounters` needs.
- `StorageProofs`: `StorageTypesHold`, `UnitsAreOwned`, `CopiesAreOwn`,
  `StorageImplementsSingleUse`. The invariant says what each step finds in the
  records (`RecordsInStep`), that every late command is of a consumed transaction
  (`LateTyped`), and whose the units on the host are
  (`UnitsInStep`): either another transaction answers for them (`Others`), or a rollback
  without noted failures has put down, disabled and removed the units it has passed, as
  far as they are `Up` and not slipped (`UnitsOfAttempt`). The refinement maps an attempt
  to open until its last late command has ended; a step of a late command is then a
  step of its attempt, or its end.
- `InstallProofs`: `InstallTypesHold`, `RollbackLeavesNothing`, `LastReceiptTrue`,
  `InstallImplementsSingleUse`. That a rolled back transaction leaves nothing *for
  good* needs the backups: one taken while files of another transaction were on the
  host could bring them back, so it holds no file of the transaction at work
  (`WrittenByConsumed`) and none of one that was rolled back (`BackupsClean`);
  `RollbackClean` follows the rollback file by file. The last receipt is followed
  while its attempt is open (`OpenTrue`) and after it (`SettledTrue`), up to the two
  exceptions section 5 names: the theorem says nothing of a receipt INSTALLED_DORMANT
  whose directory fsync raised, nor of a slipped file under ROLLED_BACK.
- `FleetProofs`: `FleetTypes`, `HoldsStand`. The copies in flight decide: a hold is in the file
  unless a rollback is copying it at that moment (`FileKeepsHolds`); it is in every copy
  a call or its rollback may still put back, and no call under way releases it
  (`CallKeepsHolds`); and it is in the pass's copy, which releases it neither by itself
  nor by a call it has still to make (`PassKeepsHolds`). A pass that is cut leaves
  the first two as they are.
- `ApplyProofs`: `QueueTypes`, `OutcomesEarned`, `ReplayIsBlocked`. Every copy of the
  queue in a process is as earned as the file, and a plan that has been applied is
  in the guard, or in the hand of the only orchestrator that will write it there,
  whether its command lives or not.

Each proof assumes the named assumption of its module; TLC evaluates them in the
runs. The bounds of the models are parameters and constrain nothing in the proofs.

Proved only, and not repeated by a run: the inductive invariants (`PrimaryInv`,
`BackupInv`, `DispatcherInv`, `PairLinks`, `ProbesInTime`), the refinements of the pair,
and `MarkerIsWitnessed`, whose consequence `TokensDistinct` the `pair` run checks.

Only model-checked: liveness under fairness (`LeaseLossFences`, `FencedHostStops`,
`LeaseLossRollsBack`, `HalfActivationRollsBack`, `EveryRequestAnswered`,
`StatusFollows`, `TimedHoldsEnd`, `AddressFollowsLease`), which is outside what TLAPS proves, and of course
the violations.

## 10. Findings

1. *A grant needs no evidence* (`spot-witness-authority.sh:258`).
   `validate_backup_grant` is called as the condition of `if !`, where bash ignores
   errexit: only its last test decides, the age of the observation. The tests of
   the primary's API, of the backup and of `takeover_candidate` have no effect,
   although the refusal speaks of "fresh independent takeover evidence".
2. *Counters leak* (`app.py:3422`). A request that fails on an alternate releases
   its first worker twice and the alternate never; the alternate's lane stays
   occupied until the process restarts.
3. *A timeout is not settled* (`controlled-read-observe-install-transaction.py:1045`).
   `default_runner` gives a command 120 s; `subprocess.TimeoutExpired` is neither
   `OSError` nor `ExecutionError`, so an installation whose daemon-reload or
   regression hangs ends with its files in place, no rollback and no receipt. The
   blueprint promises that any failure after the first change triggers rollback.

Behaviour of the code that the models have, that looks unintended, and that no
run is spent on:

- The watchdog samples the runtime during an activation, waits for the control lock
  behind it and rolls back what has meanwhile become complete
  (`spot-backup-lease-enforce.sh:168`).
- `return_passive` writes `authority_holder=none` and `materialize` demands
  `spot-core` there: after one deactivation no release can be materialized
  (`spot-backup-control.sh:196`, `spot-failover-materialize.sh:52`).
- A power loss between the authority file and the marker leaves authority active on
  file, and the watchdog, which looks at the marker first, reports passive
  (`spot-backup-lease-enforce.sh:96`).
- The alternate's limits are checked before the lock is awaited and not when it is
  granted (`app.py:2069`): a limit can be exceeded. The queue wait holds the lock
  that every release needs (`app.py:3394`): a lane that becomes free during the wait
  stays counted, and the request is refused while the owner is idle.
- The watchdog believes a status that says "valid" although the lease was revoked or
  taken back while the answer was on its way: the ssh has no overall timeout, and of the
  answer only `expires_epoch > now` is checked (`spot-backup-lease-enforce.sh:123-146`).
  The backup then stays active for up to another period.
- A hold an operator sets while a remediation pass is under way is lost with the pass's
  `mv`, or never ends (`fleet-remediate.sh:250`); a hold on top of an old `until_ts` is
  released as expired. A pass that is cut between its calls and the `mv` leaves the
  two files with different stories. The pass and Spot Core write the same temporary
  file, and the rollback of a failed call copies both files in place
  (`app.py:2118`): a reader of a torn file takes `{}`, and every hold is gone.
- `local_state_allows_endpoint` is the condition of an `if`, so on the backup only its
  last `grep` counts, and the marker does not (`spot-failover-endpoint.sh:102`). The
  lease and the local state are not looked at again after up to four seconds of
  probing (`spot-failover-endpoint.sh:156`).
- A rename that took effect before `atomic_install` raised stays although the receipt
  says ROLLED_BACK (`...install-transaction.py:981`, 707, 989), and a receipt
  INSTALLED_DORMANT that was linked before the fsync of its directory raised stays over
  files that were rolled back (1043, 249, 1074). The blueprint (195-197, 216) promises
  otherwise. `LastReceiptIsTrue` names both as its exceptions.
- A storage rollback is reported while a unit is up, or about to be: the stop is
  skipped when the unit reads as inactive and not mounted, which it does while it is
  activating or when the query fails (`post239-k21d-scoped-nfs-storage.py:949`,
  1063-1065). `rollback.md:30` forbids it: "Never claim rollback success while either
  scoped target remains mounted." These are the `slipped` units of
  `LeftoversAreOwned`.
- A killed storage run leaves its preparer copying without the lock, so a second run
  can overlap it.
- NFS copies of a failed storage transaction make every later one fail
  (`post239-k21d-scoped-nfs-storage.py:763`).
- Overlapping commands of the apply queue lose a rejection, and a crash between the
  fixture's state and the guard allows a replay.

Seen while reading, outside the models: `classify_route` judges a choice by the
owner's state after the call (`app.py:3426`), so a legitimate fallback can be audited
as `selected_non_owner_while_owner_admissible`. That `OwnersServe` holds also
rests on the configuration: `gather_candidates` looks for the owner among
`role_priority` (`app.py:1664-1670`), and nothing in the code makes an owner appear
there. `OwnerOf` in the model is an owner that is listed, as the configuration has it.

## 11. Not modelled

The components without an "M" in the inventory, and why:

- Most of the repository's Python validates documents: contracts, policies,
  fixtures of numbered phases, recorded proofs, each a pure function of one JSON
  file with its own test script. Together with reports, the user interface and
  one-off scripts they are the bulk of the lines and have no state that outlives
  them, no concurrency and no order of steps; a module about one of them could only
  repeat its conditions. For this reason the definitions of these models stand for a
  small part of the repository's lines; the parts where steps interleave, are cut or
  fail half-way are where the modules are.
- The runtime queue: fixture scripts (`fixture_only`), the same unlocked rewriting
  of a JSON file that `ApplyQueue` models.
- Self-heal, warm models and the liveness loop: sequences of ssh or HTTP calls
  against one worker whose only state is a cool-down.

Of the modelled components: the contents of releases, records and files and their
checksums, ssh keys and forced commands, the text of logs and answers, scores and
preferences of the dispatcher, latencies, fallback counters of the remediation pass,
and the other actions under `execute_with_enforcement` (restart-service, write-file),
each one remote command between the same backup and rollback.

## 12. Plan

| Step | Module | Composes | Question | State |
|-|-|-|-|-|
| 1 | `AuthorityTenure`, `WitnessAuthority` | - | one holder per tenure | done, proved |
| 2 | `PrimaryHost` | witness | does the primary stop in time | done, proved |
| 3 | `BackupHost` | witness | do files, runtime and lease agree | done, proved |
| 4 | `Dispatcher` | - | counters, limits, answers | done, proved |
| 5 | `SingleUseAttempt`, `StorageTransaction` | - | used once; what does a cut leave | done, proved |
| 6 | `InstallTransaction` | - | what does a rollback leave; is the receipt true | done, proved |
| 7 | `FleetQuarantine` | API, remediation and watch over shared files | does a hold stand through passes; does it end | done, safety proved |
| 8 | `ApplyQueue` | queue and orchestrator | approved, and applied once | done, proved |
| 9 | `FailoverPair` | `PrimaryHost`, `BackupHost` | do the hosts keep apart: epochs, overlap | done, proved |
| 10 | `SharedEndpoint` | witness | who has the address | done, safety proved |

What would come next: a clock of seconds for the endpoint, with `allowed` taken from
the files of `FailoverPair`; an admission counter as an abstract specification that
`Dispatcher` implements as long as no alternate fails.

## 13. Running it

`tlc -config MCPrimary.cfg MCPrimary.tla` checks one run (the configurations are
named in `PROJECT.json`); each takes at most about three minutes on two cores.
`tlapm FailoverProofs.tla` checks the proofs of a module in a few minutes.
