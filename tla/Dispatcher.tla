----------------------------- MODULE Dispatcher -----------------------------
(***************************************************************************)
(* The dispatcher of Spot Core (src/spot-core/spotcore/app.py, exec_route):*)
(* a request waits under ACTIVE_LOCK for a worker with a free lane and     *)
(* model, is counted there while its call runs, and moves to alternate     *)
(* workers when the call fails.  One asyncio process: what lies between    *)
(* two awaits is one step, and ACTIVE_LOCK is first come, first served.    *)
(*                                                                         *)
(* A candidate is a worker's lane with a model.  It occupies the counters  *)
(* of its worker, its lane and its model (its places), each with a limit.  *)
(***************************************************************************)
EXTENDS Naturals, Sequences, FiniteSets

CONSTANTS Requests,
          Candidates, WorkerOf, PlacesOf, Limit,
          Suits,          \* candidates that serve the request's role and model
          OwnerOf,        \* role_owner of its role, or None
          AllowFallback,  \* the requests with allow_fallback
          Pin,            \* req.worker, or None
          None,
          SameWorkerRetries, AlternateRetries,   \* retry_policy
          MaxChanges      \* bound: reports of the watch that change a worker

Workers == {WorkerOf[c] : c \in Candidates}
Places  == UNION {PlacesOf[c] : c \in Candidates}

ASSUME DispatcherAssumption ==
  /\ IsFiniteSet(Requests)
  /\ PlacesOf \in [Candidates -> SUBSET Places]
  /\ WorkerOf \in [Candidates -> Workers]
  /\ Limit \in [Places -> Nat]
  /\ Suits \in [Requests -> SUBSET Candidates]
  /\ OwnerOf \in [Requests -> Workers \cup {None}]
  /\ Pin \in [Requests -> Workers \cup {None}]
  /\ AllowFallback \subseteq Requests
  /\ None \notin Workers \cup Candidates
  /\ SameWorkerRetries \in Nat
  /\ AlternateRetries \in Nat
  /\ MaxChanges \in Nat

VARIABLES active,      \* ACTIVE_REQUESTS, ACTIVE_GPU_REQUESTS, ACTIVE_MODEL_REQUESTS
          lockq,       \* ACTIVE_LOCK: its holder, then those who wait for it
          penalised,   \* PENALTY_BOX
          down,        \* workers the watch reports unhealthy
          phase,       \* where each request is
          tries,       \* same-worker retries it has used
          initial,     \* initial_choice
          current,     \* current_choice of call_generate_with_retry
          target,      \* the choice it switches to, or releases
          attempted,   \* attempted_workers
          outcome,
          audit,       \* route_class of its audit record
          lateSwitch,  \* aux: somebody had to wait for the lock to switch
          changes

choiceVars == <<initial, current, attempted>>
healthVars == <<penalised, down, changes>>
vars == <<active, lockq, phase, tries, choiceVars, target, outcome, audit,
          lateSwitch, healthVars>>

Phases   == {"idle", "queued", "calling", "switching", "releasing", "done"}
Outcomes == {"none", "ok", "error", "refused"}
Classes  == {"none", "manual_override", "unowned", "primary", "fallback", "violation"}

DispatcherTypeOK ==
  /\ active \in [Places -> Nat]
  /\ lockq \in Seq(Requests)
  /\ penalised \subseteq Workers
  /\ down \subseteq Workers
  /\ phase \in [Requests -> Phases]
  /\ tries \in [Requests -> Nat]
  /\ initial \in [Requests -> Candidates \cup {None}]
  /\ current \in [Requests -> Candidates \cup {None}]
  /\ target \in [Requests -> Candidates \cup {None}]
  /\ attempted \in [Requests -> SUBSET Workers]
  /\ outcome \in [Requests -> Outcomes]
  /\ audit \in [Requests -> Classes]
  /\ lateSwitch \in BOOLEAN
  /\ changes \in Nat

Init ==
  /\ active = [p \in Places |-> 0]
  /\ lockq = <<>>
  /\ penalised = {}
  /\ down = {}
  /\ phase = [r \in Requests |-> "idle"]
  /\ tries = [r \in Requests |-> 0]
  /\ initial = [r \in Requests |-> None]
  /\ current = [r \in Requests |-> None]
  /\ target = [r \in Requests |-> None]
  /\ attempted = [r \in Requests |-> {}]
  /\ outcome = [r \in Requests |-> "none"]
  /\ audit = [r \in Requests |-> "none"]
  /\ lateSwitch = FALSE
  /\ changes = 0

-----------------------------------------------------------------------------
(* Counters, health and the choice of candidates.                          *)

Taken(a, c) == [p \in Places |-> IF p \in PlacesOf[c] THEN a[p] + 1 ELSE a[p]]

\* Mutant: a counter that is not removed when it is zero.
GivenBelowZero(a, c) == [p \in Places |-> IF p \in PlacesOf[c] THEN a[p] - 1 ELSE a[p]]

Given(a, c) == [p \in Places |-> IF p \in PlacesOf[c] /\ a[p] > 0 THEN a[p] - 1 ELSE a[p]]

\* Mutant: at the limit counts as below it.
FreeAtLimit(a, c) == \A p \in PlacesOf[c] : a[p] <= Limit[p]

Free(a, c) == \A p \in PlacesOf[c] : a[p] < Limit[p]

Healthy(w, penalties) == w \notin penalties /\ w \notin down

\* evaluate_owner_state: the owner is healthy and could admit the request.
OwnerReady(r, a, penalties) ==
  /\ Healthy(OwnerOf[r], penalties)
  /\ \E c \in Suits[r] : WorkerOf[c] = OwnerOf[r] /\ Free(a, c)

\* Mutant: an owner that is not ready is passed over for every request.
AnyWorkerIfOwnerBusy(r, penalties) ==
  IF Pin[r] # None THEN {Pin[r]}
  ELSE IF OwnerOf[r] \in Workers /\ OwnerReady(r, active, penalties) THEN {OwnerOf[r]}
    ELSE Workers

WorkersFor(r, penalties) ==
  IF Pin[r] # None THEN {Pin[r]}
  ELSE IF OwnerOf[r] \in Workers /\ (r \in AllowFallback => OwnerReady(r, active, penalties))
    THEN {OwnerOf[r]}
    ELSE Workers

\* gather_candidates; the best score is any of them.
Choices(r, penalties) ==
  {c \in Suits[r] : /\ WorkerOf[c] \in WorkersFor(r, penalties)
                    /\ Healthy(WorkerOf[c], penalties)
                    /\ Free(active, c)}

\* claim_alternate_candidate; alternate_worker_allowed asks for no more than
\* gather_candidates did.
Alternates(r, penalties) ==
  IF Pin[r] # None THEN {}
  ELSE {c \in Choices(r, penalties) : WorkerOf[c] \notin attempted[r]}

\* classify_route
RouteClass(r, c, a, penalties) ==
  CASE Pin[r] # None              -> "manual_override"
    [] Pin[r] = None /\ OwnerOf[r] = None -> "unowned"
    [] Pin[r] = None /\ OwnerOf[r] # None /\ WorkerOf[c] = OwnerOf[r] -> "primary"
    [] OTHER -> IF r \in AllowFallback /\ ~OwnerReady(r, a, penalties) THEN "fallback"
                                                                      ELSE "violation"

-----------------------------------------------------------------------------
(* Admission: choose_worker_and_model and increment_active under the lock. *)

LockFree == lockq = <<>>

OnTurn(r, what) == ~LockFree /\ Head(lockq) = r /\ phase[r] = what

Admit(r, c) ==
  /\ phase' = [phase EXCEPT ![r] = "calling"]
  /\ initial' = [initial EXCEPT ![r] = c]
  /\ current' = [current EXCEPT ![r] = c]
  /\ attempted' = [attempted EXCEPT ![r] = {WorkerOf[c]}]
  /\ active' = Taken(active, c)
  /\ UNCHANGED <<tries, target, outcome, audit, lateSwitch, healthVars>>

\* A request that finds the lock free and a candidate does not wait at all.
ArriveAdmitted(r) ==
  /\ phase[r] = "idle"
  /\ LockFree
  /\ \E c \in Choices(r, penalised) : Admit(r, c)
  /\ UNCHANGED lockq

ArriveQueued(r) ==
  /\ phase[r] = "idle"
  /\ ~LockFree \/ Choices(r, penalised) = {}
  /\ phase' = [phase EXCEPT ![r] = "queued"]
  /\ lockq' = Append(lockq, r)
  /\ UNCHANGED <<active, tries, choiceVars, target, outcome, audit, lateSwitch, healthVars>>

\* The holder of the lock polls until it finds a candidate ...
QueuePolls(r) ==
  /\ OnTurn(r, "queued")
  /\ \E c \in Choices(r, penalised) : Admit(r, c)
  /\ lockq' = Tail(lockq)

\* Mutant: the queue wait has no end.
NeverGivesUp(r) == FALSE /\ UNCHANGED vars

\* ... or until wait_ms have passed: 503.
QueueGivesUp(r) ==
  /\ OnTurn(r, "queued")
  /\ Choices(r, penalised) = {}
  /\ phase' = [phase EXCEPT ![r] = "done"]
  /\ outcome' = [outcome EXCEPT ![r] = "refused"]
  /\ lockq' = Tail(lockq)
  /\ UNCHANGED <<active, tries, choiceVars, target, audit, lateSwitch, healthVars>>

-----------------------------------------------------------------------------
(* The end of a request: its `finally` gives the choice c back, at once or *)
(* when it gets the lock.                                                  *)

\* Mutant: it does not wait for the lock.
LeaveUnlocked(r, c, result) ==
  /\ outcome' = [outcome EXCEPT ![r] = result]
  /\ target' = [target EXCEPT ![r] = c]
  /\ phase' = [phase EXCEPT ![r] = "done"]
  /\ active' = Given(active, c)
  /\ UNCHANGED lockq

Leave(r, c, result) ==
  /\ outcome' = [outcome EXCEPT ![r] = result]
  /\ target' = [target EXCEPT ![r] = c]
  /\ IF LockFree
       THEN /\ phase' = [phase EXCEPT ![r] = "done"]
            /\ active' = Given(active, c)
            /\ UNCHANGED lockq
       ELSE /\ phase' = [phase EXCEPT ![r] = "releasing"]
            /\ lockq' = Append(lockq, r)
            /\ UNCHANGED active

\* The audit of a success is written after the release.
CallReturns(r) ==
  /\ phase[r] = "calling"
  /\ Leave(r, current[r], "ok")
  /\ audit' = IF LockFree
                THEN [audit EXCEPT ![r] = RouteClass(r, current[r], active', penalised)]
                ELSE audit
  /\ UNCHANGED <<tries, choiceVars, lateSwitch, healthVars>>

ReleaseOnTurn(r) ==
  /\ OnTurn(r, "releasing")
  /\ active' = Given(active, target[r])
  /\ phase' = [phase EXCEPT ![r] = "done"]
  /\ lockq' = Tail(lockq)
  /\ audit' = IF outcome[r] = "ok"
                THEN [audit EXCEPT ![r] = RouteClass(r, target[r], active', penalised)]
                ELSE audit
  /\ UNCHANGED <<tries, choiceVars, target, outcome, lateSwitch, healthVars>>

-----------------------------------------------------------------------------
(* call_generate_with_retry: a call fails.                                 *)

RecordFailure(r) ==
  /\ phase[r] = "calling"
  /\ penalised' = penalised \cup {WorkerOf[current[r]]}
  /\ UNCHANGED <<down, changes>>

Alternated(r) == current[r] # initial[r]

\* Some errors and some reports of the watch skip the retry: it may be left out.
RetrySameWorker(r) ==
  /\ RecordFailure(r)
  /\ ~Alternated(r)
  /\ tries[r] < SameWorkerRetries
  /\ tries' = [tries EXCEPT ![r] = @ + 1]
  /\ UNCHANGED <<active, lockq, phase, choiceVars, target, outcome, audit, lateSwitch>>

\* Mutant: the alternate is counted, the worker it replaces stays counted.
SwitchWithoutRelease(r, c) ==
  /\ active' = Taken(active, c)
  /\ current' = [current EXCEPT ![r] = c]
  /\ attempted' = [attempted EXCEPT ![r] = @ \cup {WorkerOf[c]}]
  /\ phase' = [phase EXCEPT ![r] = "calling"]
  /\ UNCHANGED <<tries, initial, outcome, audit>>

\* switch_active_allocation, and the next call
Switch(r, c) ==
  /\ active' = Taken(Given(active, current[r]), c)
  /\ current' = [current EXCEPT ![r] = c]
  /\ attempted' = [attempted EXCEPT ![r] = @ \cup {WorkerOf[c]}]
  /\ phase' = [phase EXCEPT ![r] = "calling"]
  /\ UNCHANGED <<tries, initial, outcome, audit>>

\* The candidate is chosen now; if the lock is taken, it is counted later.
ClaimAlternate(r) ==
  /\ RecordFailure(r)
  /\ Cardinality(attempted[r]) <= AlternateRetries
  /\ \E c \in Alternates(r, penalised') :
       IF LockFree
         THEN Switch(r, c) /\ UNCHANGED <<lockq, target>>
         ELSE /\ target' = [target EXCEPT ![r] = c]
              /\ phase' = [phase EXCEPT ![r] = "switching"]
              /\ lockq' = Append(lockq, r)
              /\ UNCHANGED <<active, tries, choiceVars, outcome, audit>>
  /\ UNCHANGED lateSwitch

SwitchOnTurn(r) ==
  /\ OnTurn(r, "switching")
  /\ Switch(r, target[r])
  /\ lockq' = Tail(lockq)
  /\ lateSwitch' = TRUE
  /\ UNCHANGED <<target, healthVars>>

\* The error is not retryable, or there is no alternate (left).  It leaves
\* exec_route's final_choice at the initial choice.
CallRaises(r) ==
  /\ RecordFailure(r)
  /\ Leave(r, initial[r], "error")
  /\ audit' = [audit EXCEPT ![r] = RouteClass(r, initial[r], active, penalised')]
  /\ UNCHANGED <<tries, choiceVars, lateSwitch>>

-----------------------------------------------------------------------------
(* Health.                                                                 *)

PenaltyExpires(w) ==
  /\ w \in penalised
  /\ penalised' = penalised \ {w}
  /\ UNCHANGED <<active, lockq, phase, tries, choiceVars, target, outcome, audit,
                 lateSwitch, down, changes>>

\* The fleet watch rewrites its state file.
WatchReports(w) ==
  /\ changes < MaxChanges
  /\ changes' = changes + 1
  /\ down' = IF w \in down THEN down \ {w} ELSE down \cup {w}
  /\ UNCHANGED <<active, lockq, phase, tries, choiceVars, target, outcome, audit,
                 lateSwitch, penalised>>

-----------------------------------------------------------------------------
QueueTurn(r) == QueuePolls(r) \/ QueueGivesUp(r)
CallEnds(r)  == CallReturns(r) \/ RetrySameWorker(r) \/ ClaimAlternate(r) \/ CallRaises(r)

Next ==
  \/ \E r \in Requests : \/ ArriveAdmitted(r) \/ ArriveQueued(r)
                         \/ QueuePolls(r) \/ QueueGivesUp(r)
                         \/ CallReturns(r) \/ RetrySameWorker(r)
                         \/ ClaimAlternate(r) \/ CallRaises(r)
                         \/ SwitchOnTurn(r) \/ ReleaseOnTurn(r)
  \/ \E w \in Workers : PenaltyExpires(w) \/ WatchReports(w)

\* A poll ends at the latest with wait_ms, a call with HTTP_TIMEOUT, and the
\* event loop resumes whoever holds the lock.
Fairness == \A r \in Requests : /\ WF_vars(QueueTurn(r))
                                /\ WF_vars(CallEnds(r))
                                /\ WF_vars(SwitchOnTurn(r))
                                /\ WF_vars(ReleaseOnTurn(r))

Spec     == Init /\ [][Next]_vars
FairSpec == Spec /\ Fairness

-----------------------------------------------------------------------------
Holding == {"calling", "switching", "releasing"}

Holders(p) == {r \in Requests : phase[r] \in Holding /\ p \in PlacesOf[current[r]]}

\* A request failed after it had moved to an alternate worker.
AlternateFailed == \E r \in Requests : outcome[r] = "error" /\ Alternated(r)

\* Each counter is the number of requests counted there (increment_active,
\* decrement_active, switch_active_allocation), as long as no request fails on
\* an alternate worker.
AccountingExact ==
  ~AlternateFailed => \A p \in Places : active[p] = Cardinality(Holders(p))

\* max_total and model_limits hold for what really runs (lane_admission_allowed,
\* worker_admission_allowed), as long as no alternate failed and every alternate
\* was counted in the step that chose it.
CapacityRespected ==
  ~AlternateFailed /\ ~lateSwitch => \A p \in Places : Cardinality(Holders(p)) <= Limit[p]

\* ACTIVE_LOCK keeps a poll and the increment that follows together: while its
\* holder stays the same, no counter changes.
LockFreezesCounters ==
  [][~LockFree /\ lockq' # <<>> /\ Head(lockq') = Head(lockq) => active' = active]_vars

\* What makes these inductive.  Who stands in the lock's queue, once each.
QueueMatchesPhases ==
  /\ \A i, j \in 1 .. Len(lockq) : lockq[i] = lockq[j] => i = j
  /\ \A r \in Requests : (\E i \in 1 .. Len(lockq) : lockq[i] = r)
                            <=> phase[r] \in {"queued", "switching", "releasing"}

\* What a request that is counted has chosen, and what it will give back.
ChoicesInHand ==
  \A r \in Requests :
    /\ phase[r] \in Holding => current[r] \in Candidates /\ initial[r] \in Candidates
    /\ phase[r] = "switching" => target[r] \in Candidates
    /\ phase[r] = "releasing" => /\ outcome[r] \in {"ok", "error"}
                                /\ target[r] = IF outcome[r] = "ok" THEN current[r] ELSE initial[r]
    /\ phase[r] \in {"idle", "queued", "calling", "switching"} => outcome[r] = "none"

\* No counter exceeds its limit while every alternate is counted at once.
CountersWithinLimits == ~lateSwitch => \A p \in Places : active[p] <= Limit[p]

\* The inductive invariant of the dispatcher (exec_route and what it calls).
DispatcherInv == /\ QueueMatchesPhases
                 /\ ChoicesInHand
                 /\ CountersWithinLimits

\* Every request is answered: the waits are bounded, although everybody who
\* could free capacity queues behind the request that waits for it.
EveryRequestAnswered == \A r \in Requests : phase[r] # "idle" ~> phase[r] = "done"

\* When all requests are done, nothing is counted ("claimed alternate worker").
AllReleased ==
  (\A r \in Requests : phase[r] \in {"idle", "done"}) => \A p \in Places : active[p] = 0

\* A request that may not fall back runs at the owner of its role and nowhere
\* else, alternates included (gather_candidates, shortlist_candidates), so that
\* classify_route never reports it as a violation. An owner is one of the workers
\* role_priority lists, which the configuration has so and the code takes as given.
OwnersServe ==
  \A r \in Requests : r \notin AllowFallback /\ Pin[r] = None /\ OwnerOf[r] \in Workers =>
    /\ phase[r] \in Holding => WorkerOf[current[r]] = OwnerOf[r]
    /\ audit[r] # "violation"
=============================================================================
