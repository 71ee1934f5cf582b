----------------------------- MODULE ApplyQueue -----------------------------
(***************************************************************************)
(* The governed apply queue (src/watch/phase6/spot-governed-apply-queue.py)*)
(* and the orchestrator it runs (spot-fixture-service-orchestrator.py).    *)
(* Every command is a process that loads queue.json, decides on its copy,  *)
(* and writes the copy back; a dispatch runs the orchestrator in between,  *)
(* which writes the fixture's state.json and then replay-guard.json.       *)
(* There is no lock, and a file is truncated before it is written.         *)
(*                                                                         *)
(* A plan and its execution identity are hashes of the same three fields,  *)
(* so a plan stands for both.                                              *)
(***************************************************************************)
EXTENDS Naturals

CONSTANTS Plans, Procs,
          Unverified,   \* plans whose verification fails: they are rolled back
          Torn          \* content of a truncated file

ASSUME QueueAssumption == Unverified \subseteq Plans

VARIABLES queue,     \* queue.json: the state of every plan ("absent": not in it)
          stateTorn, \* state.json of the fixture has been truncated
          guard,     \* replay-guard.json: execution_ids
          proc,      \* the command each process executes
          applied,   \* history: how often each plan changed the fixture (at most 2),
          approvals, \* which plans were approved,
          exposed    \* and whether two orchestrators overlapped or one ended
                     \* between the fixture's state and the guard

vars == <<queue, stateTorn, guard, proc, applied, approvals, exposed>>

PlanStates == {"absent", "pending", "approved", "rejected", "dispatched",
               "blocked", "rolled_back"}
Queues == [Plans -> PlanStates]
Idle   == [step |-> "idle"]
\* fixture.., guard.. and queue..: the file is truncated, then filled.
Steps  == {"look", "fixture", "fixtureFill", "guard", "guardFill", "queue", "queueFill"}
\* An orphan is the orchestrator of a queue command that is gone.
Commands == [step : Steps, plan : Plans, queue : Queues, guard : SUBSET Plans, orphan : BOOLEAN]

QueueTypeOK ==
  /\ queue = Torn \/ queue \in Queues
  /\ stateTorn \in BOOLEAN
  /\ guard = Torn \/ guard \in SUBSET Plans
  /\ proc \in [Procs -> {Idle} \cup Commands]
  /\ applied \in [Plans -> 0 .. 2]
  /\ approvals \subseteq Plans
  /\ exposed \in BOOLEAN

Init ==
  /\ queue = [x \in Plans |-> "absent"]
  /\ stateTorn = FALSE
  /\ guard = {}
  /\ proc = [p \in Procs |-> Idle]
  /\ applied = [x \in Plans |-> 0]
  /\ approvals = {}
  /\ exposed = FALSE

\* A process whose orchestrator has passed its checks.
Orchestrating(p) ==
  proc[p] # Idle /\ proc[p].step \in {"fixture", "fixtureFill", "guard", "guardFill"}

-----------------------------------------------------------------------------
(* spot-governed-apply-queue.py                                            *)

\* load_queue and the command's own check; a command that is refused, or
\* that cannot parse the file, ends without a trace.
Load(p, x, from, to, next) ==
  /\ proc[p] = Idle
  /\ queue # Torn
  /\ queue[x] = from
  /\ proc' = [proc EXCEPT ![p] =
       [step |-> next, plan |-> x, queue |-> [queue EXCEPT ![x] = to], guard |-> {},
        orphan |-> FALSE]]
  /\ UNCHANGED <<queue, stateTorn, guard, applied, exposed>>

Enqueue(p, x) == Load(p, x, "absent", "pending", "queue") /\ UNCHANGED approvals

Reject(p, x) == Load(p, x, "pending", "rejected", "queue") /\ UNCHANGED approvals

Approve(p, x) == /\ Load(p, x, "pending", "approved", "queue")
                 /\ approvals' = approvals \cup {x}

\* Mutant: a plan that waits for its approval is dispatched.
DispatchPending(p, x) == Load(p, x, "pending", "approved", "look") /\ UNCHANGED approvals

Dispatch(p, x) == Load(p, x, "approved", "approved", "look") /\ UNCHANGED approvals

\* The orchestrator is over: a non-zero exit blocks the plan, a receipt
\* decides its state.  The copy is the one loaded before.  Nobody waits for an
\* orphan.
Concludes(p, outcome) ==
  IF proc[p].orphan
  THEN proc' = [proc EXCEPT ![p] = Idle]
  ELSE proc' = [proc EXCEPT ![p].step = "queue", ![p].queue[proc[p].plan] = outcome]

-----------------------------------------------------------------------------
(* spot-fixture-service-orchestrator.py                                    *)

\* Mutant: no replay check.
LookAtState(p) ==
  /\ proc[p] # Idle /\ proc[p].step = "look"
  /\ \/ /\ ~stateTorn /\ guard # Torn
        /\ proc' = [proc EXCEPT ![p].step = "fixture", ![p].guard = guard]
        /\ exposed' = (exposed \/ \E other \in Procs : Orchestrating(other))
     \/ Concludes(p, "blocked") /\ UNCHANGED exposed
  /\ UNCHANGED <<queue, stateTorn, guard, applied, approvals>>

\* Both files are loaded, the identity is looked up, the lease is checked.
Look(p) ==
  /\ proc[p] # Idle /\ proc[p].step = "look"
  /\ \/ /\ ~stateTorn /\ guard # Torn
        /\ proc[p].plan \notin guard
        /\ proc' = [proc EXCEPT ![p].step = "fixture", ![p].guard = guard]
        /\ exposed' = (exposed \/ \E other \in Procs : Orchestrating(other))
     \* replayed, unreadable, or the lease expired
     \/ Concludes(p, "blocked") /\ UNCHANGED exposed
  /\ UNCHANGED <<queue, stateTorn, guard, applied, approvals>>

\* The new state, the planned one or rollback_restored, with its receipt.
ApplyFixture(p) ==
  /\ proc[p] # Idle
  /\ \/ /\ proc[p].step = "fixture"
        /\ stateTorn' = TRUE
        /\ proc' = [proc EXCEPT ![p].step = "fixtureFill"]
        /\ UNCHANGED applied
     \/ /\ proc[p].step = "fixtureFill"
        /\ stateTorn' = FALSE
        /\ applied' = [applied EXCEPT ![proc[p].plan] = IF @ < 2 THEN @ + 1 ELSE @]
        /\ proc' = [proc EXCEPT ![p].step = "guard"]
  /\ UNCHANGED <<queue, guard, approvals, exposed>>

\* Mutant: the receipt's result is taken for the plan's state.
ResultAsState(x) == IF x \in Unverified THEN "rolled_back" ELSE "applied"

Outcome(x) == IF x \in Unverified THEN "rolled_back" ELSE "dispatched"

\* The guard that was loaded, with the identity appended; then the receipt
\* goes to the journal, which may fail, and to the queue command.
WriteGuard(p) ==
  /\ proc[p] # Idle
  /\ \/ /\ proc[p].step = "guard"
        /\ guard' = Torn
        /\ proc' = [proc EXCEPT ![p].step = "guardFill"]
     \/ /\ proc[p].step = "guardFill"
        /\ guard' = proc[p].guard \cup {proc[p].plan}
        /\ Concludes(p, Outcome(proc[p].plan)) \/ Concludes(p, "blocked")
  /\ UNCHANGED <<queue, stateTorn, applied, approvals, exposed>>

\* A write raises, before the file is truncated or after; or the orchestrator
\* alone is killed.  The queue command sees a non-zero exit.
OrchestratorFails(p) ==
  /\ Orchestrating(p)
  /\ exposed' = (exposed \/ proc[p].step = "guard")
  /\ Concludes(p, "blocked")
  /\ UNCHANGED <<queue, stateTorn, guard, applied, approvals>>

-----------------------------------------------------------------------------
\* save_queue: the whole copy, whatever was saved since it was loaded.
SaveQueue(p) ==
  /\ proc[p] # Idle
  /\ \/ /\ proc[p].step = "queue"
        /\ queue' = Torn
        /\ proc' = [proc EXCEPT ![p].step = "queueFill"]
     \/ /\ proc[p].step = "queueFill"
        /\ queue' = proc[p].queue
        /\ proc' = [proc EXCEPT ![p] = Idle]
  /\ UNCHANGED <<stateTorn, guard, applied, approvals, exposed>>

\* The queue command is killed and its orchestrator goes on.
Orphaned(p) ==
  /\ proc[p] # Idle /\ ~proc[p].orphan
  /\ proc[p].step = "look" \/ Orchestrating(p)
  /\ proc' = [proc EXCEPT ![p].orphan = TRUE]
  /\ UNCHANGED <<queue, stateTorn, guard, applied, approvals, exposed>>

\* The command is killed, with the orchestrator it runs.
Cut(p) ==
  /\ proc[p] # Idle
  /\ exposed' = (exposed \/ proc[p].step = "guard")
  /\ proc' = [proc EXCEPT ![p] = Idle]
  /\ UNCHANGED <<queue, stateTorn, guard, applied, approvals>>

Next ==
  \E p \in Procs :
    \/ \E x \in Plans : Enqueue(p, x) \/ Reject(p, x) \/ Approve(p, x) \/ Dispatch(p, x)
    \/ Look(p) \/ ApplyFixture(p) \/ WriteGuard(p) \/ OrchestratorFails(p)
    \/ SaveQueue(p)
    \/ Orphaned(p) \/ Cut(p)

Spec == Init /\ [][Next]_vars

-----------------------------------------------------------------------------
(* Properties.                                                             *)

\* However commands overwrite each other's queue and wherever they are cut, a
\* plan the queue calls dispatched or rolled back did change the fixture, and
\* what changed the fixture had been approved.
OutcomesAreEarned ==
  \A x \in Plans :
    /\ queue # Torn /\ queue[x] \in {"dispatched", "rolled_back"} => applied[x] > 0
    /\ applied[x] > 0 => x \in approvals

\* PHASE6-SUPERVISED-OPERATIONAL-AUTONOMY.md: "Replay attempts must be
\* blocked."  A dispatched plan may become approved again in the queue (a
\* command that had loaded it before saves it back), and files may be left
\* torn; it is applied once all the same.  What the guard does not cover is
\* excluded: orchestrators that overlap (both read the guard before either
\* writes it, and one's write loses the other's identity) and one that is cut
\* or fails after the fixture's state and before the guard.
ReplayBlocked ==
  ~exposed => \A x \in Plans : applied[x] <= 1
=============================================================================
