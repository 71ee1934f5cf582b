---------------------------- MODULE ApplyProofs ----------------------------
(***************************************************************************)
(* Proofs about ApplyQueue, for any number of processes and plans: the     *)
(* types, that outcomes are earned, and that a replay is blocked.          *)
(***************************************************************************)
EXTENDS ApplyQueue, TLAPS

USE DEF Queues, Idle, Steps, Commands, PlanStates

\* The commands and steps of one process.
Loads(p, x) == Enqueue(p, x) \/ Reject(p, x) \/ Approve(p, x) \/ Dispatch(p, x)
Works(p) == \/ Look(p) \/ ApplyFixture(p) \/ WriteGuard(p) \/ OrchestratorFails(p)
            \/ SaveQueue(p) \/ Orphaned(p) \/ Cut(p)

LEMMA StepCases ==
  ASSUME [Next]_vars
  PROVE  \/ \E p \in Procs, x \in Plans : Loads(p, x)
         \/ \E p \in Procs : Works(p)
         \/ UNCHANGED vars
BY DEF Next, Loads, Works

\* What a step of a process may do to the process itself; the others stand.
Mine(p, c) == proc' = [proc EXCEPT ![p] = c]

\* What becomes of a plan whose orchestrator is over.
Endings == {"blocked", "dispatched", "rolled_back"}

\* The command c that is left of p's by an orchestrator that ends with o.
After(p, o, c) ==
  c # Idle => /\ c.step = "queue" /\ c.plan = proc[p].plan /\ c.guard = proc[p].guard
              /\ c.queue = [proc[p].queue EXCEPT ![proc[p].plan] = o]

LEMMA ConcludesCommand ==
  ASSUME QueueTypeOK, NEW p \in Procs, proc[p] # Idle,
         NEW o \in Endings, Concludes(p, o)
  PROVE  \E c \in {Idle} \cup Commands : Mine(p, c) /\ After(p, o, c)
<1>1. proc[p] \in Commands
  BY DEF QueueTypeOK
<1>2. CASE proc[p].orphan
  BY <1>2 DEF Concludes, Mine, After
<1>3. CASE ~proc[p].orphan
  <2> DEFINE c == [proc[p] EXCEPT !.step = "queue", !.queue[proc[p].plan] = o]
  <2>1. c \in Commands
    BY <1>1 DEF Endings
  <2>2. Mine(p, c)
    BY <1>3 DEF Concludes, Mine
  <2>3. After(p, o, c)
    BY <1>1 DEF After
  <2> QED
    BY <2>1, <2>2, <2>3
<1> QED
  BY <1>2, <1>3

\* The end of an orchestrator, whatever its outcome.
LEMMA OrchestratorEnds ==
  ASSUME QueueTypeOK, NEW p \in Procs, proc[p] # Idle,
         NEW o \in Endings, Concludes(p, o)
  PROVE  /\ proc' \in [Procs -> {Idle} \cup Commands]
         /\ \A q \in Procs \ {p} : proc'[q] = proc[q]
         /\ After(p, o, proc'[p])
         /\ ~Orchestrating(p)'
<1>1. PICK c \in {Idle} \cup Commands : Mine(p, c) /\ After(p, o, c)
  BY ConcludesCommand
<1>2. proc' \in [Procs -> {Idle} \cup Commands] /\ proc'[p] = c
      /\ \A q \in Procs \ {p} : proc'[q] = proc[q]
  BY <1>1 DEF Mine, QueueTypeOK
<1> QED
  BY <1>1, <1>2 DEF After, Orchestrating

LEMMA QueueTypeStep == QueueTypeOK /\ [Next]_vars => QueueTypeOK'
<1> SUFFICES ASSUME QueueTypeOK, [Next]_vars
             PROVE  QueueTypeOK'
  OBVIOUS
<1>1. ASSUME NEW p \in Procs, NEW x \in Plans, Loads(p, x)
      PROVE  QueueTypeOK'
  <2>1. PICK to \in PlanStates, next \in Steps :
          /\ queue \in Queues
          /\ proc' = [proc EXCEPT ![p] =
               [step |-> next, plan |-> x, queue |-> [queue EXCEPT ![x] = to], guard |-> {},
                orphan |-> FALSE]]
    BY <1>1 DEF Loads, Enqueue, Reject, Approve, Dispatch, Load, QueueTypeOK
  <2>2. [step |-> next, plan |-> x, queue |-> [queue EXCEPT ![x] = to], guard |-> {},
         orphan |-> FALSE] \in Commands
    BY <2>1
  <2>3. proc' \in [Procs -> {Idle} \cup Commands]
    BY <2>1, <2>2 DEF QueueTypeOK
  <2>4. approvals' \subseteq Plans
    BY <1>1 DEF Loads, Enqueue, Reject, Approve, Dispatch, QueueTypeOK
  <2>5. UNCHANGED <<queue, stateTorn, guard, applied, exposed>>
    BY <1>1 DEF Loads, Enqueue, Reject, Approve, Dispatch, Load
  <2> QED
    BY <2>3, <2>4, <2>5 DEF QueueTypeOK
<1>2. ASSUME NEW p \in Procs, proc[p] # Idle, NEW c \in {Idle} \cup Commands, Mine(p, c)
      PROVE  proc' \in [Procs -> {Idle} \cup Commands]
  BY <1>2 DEF Mine, QueueTypeOK
<1>3. ASSUME NEW p \in Procs, Look(p)
      PROVE  QueueTypeOK'
  <2>1. proc[p] # Idle /\ proc[p] \in Commands
    BY <1>3 DEF Look, QueueTypeOK
  <2>2. CASE /\ guard # Torn
             /\ proc' = [proc EXCEPT ![p].step = "fixture", ![p].guard = guard]
    <3>1. [proc[p] EXCEPT !.step = "fixture", !.guard = guard] \in Commands
      BY <2>1, <2>2 DEF QueueTypeOK
    <3>2. Mine(p, [proc[p] EXCEPT !.step = "fixture", !.guard = guard])
      BY <2>1, <2>2 DEF Mine, QueueTypeOK
    <3>3. proc' \in [Procs -> {Idle} \cup Commands]
      BY <1>2, <2>1, <3>1, <3>2
    <3> QED
      BY <1>3, <3>3 DEF Look, QueueTypeOK
  <2>3. CASE Concludes(p, "blocked") /\ UNCHANGED exposed
    <3>1. proc' \in [Procs -> {Idle} \cup Commands]
      BY <2>1, <2>3, OrchestratorEnds DEF Endings
    <3> QED
      BY <1>3, <2>3, <3>1 DEF Look, QueueTypeOK
  <2> QED
    BY <1>3, <2>2, <2>3 DEF Look
<1>4. ASSUME NEW p \in Procs, ApplyFixture(p)
      PROVE  QueueTypeOK'
  <2>1. proc[p] # Idle /\ proc[p] \in Commands
    BY <1>4 DEF ApplyFixture, QueueTypeOK
  <2>2. PICK s \in {"fixtureFill", "guard"} : proc' = [proc EXCEPT ![p].step = s]
    BY <1>4 DEF ApplyFixture
  <2>3. [proc[p] EXCEPT !.step = s] \in Commands /\ Mine(p, [proc[p] EXCEPT !.step = s])
    BY <2>1, <2>2 DEF Mine, QueueTypeOK
  <2>4. proc' \in [Procs -> {Idle} \cup Commands]
    BY <1>2, <2>1, <2>3
  <2>5. applied' \in [Plans -> 0 .. 2]
    BY <1>4, <2>1 DEF ApplyFixture, QueueTypeOK
  <2>6. stateTorn' \in BOOLEAN /\ UNCHANGED <<queue, guard, approvals, exposed>>
    BY <1>4, Zenon DEF ApplyFixture
  <2> QED
    BY <2>4, <2>5, <2>6 DEF QueueTypeOK
<1>5. ASSUME NEW p \in Procs, WriteGuard(p)
      PROVE  QueueTypeOK'
  <2>1. proc[p] # Idle /\ proc[p] \in Commands
    BY <1>5 DEF WriteGuard, QueueTypeOK
  <2>2. guard' = Torn \/ guard' \in SUBSET Plans
    BY <1>5, <2>1 DEF WriteGuard
  <2>3. CASE proc' = [proc EXCEPT ![p].step = "guardFill"]
    <3>1. /\ [proc[p] EXCEPT !.step = "guardFill"] \in Commands
          /\ Mine(p, [proc[p] EXCEPT !.step = "guardFill"])
      BY <2>1, <2>3 DEF Mine, QueueTypeOK
    <3> QED
      BY <1>2, <1>5, <2>1, <2>2, <3>1 DEF WriteGuard, QueueTypeOK
  <2>4. ASSUME NEW o \in Endings, Concludes(p, o)
        PROVE  QueueTypeOK'
    <3>1. proc' \in [Procs -> {Idle} \cup Commands]
      BY <2>1, <2>4, OrchestratorEnds
    <3> QED
      BY <1>5, <2>2, <3>1 DEF WriteGuard, QueueTypeOK
  <2> QED
    BY <1>5, <2>3, <2>4 DEF WriteGuard, Outcome, Endings
<1>6. ASSUME NEW p \in Procs, SaveQueue(p)
      PROVE  QueueTypeOK'
  <2>1. proc[p] # Idle /\ proc[p] \in Commands
    BY <1>6 DEF SaveQueue, QueueTypeOK
  <2>2. queue' = Torn \/ queue' \in Queues
    BY <1>6, <2>1 DEF SaveQueue
  <2>3. PICK c \in {Idle} \cup Commands : Mine(p, c)
    <3>1. [proc[p] EXCEPT !.step = "queueFill"] \in Commands
      BY <2>1
    <3> QED
      BY <1>6, <3>1 DEF SaveQueue, Mine, QueueTypeOK
  <2> QED
    BY <1>2, <1>6, <2>1, <2>2, <2>3 DEF SaveQueue, QueueTypeOK
<1>7. ASSUME NEW p \in Procs, Cut(p)
      PROVE  QueueTypeOK'
  <2>1. exposed' \in BOOLEAN
    BY <1>7, Zenon DEF Cut, QueueTypeOK
  <2>2. proc' \in [Procs -> {Idle} \cup Commands]
    BY <1>2, <1>7 DEF Cut, Mine
  <2> QED
    BY <1>7, <2>1, <2>2 DEF Cut, QueueTypeOK
<1>8. ASSUME NEW p \in Procs, OrchestratorFails(p)
      PROVE  QueueTypeOK'
  <2>1. proc[p] # Idle /\ proc[p] \in Commands
    BY <1>8 DEF OrchestratorFails, Orchestrating, QueueTypeOK
  <2>2. exposed' \in BOOLEAN
    BY <1>8, Zenon DEF OrchestratorFails, QueueTypeOK
  <2>3. proc' \in [Procs -> {Idle} \cup Commands]
    BY <1>8, <2>1, OrchestratorEnds DEF OrchestratorFails, Endings
  <2> QED
    BY <1>8, <2>2, <2>3 DEF OrchestratorFails, QueueTypeOK
<1>9. ASSUME NEW p \in Procs, Orphaned(p)
      PROVE  QueueTypeOK'
  <2>1. proc[p] # Idle /\ proc[p] \in Commands
    BY <1>9 DEF Orphaned, QueueTypeOK
  <2>2. /\ [proc[p] EXCEPT !.orphan = TRUE] \in Commands
        /\ Mine(p, [proc[p] EXCEPT !.orphan = TRUE])
    BY <1>9, <2>1 DEF Orphaned, Mine
  <2> QED
    BY <1>2, <1>9, <2>1, <2>2 DEF Orphaned, QueueTypeOK
<1>10. CASE UNCHANGED vars
  BY <1>10 DEF vars, QueueTypeOK
<1> QED
  BY <1>1, <1>3, <1>4, <1>5, <1>6, <1>7, <1>8, <1>9, <1>10, StepCases DEF Works

LEMMA QueueTypeInit == Init => QueueTypeOK
<1> SUFFICES ASSUME Init
             PROVE  QueueTypeOK
  OBVIOUS
<1>1. stateTorn \in BOOLEAN /\ exposed \in BOOLEAN
  BY Zenon DEF Init
<1>2. queue \in Queues /\ proc \in [Procs -> {Idle} \cup Commands]
  BY DEF Init
<1>3. guard \in SUBSET Plans /\ approvals \subseteq Plans /\ applied \in [Plans -> 0 .. 2]
  BY DEF Init
<1> QED
  BY <1>1, <1>2, <1>3 DEF QueueTypeOK

\* The types of the three files and of the commands under way.
THEOREM QueueTypes == Spec => []QueueTypeOK
BY QueueTypeInit, QueueTypeStep, PTL DEF Spec

-----------------------------------------------------------------------------
\* What a copy of the queue says was approved or applied was.
EarnedIn(q) ==
  \A x \in Plans : /\ q[x] \in {"dispatched", "rolled_back"} => applied[x] > 0
                   /\ q[x] = "approved" => x \in approvals

\* A command's copy, and the plan its orchestrator works on.
EarnedBy(p) ==
  /\ EarnedIn(proc[p].queue)
  /\ proc[p].step \in {"look", "fixture", "fixtureFill", "guard", "guardFill"} =>
       proc[p].plan \in approvals
  /\ proc[p].step \in {"guard", "guardFill"} => applied[proc[p].plan] > 0

Earned ==
  /\ queue # Torn => EarnedIn(queue)
  /\ \A p \in Procs : proc[p] # Idle => EarnedBy(p)
  /\ \A x \in Plans : applied[x] > 0 => x \in approvals

\* Applications and approvals are never taken back, so what was earned stays so.
LEMMA NothingIsTakenBack ==
  ASSUME QueueTypeOK, [Next]_vars
  PROVE  /\ \A x \in Plans : applied'[x] >= applied[x]
         /\ approvals \subseteq approvals'
<1>1. ASSUME NEW p \in Procs, NEW x \in Plans, Loads(p, x)
      PROVE  applied' = applied /\ approvals \subseteq approvals'
  BY <1>1 DEF Loads, Enqueue, Reject, Approve, Dispatch, Load
<1>2. ASSUME NEW p \in Procs, ApplyFixture(p)
      PROVE  /\ \A x \in Plans : applied'[x] >= applied[x]
             /\ approvals \subseteq approvals'
  BY <1>2 DEF ApplyFixture, QueueTypeOK
<1>3. ASSUME NEW p \in Procs, \/ Look(p) \/ WriteGuard(p) \/ OrchestratorFails(p)
                              \/ SaveQueue(p) \/ Orphaned(p) \/ Cut(p)
      PROVE  applied' = applied /\ approvals' = approvals
  BY <1>3, Zenon DEF Look, WriteGuard, OrchestratorFails, SaveQueue, Orphaned, Cut
<1>4. applied \in [Plans -> 0 .. 2]
  BY DEF QueueTypeOK
<1> QED
  BY <1>1, <1>2, <1>3, <1>4, StepCases DEF Works, vars

LEMMA EarnedStays ==
  ASSUME QueueTypeOK, QueueTypeOK', [Next]_vars
  PROVE  \A q \in Queues : EarnedIn(q) => EarnedIn(q)'
BY NothingIsTakenBack DEF EarnedIn, QueueTypeOK

\* A step of p leaves the commands of the others earned.
LEMMA OthersStayEarned ==
  ASSUME QueueTypeOK, QueueTypeOK', [Next]_vars, Earned,
         NEW q \in Procs, proc'[q] = proc[q], proc[q] # Idle
  PROVE  EarnedBy(q)'
<1>1. proc[q] \in Commands /\ EarnedBy(q)
  BY DEF Earned, QueueTypeOK
<1>2. EarnedIn(proc[q].queue)'
  BY <1>1, EarnedStays DEF EarnedBy, EarnedIn
<1> QED
  BY <1>1, <1>2, NothingIsTakenBack DEF EarnedBy, EarnedIn, QueueTypeOK

\* An orchestrator may end with an outcome that is earned.
LEMMA EndingIsEarned ==
  ASSUME QueueTypeOK, [Next]_vars, Earned, NEW p \in Procs, proc[p] # Idle,
         NEW o \in Endings, Concludes(p, o), o # "blocked" => applied[proc[p].plan] > 0,
         queue' = queue, applied' = applied, approvals' = approvals
  PROVE  Earned'
<1>1. QueueTypeOK'
  BY QueueTypeStep
<1>2. /\ \A q \in Procs \ {p} : proc'[q] = proc[q]
      /\ After(p, o, proc'[p])
  BY OrchestratorEnds
<1>3. proc[p] \in Commands /\ EarnedIn(proc[p].queue)
  BY DEF Earned, EarnedBy, QueueTypeOK
<1>4. proc'[p] # Idle => EarnedBy(p)'
  BY <1>2, <1>3 DEF After, EarnedBy, EarnedIn, Endings
<1>5. \A q \in Procs : proc'[q] # Idle => EarnedBy(q)'
  BY <1>1, <1>2, <1>4, OthersStayEarned
<1> QED
  BY <1>5 DEF Earned, EarnedIn

LEMMA EarnedStep == QueueTypeOK /\ Earned /\ [Next]_vars => Earned'
<1> SUFFICES ASSUME QueueTypeOK, Earned, [Next]_vars
             PROVE  Earned'
  OBVIOUS
<1>1. QueueTypeOK'
  BY QueueTypeStep
<1>2. ASSUME queue' = queue
      PROVE  queue' # Torn => EarnedIn(queue)'
  BY <1>1, <1>2, EarnedStays DEF Earned, EarnedIn, QueueTypeOK
<1>3. ASSUME applied' = applied
      PROVE  \A x \in Plans : applied'[x] > 0 => x \in approvals'
  BY <1>3, NothingIsTakenBack DEF Earned
<1>4. ASSUME NEW p \in Procs, \A q \in Procs \ {p} : proc'[q] = proc[q],
             proc'[p] # Idle => EarnedBy(p)'
      PROVE  \A q \in Procs : proc'[q] # Idle => EarnedBy(q)'
  BY <1>1, <1>4, OthersStayEarned
<1>5. ASSUME NEW p \in Procs, NEW x \in Plans, Loads(p, x)
      PROVE  Earned'
  <2>1. PICK from \in PlanStates, to \in PlanStates, next \in Steps :
          /\ Load(p, x, from, to, next)
          /\ to \notin {"dispatched", "rolled_back"}
          /\ to = "approved" => x \in approvals'
          /\ next \in {"look", "queue"} /\ (next = "look" => to = "approved")
    BY <1>5 DEF Loads, Enqueue, Reject, Approve, Dispatch, Earned, EarnedIn, Load
  <2>2. /\ queue \in Queues /\ EarnedIn(queue) /\ applied' = applied /\ queue' = queue
        /\ proc'[p] = [step |-> next, plan |-> x, queue |-> [queue EXCEPT ![x] = to], guard |-> {},
                       orphan |-> FALSE]
        /\ \A q \in Procs \ {p} : proc'[q] = proc[q]
    BY <2>1 DEF Load, Earned, QueueTypeOK
  <2>3. EarnedBy(p)'
    BY <2>1, <2>2, NothingIsTakenBack DEF EarnedBy, EarnedIn
  <2> QED
    BY <1>2, <1>3, <1>4, <2>2, <2>3 DEF Earned
<1>6. ASSUME NEW p \in Procs, Look(p)
      PROVE  Earned'
  <2>1. proc[p] # Idle /\ proc[p] \in Commands /\ EarnedBy(p) /\ proc[p].step = "look"
    BY <1>6 DEF Look, Earned, QueueTypeOK
  <2>2. queue' = queue /\ applied' = applied /\ approvals' = approvals
    BY <1>6, Zenon DEF Look
  <2>3. CASE proc' = [proc EXCEPT ![p].step = "fixture", ![p].guard = guard]
    <3>1. /\ proc'[p].queue = proc[p].queue /\ proc'[p].plan = proc[p].plan
          /\ proc'[p].step = "fixture"
          /\ \A q \in Procs \ {p} : proc'[q] = proc[q]
      BY <2>1, <2>3 DEF QueueTypeOK
    <3>2. EarnedBy(p)'
      BY <2>1, <2>2, <3>1 DEF EarnedBy, EarnedIn
    <3> QED
      BY <1>2, <1>3, <1>4, <2>2, <3>1, <3>2 DEF Earned
  <2>4. CASE Concludes(p, "blocked")
    BY <2>1, <2>2, <2>4, EndingIsEarned DEF Endings
  <2> QED
    BY <1>6, <2>3, <2>4 DEF Look
<1>7. ASSUME NEW p \in Procs, ApplyFixture(p)
      PROVE  Earned'
  <2>1. proc[p] # Idle /\ proc[p] \in Commands /\ EarnedBy(p)
    BY <1>7 DEF ApplyFixture, Earned, QueueTypeOK
  <2>2. queue' = queue /\ approvals' = approvals
    BY <1>7, Zenon DEF ApplyFixture
  <2>3. proc[p].plan \in approvals
    BY <1>7, <2>1 DEF ApplyFixture, EarnedBy
  <2>4. \/ applied' = applied
        \/ applied' = [applied EXCEPT ![proc[p].plan] = IF @ < 2 THEN @ + 1 ELSE @]
    BY <1>7, Zenon DEF ApplyFixture
  <2>5. \A x \in Plans : applied'[x] > 0 => x \in approvals'
    BY <2>1, <2>2, <2>3, <2>4 DEF Earned, QueueTypeOK
  <2>6. /\ proc'[p].queue = proc[p].queue /\ proc'[p].plan = proc[p].plan
        /\ proc'[p].step \in {"fixtureFill", "guard"}
        /\ proc'[p].step = "guard" => applied'[proc[p].plan] > 0
        /\ \A q \in Procs \ {p} : proc'[q] = proc[q]
    BY <1>7, <2>1 DEF ApplyFixture, QueueTypeOK
  <2>7. EarnedIn(proc[p].queue)'
    <3>1. EarnedIn(proc[p].queue) /\ proc[p].queue \in Queues
      BY <2>1 DEF EarnedBy
    <3>2. \A x \in Plans : applied'[x] >= applied[x]
      BY NothingIsTakenBack
    <3> QED
      BY <1>1, <2>2, <2>6, <3>1, <3>2 DEF EarnedIn, QueueTypeOK
  <2>8. EarnedBy(p)'
    BY <2>1, <2>2, <2>3, <2>6, <2>7 DEF EarnedBy, EarnedIn
  <2> QED
    BY <1>2, <1>4, <2>2, <2>5, <2>6, <2>8 DEF Earned
<1>8. ASSUME NEW p \in Procs, WriteGuard(p)
      PROVE  Earned'
  <2>1. proc[p] # Idle /\ proc[p] \in Commands /\ EarnedBy(p)
    BY <1>8 DEF WriteGuard, Earned, QueueTypeOK
  <2>2. queue' = queue /\ applied' = applied /\ approvals' = approvals
    BY <1>8, Zenon DEF WriteGuard
  <2>3. proc[p].step \in {"guard", "guardFill"}
    BY <1>8 DEF WriteGuard
  <2>4. CASE proc' = [proc EXCEPT ![p].step = "guardFill"]
    <3>1. /\ proc'[p].queue = proc[p].queue /\ proc'[p].plan = proc[p].plan
          /\ proc'[p].step = "guardFill"
          /\ \A q \in Procs \ {p} : proc'[q] = proc[q]
      BY <2>1, <2>4 DEF QueueTypeOK
    <3>2. EarnedBy(p)'
      BY <2>1, <2>2, <2>3, <3>1 DEF EarnedBy, EarnedIn
    <3> QED
      BY <1>2, <1>3, <1>4, <2>2, <3>1, <3>2 DEF Earned
  <2>5. ASSUME NEW o \in Endings, Concludes(p, o)
        PROVE  Earned'
    BY <2>1, <2>2, <2>3, <2>5, EndingIsEarned DEF EarnedBy
  <2> QED
    BY <1>8, <2>4, <2>5 DEF WriteGuard, Outcome, Endings
<1>9. ASSUME NEW p \in Procs, SaveQueue(p)
      PROVE  Earned'
  <2>1. proc[p] # Idle /\ proc[p] \in Commands /\ EarnedBy(p)
    BY <1>9 DEF SaveQueue, Earned, QueueTypeOK
  <2>2. applied' = applied /\ approvals' = approvals
    BY <1>9, Zenon DEF SaveQueue
  <2>3. queue' # Torn => EarnedIn(queue)'
    BY <1>9, <2>1, <2>2 DEF SaveQueue, EarnedBy, EarnedIn
  <2>4. /\ \A q \in Procs \ {p} : proc'[q] = proc[q]
        /\ proc'[p] # Idle => /\ proc'[p].queue = proc[p].queue
                             /\ proc'[p].step = "queueFill"
    BY <1>9, <2>1 DEF SaveQueue, QueueTypeOK
  <2>5. proc'[p] # Idle => EarnedBy(p)'
    BY <2>1, <2>2, <2>4 DEF EarnedBy, EarnedIn
  <2> QED
    BY <1>3, <1>4, <2>2, <2>3, <2>4, <2>5 DEF Earned
<1>10. ASSUME NEW p \in Procs, Cut(p)
       PROVE  Earned'
  <2>1. /\ \A q \in Procs \ {p} : proc'[q] = proc[q]
        /\ proc'[p] = Idle
    BY <1>10 DEF Cut, QueueTypeOK
  <2> QED
    BY <1>2, <1>3, <1>4, <1>10, <2>1 DEF Cut, Earned
<1>11. ASSUME NEW p \in Procs, OrchestratorFails(p)
       PROVE  Earned'
  <2>1. /\ proc[p] # Idle /\ Concludes(p, "blocked")
        /\ queue' = queue /\ applied' = applied /\ approvals' = approvals
    BY <1>11, Zenon DEF OrchestratorFails, Orchestrating
  <2> QED
    BY <2>1, EndingIsEarned DEF Endings
<1>12. ASSUME NEW p \in Procs, Orphaned(p)
       PROVE  Earned'
  <2>1. proc[p] # Idle /\ proc[p] \in Commands /\ EarnedBy(p)
    BY <1>12 DEF Orphaned, Earned, QueueTypeOK
  <2>2. /\ proc'[p].queue = proc[p].queue /\ proc'[p].plan = proc[p].plan
        /\ proc'[p].step = proc[p].step
        /\ \A q \in Procs \ {p} : proc'[q] = proc[q]
        /\ queue' = queue /\ applied' = applied /\ approvals' = approvals
    BY <1>12, <2>1 DEF Orphaned, QueueTypeOK
  <2>3. EarnedBy(p)'
    BY <2>1, <2>2 DEF EarnedBy, EarnedIn
  <2> QED
    BY <1>2, <1>3, <1>4, <2>2, <2>3 DEF Earned
<1>13. CASE UNCHANGED vars
  BY <1>13 DEF vars, Earned, EarnedBy, EarnedIn
<1> QED
  BY <1>5, <1>6, <1>7, <1>8, <1>9, <1>10, <1>11, <1>12, <1>13, StepCases DEF Works

\* An outcome in the queue was earned, and what changed the fixture had been
\* approved (cmd_dispatch, save_queue).
THEOREM OutcomesEarned == Spec => []OutcomesAreEarned
<1>1. Init => Earned
  BY DEF Init, Earned, EarnedBy, EarnedIn
<1>2. Earned => OutcomesAreEarned
  BY DEF Earned, EarnedIn, OutcomesAreEarned
<1> QED
  BY <1>1, <1>2, QueueTypes, EarnedStep, PTL DEF Spec

-----------------------------------------------------------------------------
\* The guard an orchestrator has loaded covers what was applied before it, and
\* is the one on file until it is truncated.
GuardHeld(p) ==
  /\ proc[p].step \in {"fixture", "fixtureFill", "guard"} =>
       guard # Torn /\ proc[p].guard = guard
  /\ proc[p].step = "guardFill" => guard = Torn
  /\ proc[p].step \in {"fixture", "fixtureFill"} => applied[proc[p].plan] = 0
  /\ \A x \in Plans : applied[x] > 0 =>
       \/ x \in proc[p].guard
       \/ x = proc[p].plan /\ proc[p].step \in {"guard", "guardFill"}

GuardCovers == \A x \in Plans : applied[x] > 0 => guard = Torn \/ x \in guard

ReplayInv ==
  ~exposed =>
    /\ \A p, q \in Procs : Orchestrating(p) /\ Orchestrating(q) => p = q
    /\ \A x \in Plans : applied[x] <= 1
    /\ \A p \in Procs : Orchestrating(p) => GuardHeld(p)
    /\ (\A p \in Procs : ~Orchestrating(p)) => GuardCovers

\* A step of a process that neither was nor becomes an orchestrator.
LEMMA BystandersKeepReplay ==
  ASSUME QueueTypeOK, ReplayInv, NEW p \in Procs,
         ~Orchestrating(p), ~Orchestrating(p)',
         \A q \in Procs \ {p} : proc'[q] = proc[q],
         guard' = guard, applied' = applied, exposed' = exposed
  PROVE  ReplayInv'
<1>1. \A q \in Procs : Orchestrating(q)' <=> Orchestrating(q)
  BY DEF Orchestrating
<1>2. ASSUME NEW q \in Procs, Orchestrating(q), GuardHeld(q)
      PROVE  GuardHeld(q)'
  <2>1. proc'[q] = proc[q]
    BY <1>2
  <2> QED
    BY <1>2, <2>1 DEF GuardHeld
<1> QED
  BY <1>1, <1>2 DEF ReplayInv, GuardCovers

\* A step of the only orchestrator, which goes on being one.
LEMMA OrchestratorKeepsReplay ==
  ASSUME ReplayInv, ~exposed, NEW p \in Procs, Orchestrating(p), Orchestrating(p)',
         \A q \in Procs \ {p} : proc'[q] = proc[q],
         \A x \in Plans : applied'[x] <= 1,
         GuardHeld(p)'
  PROVE  ReplayInv'
<1>1. \A q \in Procs \ {p} : ~Orchestrating(q)
  BY DEF ReplayInv
<1>2. \A q \in Procs \ {p} : ~Orchestrating(q)'
  BY <1>1 DEF Orchestrating
<1> QED
  BY <1>2 DEF ReplayInv

\* The only orchestrator ends, anywhere but between the fixture and the guard.
LEMMA CutKeepsReplay ==
  ASSUME QueueTypeOK, ReplayInv, NEW p \in Procs, Orchestrating(p), ~Orchestrating(p)',
         \A q \in Procs \ {p} : proc'[q] = proc[q],
         guard' = guard, applied' = applied,
         exposed' = (exposed \/ proc[p].step = "guard")
  PROVE  ReplayInv'
<1> SUFFICES ASSUME ~exposed'
             PROVE  ReplayInv'
  BY DEF ReplayInv
<1>1. ~exposed /\ proc[p].step # "guard"
  BY Zenon
<1>2. \A q \in Procs : ~Orchestrating(q)'
  BY <1>1 DEF Orchestrating, ReplayInv
<1>3. GuardHeld(p) /\ \A x \in Plans : applied[x] <= 1
  BY <1>1 DEF ReplayInv
<1>4. GuardCovers'
  BY <1>1, <1>3 DEF GuardHeld, GuardCovers, Orchestrating
<1> QED
  BY <1>2, <1>3, <1>4 DEF ReplayInv

LEMMA ReplayStep == QueueTypeOK /\ ReplayInv /\ [Next]_vars => ReplayInv'
<1> SUFFICES ASSUME QueueTypeOK, ReplayInv, [Next]_vars
             PROVE  ReplayInv'
  OBVIOUS
<1>1. ASSUME NEW p \in Procs, NEW x \in Plans, Loads(p, x)
      PROVE  ReplayInv'
  <2>1. /\ proc[p] = Idle
        /\ proc'[p].step \in {"look", "queue"}
        /\ \A q \in Procs \ {p} : proc'[q] = proc[q]
        /\ UNCHANGED <<guard, applied, exposed>>
    BY <1>1 DEF Loads, Enqueue, Reject, Approve, Dispatch, Load, QueueTypeOK
  <2>2. ~Orchestrating(p) /\ ~Orchestrating(p)'
    BY <2>1 DEF Orchestrating
  <2> QED
    BY <2>1, <2>2, BystandersKeepReplay
<1>2. ASSUME NEW p \in Procs, Look(p)
      PROVE  ReplayInv'
  <2>1. proc[p] # Idle /\ proc[p] \in Commands /\ proc[p].step = "look" /\ ~Orchestrating(p)
    BY <1>2 DEF Look, QueueTypeOK, Orchestrating
  <2>2. guard' = guard /\ applied' = applied
    BY <1>2, Zenon DEF Look
  <2>3. CASE Concludes(p, "blocked") /\ UNCHANGED exposed
    <3>1. ~Orchestrating(p)' /\ \A q \in Procs \ {p} : proc'[q] = proc[q]
      BY <2>1, <2>3, OrchestratorEnds DEF Endings
    <3> QED
      BY <2>1, <2>2, <2>3, <3>1, BystandersKeepReplay
  <2>4. CASE /\ guard # Torn /\ proc[p].plan \notin guard
             /\ proc' = [proc EXCEPT ![p].step = "fixture", ![p].guard = guard]
             /\ exposed' = (exposed \/ \E other \in Procs : Orchestrating(other))
    <3> SUFFICES ASSUME ~exposed'
                 PROVE  ReplayInv'
      BY DEF ReplayInv
    <3>1. ~exposed /\ \A q \in Procs : ~Orchestrating(q)
      BY <2>4, Zenon
    <3>2. GuardCovers /\ \A x \in Plans : applied[x] <= 1
      BY <3>1 DEF ReplayInv
    <3>3. /\ proc'[p].step = "fixture" /\ proc'[p].guard = guard /\ proc'[p].plan = proc[p].plan
          /\ \A q \in Procs \ {p} : proc'[q] = proc[q]
      BY <2>1, <2>4 DEF QueueTypeOK
    <3>4. applied[proc[p].plan] = 0
      BY <2>1, <2>4, <3>2 DEF GuardCovers, QueueTypeOK
    <3>5. GuardHeld(p)'
      BY <2>2, <2>4, <3>2, <3>3, <3>4 DEF GuardHeld, GuardCovers
    <3>6. \A q \in Procs \ {p} : ~Orchestrating(q)'
      BY <3>1, <3>3 DEF Orchestrating
    <3>7. Orchestrating(p)'
      BY <3>3 DEF Orchestrating
    <3> QED
      BY <2>2, <3>2, <3>5, <3>6, <3>7 DEF ReplayInv
  <2> QED
    BY <1>2, <2>3, <2>4, Zenon DEF Look
<1>3. ASSUME NEW p \in Procs, ApplyFixture(p)
      PROVE  ReplayInv'
  <2> SUFFICES ASSUME ~exposed
               PROVE  ReplayInv'
    BY <1>3 DEF ApplyFixture, ReplayInv
  <2>1. proc[p] # Idle /\ proc[p] \in Commands /\ Orchestrating(p)
    BY <1>3 DEF ApplyFixture, QueueTypeOK, Orchestrating
  <2>2. GuardHeld(p) /\ guard' = guard
    BY <1>3, <2>1 DEF ApplyFixture, ReplayInv
  <2>3. /\ proc'[p].guard = proc[p].guard /\ proc'[p].plan = proc[p].plan
        /\ proc'[p].step = IF proc[p].step = "fixture" THEN "fixtureFill" ELSE "guard"
        /\ proc[p].step \in {"fixture", "fixtureFill"}
        /\ \A q \in Procs \ {p} : proc'[q] = proc[q]
    BY <1>3, <2>1 DEF ApplyFixture, QueueTypeOK
  <2>4. \/ proc[p].step = "fixture" /\ applied' = applied
        \/ /\ proc[p].step = "fixtureFill"
           /\ applied' = [applied EXCEPT ![proc[p].plan] = IF @ < 2 THEN @ + 1 ELSE @]
    BY <1>3, Zenon DEF ApplyFixture
  <2>5. /\ \A x \in Plans : applied'[x] <= 1
        /\ \A x \in Plans \ {proc[p].plan} : applied'[x] = applied[x]
        /\ proc[p].step = "fixture" => applied'[proc[p].plan] = 0
    BY <2>1, <2>2, <2>3, <2>4 DEF GuardHeld, ReplayInv, QueueTypeOK
  <2>6. GuardHeld(p)'
    BY <2>1, <2>2, <2>3, <2>5 DEF GuardHeld
  <2>7. Orchestrating(p)'
    BY <2>3 DEF Orchestrating
  <2> QED
    BY <2>1, <2>3, <2>5, <2>6, <2>7, OrchestratorKeepsReplay
<1>4. ASSUME NEW p \in Procs, WriteGuard(p)
      PROVE  ReplayInv'
  <2> SUFFICES ASSUME ~exposed
               PROVE  ReplayInv'
    BY <1>4 DEF WriteGuard, ReplayInv
  <2>1. proc[p] # Idle /\ proc[p] \in Commands /\ Orchestrating(p)
    BY <1>4 DEF WriteGuard, QueueTypeOK, Orchestrating
  <2>2. GuardHeld(p) /\ applied' = applied /\ \A x \in Plans : applied[x] <= 1
    BY <1>4, <2>1 DEF WriteGuard, ReplayInv
  <2>3. CASE /\ proc[p].step = "guard" /\ guard' = Torn
             /\ proc' = [proc EXCEPT ![p].step = "guardFill"]
    <3>1. /\ proc'[p].guard = proc[p].guard /\ proc'[p].plan = proc[p].plan
          /\ proc'[p].step = "guardFill"
          /\ \A q \in Procs \ {p} : proc'[q] = proc[q]
      BY <2>1, <2>3 DEF QueueTypeOK
    <3>2. GuardHeld(p)'
      BY <2>2, <2>3, <3>1 DEF GuardHeld
    <3>3. Orchestrating(p)'
      BY <3>1 DEF Orchestrating
    <3> QED
      BY <2>1, <2>2, <3>1, <3>2, <3>3, OrchestratorKeepsReplay
  <2>4. CASE /\ proc[p].step = "guardFill"
             /\ guard' = proc[p].guard \cup {proc[p].plan}
             /\ Concludes(p, Outcome(proc[p].plan)) \/ Concludes(p, "blocked")
    <3>1. PICK o \in Endings : Concludes(p, o)
      BY <2>4, Zenon DEF Outcome, Endings
    <3>2. ~Orchestrating(p)' /\ \A q \in Procs \ {p} : proc'[q] = proc[q]
      BY <2>1, <3>1, OrchestratorEnds
    <3>3. \A q \in Procs : ~Orchestrating(q)'
      BY <2>1, <3>2 DEF Orchestrating, ReplayInv
    <3>4. GuardCovers'
      BY <2>2, <2>4 DEF GuardHeld, GuardCovers
    <3> QED
      BY <2>2, <3>3, <3>4 DEF ReplayInv
  <2> QED
    BY <1>4, <2>3, <2>4, Zenon DEF WriteGuard
<1>5. ASSUME NEW p \in Procs, SaveQueue(p)
      PROVE  ReplayInv'
  <2>1. proc[p] # Idle /\ proc[p] \in Commands /\ ~Orchestrating(p)
    BY <1>5 DEF SaveQueue, Orchestrating, QueueTypeOK
  <2>2. /\ proc'[p] # Idle => proc'[p].step = "queueFill"
        /\ \A q \in Procs \ {p} : proc'[q] = proc[q]
    BY <1>5, <2>1 DEF SaveQueue, QueueTypeOK
  <2>3. ~Orchestrating(p)'
    BY <2>2 DEF Orchestrating
  <2> QED
    BY <1>5, <2>1, <2>2, <2>3, BystandersKeepReplay DEF SaveQueue
<1>6. ASSUME NEW p \in Procs, Cut(p)
      PROVE  ReplayInv'
  <2>1. /\ proc[p] # Idle /\ proc[p] \in Commands /\ proc'[p] = Idle
        /\ \A q \in Procs \ {p} : proc'[q] = proc[q]
        /\ guard' = guard /\ applied' = applied
    BY <1>6 DEF Cut, QueueTypeOK
  <2>2. ~Orchestrating(p)'
    BY <2>1 DEF Orchestrating
  <2>3. exposed' = (exposed \/ proc[p].step = "guard")
    BY <1>6, Zenon DEF Cut
  <2>4. CASE ~Orchestrating(p)
    <3>1. proc[p].step # "guard"
      BY <2>1, <2>4 DEF Orchestrating
    <3>2. exposed' = exposed
      BY <1>6, <2>3, <3>1, Zenon DEF QueueTypeOK
    <3> QED
      BY <2>1, <2>2, <2>4, <3>2, BystandersKeepReplay
  <2>5. CASE Orchestrating(p)
    BY <2>1, <2>2, <2>3, <2>5, CutKeepsReplay
  <2> QED
    BY <2>4, <2>5
<1>7. ASSUME NEW p \in Procs, OrchestratorFails(p)
      PROVE  ReplayInv'
  <2>1. /\ Orchestrating(p) /\ Concludes(p, "blocked") /\ guard' = guard /\ applied' = applied
        /\ exposed' = (exposed \/ proc[p].step = "guard")
    BY <1>7, Zenon DEF OrchestratorFails
  <2>2. ~Orchestrating(p)' /\ \A q \in Procs \ {p} : proc'[q] = proc[q]
    BY <2>1, OrchestratorEnds DEF Endings, Orchestrating
  <2> QED
    BY <2>1, <2>2, CutKeepsReplay
<1>8. ASSUME NEW p \in Procs, Orphaned(p)
      PROVE  ReplayInv'
  <2>1. /\ proc[p] # Idle /\ proc[p] \in Commands
        /\ guard' = guard /\ applied' = applied /\ exposed' = exposed
        /\ \A q \in Procs \ {p} : proc'[q] = proc[q]
    BY <1>8, Zenon DEF Orphaned, QueueTypeOK
  <2>2. /\ proc'[p] # Idle /\ proc'[p].step = proc[p].step
        /\ proc'[p].plan = proc[p].plan /\ proc'[p].guard = proc[p].guard
    BY <1>8, <2>1 DEF Orphaned, QueueTypeOK
  <2>3. Orchestrating(p)' <=> Orchestrating(p)
    BY <2>1, <2>2 DEF Orchestrating
  <2>4. CASE ~Orchestrating(p)
    BY <2>1, <2>3, <2>4, BystandersKeepReplay
  <2>5. CASE Orchestrating(p) /\ ~exposed
    <3>1. GuardHeld(p) /\ \A x \in Plans : applied[x] <= 1
      BY <2>5 DEF ReplayInv
    <3>2. GuardHeld(p)'
      BY <2>1, <2>2, <3>1 DEF GuardHeld
    <3> QED
      BY <2>1, <2>3, <2>5, <3>1, <3>2, OrchestratorKeepsReplay
  <2> QED
    BY <2>1, <2>4, <2>5 DEF ReplayInv
<1>9. CASE UNCHANGED vars
  BY <1>9 DEF vars, ReplayInv, Orchestrating, GuardHeld, GuardCovers
<1> QED
  BY <1>1, <1>2, <1>3, <1>4, <1>5, <1>6, <1>7, <1>8, <1>9, StepCases DEF Works

\* No plan is applied twice unless orchestrators overlap or one is cut between
\* the fixture's state and the guard (run_action and replay-guard.json).
THEOREM ReplayIsBlocked == Spec => []ReplayBlocked
<1>1. Init => ReplayInv
  BY DEF Init, ReplayInv, Orchestrating, GuardCovers
<1>2. ReplayInv => ReplayBlocked
  BY DEF ReplayInv, ReplayBlocked
<1> QED
  BY <1>1, <1>2, QueueTypes, ReplayStep, PTL DEF Spec
=============================================================================
