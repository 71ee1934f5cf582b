-------------------------- MODULE DispatcherProofs --------------------------
(***************************************************************************)
(* Proofs about Dispatcher, for any number of requests, candidates, limits *)
(* and retries: types, the order at the lock, the exactness of the         *)
(* counters and the limits they keep.                                      *)
(***************************************************************************)
EXTENDS Dispatcher, FiniteSetTheorems, SequenceTheorems, TLAPS

\* The values of the two counter updates.
LEMMA CounterUpdates ==
  ASSUME NEW a \in [Places -> Nat], NEW c
  PROVE  Taken(a, c) \in [Places -> Nat] /\ Given(a, c) \in [Places -> Nat]
<1>1. Taken(a, c) \in [Places -> Nat]
  BY DEF Taken
<1>2. Given(a, c) \in [Places -> Nat]
  BY DEF Given
<1> QED
  BY <1>1, <1>2

\* Who offers a candidate offers one of Candidates.
LEMMA ChoicesAreCandidates ==
  ASSUME NEW r \in Requests, NEW penalties
  PROVE  Choices(r, penalties) \subseteq Candidates /\ Alternates(r, penalties) \subseteq Candidates
BY DispatcherAssumption DEF Choices, Alternates

\* A candidate's worker.
LEMMA WorkersOfCandidates == \A c \in Candidates : WorkerOf[c] \in Workers
BY DEF Workers

LEMMA RouteClassType ==
  ASSUME NEW r, NEW c, NEW a, NEW penalties
  PROVE  RouteClass(r, c, a, penalties) \in Classes
<1>1. CASE Pin[r] # None
  BY <1>1 DEF RouteClass, Classes
<1>2. CASE Pin[r] = None /\ OwnerOf[r] = None
  BY <1>2 DEF RouteClass, Classes
<1>3. CASE Pin[r] = None /\ OwnerOf[r] # None /\ WorkerOf[c] = OwnerOf[r]
  BY <1>3 DEF RouteClass, Classes
<1>4. CASE Pin[r] = None /\ OwnerOf[r] # None /\ WorkerOf[c] # OwnerOf[r]
  BY <1>4 DEF RouteClass, Classes
<1> QED
  BY <1>1, <1>2, <1>3, <1>4

-----------------------------------------------------------------------------
(* Types.                                                                  *)

LEMMA TypeInit == Init => DispatcherTypeOK
<1> SUFFICES ASSUME Init PROVE DispatcherTypeOK
  OBVIOUS
<1>1. active \in [Places -> Nat] /\ lockq \in Seq(Requests)
  BY DEF Init
<1>2. /\ tries \in [Requests -> Nat]
      /\ initial \in [Requests -> Candidates \cup {None}]
      /\ current \in [Requests -> Candidates \cup {None}]
      /\ target \in [Requests -> Candidates \cup {None}]
      /\ attempted \in [Requests -> SUBSET Workers]
  BY DEF Init
<1>3. /\ phase \in [Requests -> Phases]
      /\ outcome \in [Requests -> Outcomes]
      /\ audit \in [Requests -> Classes]
  BY DEF Init, Phases, Outcomes, Classes
<1> QED
  BY <1>1, <1>2, <1>3 DEF Init, DispatcherTypeOK

USE DEF choiceVars, healthVars

LEMMA AdmitTypes ==
  ASSUME DispatcherTypeOK, NEW r \in Requests, NEW c \in Candidates,
         Admit(r, c), lockq' \in Seq(Requests)
  PROVE  DispatcherTypeOK'
<1>1. active' \in [Places -> Nat]
  BY CounterUpdates DEF DispatcherTypeOK, Admit
<1>2. /\ phase' \in [Requests -> Phases]
      /\ initial' \in [Requests -> Candidates \cup {None}]
      /\ current' \in [Requests -> Candidates \cup {None}]
  BY DEF DispatcherTypeOK, Admit, Phases
<1>3. attempted' \in [Requests -> SUBSET Workers]
  BY WorkersOfCandidates DEF DispatcherTypeOK, Admit
<1> QED
  BY <1>1, <1>2, <1>3 DEF DispatcherTypeOK, Admit

\* What Leave does to the variables it changes.
LEMMA LeaveTypes ==
  ASSUME DispatcherTypeOK, NEW r \in Requests, NEW c \in Candidates \cup {None},
         NEW result \in {"ok", "error"}, Leave(r, c, result)
  PROVE  /\ outcome' \in [Requests -> Outcomes]
         /\ target' \in [Requests -> Candidates \cup {None}]
         /\ phase' \in [Requests -> Phases]
         /\ active' \in [Places -> Nat]
         /\ lockq' \in Seq(Requests)
<1>1. outcome' \in [Requests -> Outcomes] /\ target' \in [Requests -> Candidates \cup {None}]
  BY DEF DispatcherTypeOK, Leave, Outcomes
<1>2. CASE LockFree
  <2>1. /\ phase' = [phase EXCEPT ![r] = "done"]
        /\ active' = Given(active, c)
        /\ lockq' = lockq
    BY <1>2, Zenon DEF Leave
  <2>2. active' \in [Places -> Nat]
    BY <2>1, CounterUpdates DEF DispatcherTypeOK
  <2> QED
    BY <1>1, <2>1, <2>2 DEF DispatcherTypeOK, Phases
<1>3. CASE ~LockFree
  <2>1. /\ phase' = [phase EXCEPT ![r] = "releasing"]
        /\ active' = active
        /\ lockq' = Append(lockq, r)
    BY <1>3, Zenon DEF Leave
  <2> QED
    BY <1>1, <2>1 DEF DispatcherTypeOK, Phases
<1> QED
  BY <1>2, <1>3

LEMMA SwitchTypes ==
  ASSUME DispatcherTypeOK, NEW r \in Requests, NEW c \in Candidates, Switch(r, c)
  PROVE  /\ active' \in [Places -> Nat]
         /\ current' \in [Requests -> Candidates \cup {None}]
         /\ attempted' \in [Requests -> SUBSET Workers]
         /\ phase' \in [Requests -> Phases]
         /\ UNCHANGED <<tries, initial, outcome, audit>>
<1>1. active' \in [Places -> Nat]
  <2>1. Given(active, current[r]) \in [Places -> Nat]
    BY CounterUpdates DEF DispatcherTypeOK
  <2> QED
    BY <2>1, CounterUpdates DEF Switch
<1>2. attempted' \in [Requests -> SUBSET Workers]
  BY WorkersOfCandidates DEF DispatcherTypeOK, Switch
<1> QED
  BY <1>1, <1>2 DEF DispatcherTypeOK, Switch, Phases

\* The lock's queue without its head.
LEMMA TurnTypes ==
  ASSUME DispatcherTypeOK, NEW r \in Requests, NEW what, OnTurn(r, what)
  PROVE  Tail(lockq) \in Seq(Requests)
BY DEF DispatcherTypeOK, OnTurn, LockFree

LEMMA RecordFailureTypes ==
  ASSUME DispatcherTypeOK, NEW r \in Requests, RecordFailure(r), current[r] \in Candidates
  PROVE  penalised' \subseteq Workers /\ UNCHANGED <<down, changes>>
BY WorkersOfCandidates DEF DispatcherTypeOK, RecordFailure

LEMMA TypeStep == DispatcherTypeOK /\ ChoicesInHand /\ [Next]_vars => DispatcherTypeOK'
<1> SUFFICES ASSUME DispatcherTypeOK, ChoicesInHand, [Next]_vars
             PROVE  DispatcherTypeOK'
  OBVIOUS
<1>1. ASSUME NEW r \in Requests, ArriveAdmitted(r)
      PROVE  DispatcherTypeOK'
  <2>1. PICK c \in Candidates : Admit(r, c)
    BY <1>1, ChoicesAreCandidates DEF ArriveAdmitted
  <2>2. lockq' \in Seq(Requests)
    BY <1>1 DEF ArriveAdmitted, DispatcherTypeOK
  <2> QED
    BY <2>1, <2>2, AdmitTypes
<1>2. ASSUME NEW r \in Requests, ArriveQueued(r)
      PROVE  DispatcherTypeOK'
  BY <1>2 DEF ArriveQueued, DispatcherTypeOK, Phases
<1>3. ASSUME NEW r \in Requests, QueuePolls(r)
      PROVE  DispatcherTypeOK'
  <2>1. PICK c \in Candidates : Admit(r, c)
    BY <1>3, ChoicesAreCandidates DEF QueuePolls
  <2>2. lockq' \in Seq(Requests)
    BY <1>3, TurnTypes DEF QueuePolls
  <2> QED
    BY <2>1, <2>2, AdmitTypes
<1>4. ASSUME NEW r \in Requests, QueueGivesUp(r)
      PROVE  DispatcherTypeOK'
  <2>1. lockq' \in Seq(Requests)
    BY <1>4, TurnTypes DEF QueueGivesUp
  <2> QED
    BY <1>4, <2>1 DEF QueueGivesUp, DispatcherTypeOK, Phases, Outcomes
<1>5. ASSUME NEW r \in Requests, CallReturns(r)
      PROVE  DispatcherTypeOK'
  <2>1. Leave(r, current[r], "ok") /\ current[r] \in Candidates \cup {None}
    BY <1>5 DEF CallReturns, DispatcherTypeOK
  <2>2. /\ outcome' \in [Requests -> Outcomes]
        /\ target' \in [Requests -> Candidates \cup {None}]
        /\ phase' \in [Requests -> Phases]
        /\ active' \in [Places -> Nat]
        /\ lockq' \in Seq(Requests)
    BY <2>1, LeaveTypes
  <2>3. audit' \in [Requests -> Classes]
    BY <1>5, RouteClassType DEF CallReturns, DispatcherTypeOK
  <2> QED
    BY <1>5, <2>2, <2>3 DEF CallReturns, DispatcherTypeOK
<1>6. ASSUME NEW r \in Requests, RetrySameWorker(r)
      PROVE  DispatcherTypeOK'
  <2>1. penalised' \subseteq Workers /\ UNCHANGED <<down, changes>>
    BY <1>6, RecordFailureTypes DEF RetrySameWorker, RecordFailure, ChoicesInHand, Holding
  <2> QED
    BY <1>6, <2>1 DEF RetrySameWorker, DispatcherTypeOK
<1>7. ASSUME NEW r \in Requests, ClaimAlternate(r)
      PROVE  DispatcherTypeOK'
  <2>1. penalised' \subseteq Workers /\ UNCHANGED <<down, changes>>
    BY <1>7, RecordFailureTypes DEF ClaimAlternate, RecordFailure, ChoicesInHand, Holding
  <2>2. CASE LockFree
    <3>1. PICK c \in Candidates : Switch(r, c) /\ UNCHANGED <<lockq, target>>
      BY <1>7, <2>2, ChoicesAreCandidates DEF ClaimAlternate
    <3>2. UNCHANGED lateSwitch
      BY <1>7 DEF ClaimAlternate
    <3> QED
      BY <2>1, <3>1, <3>2, SwitchTypes DEF DispatcherTypeOK
  <2>3. CASE ~LockFree
    <3>1. PICK c \in Candidates :
             /\ target' = [target EXCEPT ![r] = c]
             /\ phase' = [phase EXCEPT ![r] = "switching"]
             /\ lockq' = Append(lockq, r)
             /\ UNCHANGED <<active, tries, choiceVars, outcome, audit>>
      BY <1>7, <2>3, ChoicesAreCandidates DEF ClaimAlternate
    <3>2. UNCHANGED lateSwitch
      BY <1>7 DEF ClaimAlternate
    <3> QED
      BY <2>1, <3>1, <3>2 DEF DispatcherTypeOK, Phases
  <2> QED
    BY <2>2, <2>3
<1>8. ASSUME NEW r \in Requests, CallRaises(r)
      PROVE  DispatcherTypeOK'
  <2>1. penalised' \subseteq Workers /\ UNCHANGED <<down, changes>>
    BY <1>8, RecordFailureTypes DEF CallRaises, RecordFailure, ChoicesInHand, Holding
  <2>2. Leave(r, initial[r], "error") /\ initial[r] \in Candidates \cup {None}
    BY <1>8 DEF CallRaises, DispatcherTypeOK
  <2>3. /\ outcome' \in [Requests -> Outcomes]
        /\ target' \in [Requests -> Candidates \cup {None}]
        /\ phase' \in [Requests -> Phases]
        /\ active' \in [Places -> Nat]
        /\ lockq' \in Seq(Requests)
    BY <2>2, LeaveTypes
  <2>4. audit' \in [Requests -> Classes]
    BY <1>8, RouteClassType DEF CallRaises, DispatcherTypeOK
  <2> QED
    BY <1>8, <2>1, <2>3, <2>4 DEF CallRaises, DispatcherTypeOK
<1>9. ASSUME NEW r \in Requests, SwitchOnTurn(r)
      PROVE  DispatcherTypeOK'
  <2>1. target[r] \in Candidates /\ Switch(r, target[r])
    BY <1>9 DEF SwitchOnTurn, OnTurn, ChoicesInHand
  <2>2. lockq' \in Seq(Requests)
    BY <1>9, TurnTypes DEF SwitchOnTurn
  <2> QED
    BY <1>9, <2>1, <2>2, SwitchTypes DEF SwitchOnTurn, DispatcherTypeOK
<1>10. ASSUME NEW r \in Requests, ReleaseOnTurn(r)
       PROVE  DispatcherTypeOK'
  <2>1. active' \in [Places -> Nat]
    BY <1>10, CounterUpdates DEF ReleaseOnTurn, DispatcherTypeOK
  <2>2. lockq' \in Seq(Requests)
    BY <1>10, TurnTypes DEF ReleaseOnTurn
  <2>3. audit' \in [Requests -> Classes]
    BY <1>10, RouteClassType DEF ReleaseOnTurn, DispatcherTypeOK
  <2> QED
    BY <1>10, <2>1, <2>2, <2>3 DEF ReleaseOnTurn, DispatcherTypeOK, Phases
<1>11. ASSUME NEW w \in Workers, PenaltyExpires(w)
       PROVE  DispatcherTypeOK'
  BY <1>11 DEF PenaltyExpires, DispatcherTypeOK
<1>12. ASSUME NEW w \in Workers, WatchReports(w)
       PROVE  DispatcherTypeOK'
  BY <1>12 DEF WatchReports, DispatcherTypeOK
<1>13. CASE UNCHANGED vars
  BY <1>13 DEF vars, DispatcherTypeOK
<1> QED
  BY <1>1, <1>2, <1>3, <1>4, <1>5, <1>6, <1>7, <1>8, <1>9, <1>10, <1>11, <1>12, <1>13 DEF Next

-----------------------------------------------------------------------------
(* The queue of the lock.                                                  *)

Waiting(ph) == ph \in {"queued", "switching", "releasing"}

\* Who is in a queue, once each.
Lists(q, members) ==
  /\ \A i, j \in 1 .. Len(q) : q[i] = q[j] => i = j
  /\ \A r \in Requests : (\E i \in 1 .. Len(q) : q[i] = r) <=> r \in members

\* One more at the end.
LEMMA AppendLists ==
  ASSUME NEW q \in Seq(Requests), NEW members \in SUBSET Requests,
         NEW r \in Requests \ members, Lists(q, members)
  PROVE  Lists(Append(q, r), members \cup {r})
<1> DEFINE s == Append(q, r)
<1>1. /\ Len(s) = Len(q) + 1
      /\ \A i \in 1 .. Len(q) : s[i] = q[i]
      /\ s[Len(q) + 1] = r
      /\ Len(q) \in Nat
  OBVIOUS
<1>2. \A i \in 1 .. Len(q) : q[i] # r
  BY DEF Lists
<1>3. ASSUME NEW i \in 1 .. Len(s), NEW j \in 1 .. Len(s), s[i] = s[j]
      PROVE  i = j
  <2>1. CASE i \in 1 .. Len(q) /\ j \in 1 .. Len(q)
    BY <1>1, <1>3, <2>1 DEF Lists
  <2>2. CASE i = Len(q) + 1 \/ j = Len(q) + 1
    BY <1>1, <1>2, <1>3, <2>2
  <2> QED
    BY <1>1, <2>1, <2>2
<1>4. ASSUME NEW x \in Requests
      PROVE  (\E i \in 1 .. Len(s) : s[i] = x) <=> x \in members \cup {r}
  <2>1. ASSUME NEW i \in 1 .. Len(s), s[i] = x
        PROVE  x \in members \cup {r}
    BY <1>1, <2>1 DEF Lists
  <2>2. ASSUME x \in members
        PROVE  \E i \in 1 .. Len(s) : s[i] = x
    <3>1. PICK i \in 1 .. Len(q) : q[i] = x
      BY <2>2 DEF Lists
    <3>2. i \in 1 .. Len(s) /\ s[i] = x
      BY <1>1, <3>1
    <3> QED
      BY <3>2
  <2>3. ASSUME x = r
        PROVE  \E i \in 1 .. Len(s) : s[i] = x
    <3>1. Len(q) + 1 \in 1 .. Len(s) /\ s[Len(q) + 1] = x
      BY <1>1, <2>3
    <3> QED
      BY <3>1
  <2> QED
    BY <2>1, <2>2, <2>3
<1> QED
  BY <1>3, <1>4 DEF Lists

\* The head leaves, and whoever is head now is somebody else.
LEMMA TailLists ==
  ASSUME NEW q \in Seq(Requests), NEW members \in SUBSET Requests,
         q # <<>>, Lists(q, members)
  PROVE  /\ Lists(Tail(q), members \ {Head(q)})
         /\ Tail(q) # <<>> => Head(Tail(q)) # Head(q)
<1> DEFINE t == Tail(q)
<1>1. /\ Len(q) \in Nat /\ Len(q) > 0
      /\ Len(t) = Len(q) - 1
      /\ \A i \in 1 .. Len(t) : t[i] = q[i + 1]
      /\ Head(q) = q[1]
  BY HeadTailProperties
<1>2. \A i \in 1 .. Len(t) : t[i] # q[1]
  BY <1>1 DEF Lists
<1>3. ASSUME NEW i \in 1 .. Len(t), NEW j \in 1 .. Len(t), t[i] = t[j]
      PROVE  i = j
  <2>1. i + 1 = j + 1
    BY <1>1, <1>3 DEF Lists
  <2> QED
    BY <2>1, <1>1
<1>4. ASSUME NEW x \in Requests
      PROVE  (\E i \in 1 .. Len(t) : t[i] = x) <=> x \in members \ {Head(q)}
  <2>1. ASSUME NEW i \in 1 .. Len(t), t[i] = x
        PROVE  x \in members \ {Head(q)}
    <3>1. i + 1 \in 1 .. Len(q) /\ q[i + 1] = x
      BY <1>1, <2>1
    <3> QED
      BY <1>1, <1>2, <2>1, <3>1 DEF Lists
  <2>2. ASSUME x \in members, x # Head(q)
        PROVE  \E i \in 1 .. Len(t) : t[i] = x
    <3>1. PICK i \in 1 .. Len(q) : q[i] = x
      BY <2>2 DEF Lists
    <3>2. i - 1 \in 1 .. Len(t) /\ t[i - 1] = x
      BY <1>1, <2>2, <3>1
    <3> QED
      BY <3>2
  <2> QED
    BY <2>1, <2>2
<1>5. t # <<>> => Head(t) # Head(q)
  <2> SUFFICES ASSUME t # <<>> PROVE Head(t) # Head(q)
    OBVIOUS
  <2>1. t \in Seq(Requests) /\ Len(t) > 0 /\ Head(t) = t[1]
    BY HeadTailProperties
  <2> QED
    BY <1>1, <1>2, <2>1
<1> QED
  BY <1>3, <1>4, <1>5 DEF Lists

Members == {r \in Requests : Waiting(phase[r])}

\* QueueMatchesPhases is about the requests whose phase waits.
LEMMA QueueLists == QueueMatchesPhases <=> Lists(lockq, Members)
BY DEF QueueMatchesPhases, Lists, Members, Waiting

LEMMA QueueListsNext == QueueMatchesPhases' <=> Lists(lockq', Members')
BY DEF QueueMatchesPhases, Lists, Members, Waiting

\* A request that is not in the queue goes on outside it.
LEMMA QueueStands ==
  ASSUME DispatcherTypeOK, QueueMatchesPhases, NEW r \in Requests, NEW x \in Phases,
         ~Waiting(phase[r]), ~Waiting(x),
         phase' = [phase EXCEPT ![r] = x], lockq' = lockq
  PROVE  QueueMatchesPhases'
<1>1. Members' = Members
  BY DEF Members, Waiting, DispatcherTypeOK
<1> QED
  BY <1>1, QueueLists, QueueListsNext

\* A request joins the queue.
LEMMA QueueJoins ==
  ASSUME DispatcherTypeOK, QueueMatchesPhases, NEW r \in Requests, NEW x \in Phases,
         ~Waiting(phase[r]), Waiting(x),
         phase' = [phase EXCEPT ![r] = x], lockq' = Append(lockq, r)
  PROVE  QueueMatchesPhases'
<1>1. Members' = Members \cup {r} /\ r \notin Members /\ Members \in SUBSET Requests
  BY DEF Members, Waiting, DispatcherTypeOK
<1>2. Lists(Append(lockq, r), Members \cup {r})
  BY <1>1, QueueLists, AppendLists DEF DispatcherTypeOK
<1> QED
  BY <1>1, <1>2, QueueListsNext

\* The holder of the lock leaves the queue, and the next holder is another.
LEMMA QueueLeaves ==
  ASSUME DispatcherTypeOK, QueueMatchesPhases, NEW r \in Requests, NEW x \in Phases,
         NEW what, OnTurn(r, what), ~Waiting(x),
         phase' = [phase EXCEPT ![r] = x], lockq' = Tail(lockq)
  PROVE  QueueMatchesPhases' /\ (lockq' # <<>> => Head(lockq') # Head(lockq))
<1>1. lockq # <<>> /\ lockq \in Seq(Requests) /\ Head(lockq) = r
  BY DEF OnTurn, LockFree, DispatcherTypeOK
<1>2. Members' = Members \ {r} /\ Members \in SUBSET Requests
  BY DEF Members, Waiting, DispatcherTypeOK
<1>3. /\ Lists(Tail(lockq), Members \ {r})
      /\ Tail(lockq) # <<>> => Head(Tail(lockq)) # Head(lockq)
  BY <1>1, <1>2, QueueLists, TailLists
<1> QED
  BY <1>2, <1>3, QueueListsNext

\* A step of the dispatcher while the same request holds the lock.
Frozen == ~LockFree /\ lockq' # <<>> /\ Head(lockq') = Head(lockq) => active' = active

\* The two ways a request leaves, at once or through the queue.
LEMMA LeaveQueue ==
  ASSUME DispatcherTypeOK, QueueMatchesPhases, NEW r \in Requests, NEW c, NEW result,
         phase[r] = "calling", Leave(r, c, result)
  PROVE  QueueMatchesPhases' /\ Frozen
<1>1. CASE LockFree
  <2>1. phase' = [phase EXCEPT ![r] = "done"] /\ lockq' = lockq
    BY <1>1, Zenon DEF Leave
  <2> QED
    BY <1>1, <2>1, QueueStands DEF Phases, Waiting, Frozen
<1>2. CASE ~LockFree
  <2>1. /\ phase' = [phase EXCEPT ![r] = "releasing"]
        /\ active' = active
        /\ lockq' = Append(lockq, r)
    BY <1>2, Zenon DEF Leave
  <2> QED
    BY <2>1, QueueJoins DEF Phases, Waiting, Frozen
<1> QED
  BY <1>1, <1>2

LEMMA QueueStep ==
  DispatcherTypeOK /\ QueueMatchesPhases /\ [Next]_vars => QueueMatchesPhases' /\ Frozen
<1> SUFFICES ASSUME DispatcherTypeOK, QueueMatchesPhases, [Next]_vars
             PROVE  QueueMatchesPhases' /\ Frozen
  OBVIOUS
<1> USE DEF Phases, Waiting
<1>1. ASSUME NEW r \in Requests, ArriveAdmitted(r)
      PROVE  QueueMatchesPhases' /\ Frozen
  <2>1. LockFree /\ ~Waiting(phase[r]) /\ phase' = [phase EXCEPT ![r] = "calling"] /\ lockq' = lockq
    BY <1>1 DEF ArriveAdmitted, Admit
  <2> QED
    BY <2>1, QueueStands DEF Frozen
<1>2. ASSUME NEW r \in Requests, ArriveQueued(r)
      PROVE  QueueMatchesPhases' /\ Frozen
  <2>1. /\ ~Waiting(phase[r]) /\ phase' = [phase EXCEPT ![r] = "queued"]
        /\ lockq' = Append(lockq, r) /\ active' = active
    BY <1>2 DEF ArriveQueued
  <2> QED
    BY <2>1, QueueJoins DEF Frozen
<1>3. ASSUME NEW r \in Requests, QueuePolls(r)
      PROVE  QueueMatchesPhases' /\ Frozen
  <2>1. OnTurn(r, "queued") /\ phase' = [phase EXCEPT ![r] = "calling"] /\ lockq' = Tail(lockq)
    BY <1>3 DEF QueuePolls, Admit
  <2> QED
    BY <2>1, QueueLeaves DEF Frozen
<1>4. ASSUME NEW r \in Requests, QueueGivesUp(r)
      PROVE  QueueMatchesPhases' /\ Frozen
  <2>1. OnTurn(r, "queued") /\ phase' = [phase EXCEPT ![r] = "done"] /\ lockq' = Tail(lockq)
    BY <1>4 DEF QueueGivesUp
  <2> QED
    BY <2>1, QueueLeaves DEF Frozen
<1>5. ASSUME NEW r \in Requests, CallReturns(r)
      PROVE  QueueMatchesPhases' /\ Frozen
  BY <1>5, LeaveQueue DEF CallReturns
<1>6. ASSUME NEW r \in Requests, RetrySameWorker(r)
      PROVE  QueueMatchesPhases' /\ Frozen
  BY <1>6, QueueLists, QueueListsNext DEF RetrySameWorker, Frozen, Members
<1>7. ASSUME NEW r \in Requests, ClaimAlternate(r)
      PROVE  QueueMatchesPhases' /\ Frozen
  <2>1. phase[r] = "calling"
    BY <1>7 DEF ClaimAlternate, RecordFailure
  <2>2. CASE LockFree
    <3>1. phase' = [phase EXCEPT ![r] = "calling"] /\ lockq' = lockq
      BY <1>7, <2>2 DEF ClaimAlternate, Switch
    <3> QED
      BY <2>1, <2>2, <3>1, QueueStands DEF Frozen
  <2>3. CASE ~LockFree
    <3>1. /\ phase' = [phase EXCEPT ![r] = "switching"]
          /\ lockq' = Append(lockq, r) /\ active' = active
      BY <1>7, <2>3 DEF ClaimAlternate
    <3> QED
      BY <2>1, <3>1, QueueJoins DEF Frozen
  <2> QED
    BY <2>2, <2>3
<1>8. ASSUME NEW r \in Requests, CallRaises(r)
      PROVE  QueueMatchesPhases' /\ Frozen
  BY <1>8, LeaveQueue DEF CallRaises, RecordFailure
<1>9. ASSUME NEW r \in Requests, SwitchOnTurn(r)
      PROVE  QueueMatchesPhases' /\ Frozen
  <2>1. OnTurn(r, "switching") /\ phase' = [phase EXCEPT ![r] = "calling"] /\ lockq' = Tail(lockq)
    BY <1>9 DEF SwitchOnTurn, Switch
  <2> QED
    BY <2>1, QueueLeaves DEF Frozen
<1>10. ASSUME NEW r \in Requests, ReleaseOnTurn(r)
       PROVE  QueueMatchesPhases' /\ Frozen
  <2>1. OnTurn(r, "releasing") /\ phase' = [phase EXCEPT ![r] = "done"] /\ lockq' = Tail(lockq)
    BY <1>10 DEF ReleaseOnTurn
  <2> QED
    BY <2>1, QueueLeaves DEF Frozen
<1>11. ASSUME lockq' = lockq, phase' = phase, active' = active
       PROVE  QueueMatchesPhases' /\ Frozen
  BY <1>11, QueueLists, QueueListsNext DEF Frozen, Members
<1>12. ASSUME NEW w \in Workers, PenaltyExpires(w) \/ WatchReports(w)
       PROVE  QueueMatchesPhases' /\ Frozen
  BY <1>11, <1>12 DEF PenaltyExpires, WatchReports
<1>13. CASE UNCHANGED vars
  BY <1>11, <1>13 DEF vars
<1> QED
  BY <1>1, <1>2, <1>3, <1>4, <1>5, <1>6, <1>7, <1>8, <1>9, <1>10, <1>12, <1>13 DEF Next

-----------------------------------------------------------------------------
(* What a counted request has in hand.                                     *)

\* ChoicesInHand, for one request.
InHand(ph, cur, ini, tgt, out) ==
  /\ ph \in Holding => cur \in Candidates /\ ini \in Candidates
  /\ ph = "switching" => tgt \in Candidates
  /\ ph = "releasing" => out \in {"ok", "error"} /\ tgt = IF out = "ok" THEN cur ELSE ini
  /\ ph \in {"idle", "queued", "calling", "switching"} => out = "none"

LEMMA ChoicesOfEach ==
  /\ ChoicesInHand <=> \A q \in Requests :
       InHand(phase[q], current[q], initial[q], target[q], outcome[q])
  /\ ChoicesInHand' <=> \A q \in Requests :
       InHand(phase'[q], current'[q], initial'[q], target'[q], outcome'[q])
BY DEF ChoicesInHand, InHand

\* A step that concerns one request.
OthersStand(r) ==
  \A q \in Requests \ {r} :
    /\ phase'[q] = phase[q] /\ current'[q] = current[q] /\ initial'[q] = initial[q]
    /\ target'[q] = target[q] /\ outcome'[q] = outcome[q]

LEMMA OneRequestMoves ==
  ASSUME ChoicesInHand, NEW r \in Requests, OthersStand(r),
         InHand(phase'[r], current'[r], initial'[r], target'[r], outcome'[r])
  PROVE  ChoicesInHand'
<1>1. ASSUME NEW q \in Requests
      PROVE  InHand(phase'[q], current'[q], initial'[q], target'[q], outcome'[q])
  <2>1. CASE q = r
    BY <2>1
  <2>2. CASE q # r
    BY <2>2, ChoicesOfEach DEF OthersStand
  <2> QED
    BY <2>1, <2>2
<1> QED
  BY <1>1, ChoicesOfEach

\* A request leaves with the choice its result names.
LEMMA LeaveInHand ==
  ASSUME DispatcherTypeOK, ChoicesInHand, NEW r \in Requests, NEW result \in {"ok", "error"},
         phase[r] = "calling", UNCHANGED choiceVars,
         Leave(r, IF result = "ok" THEN current[r] ELSE initial[r], result)
  PROVE  ChoicesInHand'
<1> DEFINE c == IF result = "ok" THEN current[r] ELSE initial[r]
<1>1. InHand(phase[r], current[r], initial[r], target[r], outcome[r])
  BY ChoicesOfEach
<1>2. /\ outcome' = [outcome EXCEPT ![r] = result]
      /\ target' = [target EXCEPT ![r] = c]
      /\ \/ phase' = [phase EXCEPT ![r] = "done"]
         \/ phase' = [phase EXCEPT ![r] = "releasing"]
  BY Zenon DEF Leave
<1>3. OthersStand(r)
  BY <1>2 DEF OthersStand, DispatcherTypeOK
<1>4. InHand(phase'[r], current'[r], initial'[r], target'[r], outcome'[r])
  BY <1>1, <1>2 DEF InHand, DispatcherTypeOK, Holding
<1> QED
  BY <1>3, <1>4, OneRequestMoves

LEMMA ChoicesStep == DispatcherTypeOK /\ ChoicesInHand /\ [Next]_vars => ChoicesInHand'
<1> SUFFICES ASSUME DispatcherTypeOK, ChoicesInHand, [Next]_vars
             PROVE  ChoicesInHand'
  OBVIOUS
<1> USE DEF DispatcherTypeOK, InHand, OthersStand, Holding
<1>1. ASSUME NEW r \in Requests, ArriveAdmitted(r) \/ QueuePolls(r)
      PROVE  ChoicesInHand'
  <2>1. PICK c \in Candidates : Admit(r, c)
    BY <1>1, ChoicesAreCandidates DEF ArriveAdmitted, QueuePolls
  <2>2. phase[r] \in {"idle", "queued"}
    BY <1>1 DEF ArriveAdmitted, QueuePolls, OnTurn
  <2>3. OthersStand(r)
    BY <2>1 DEF Admit
  <2>4. InHand(phase'[r], current'[r], initial'[r], target'[r], outcome'[r])
    BY <2>1, <2>2, ChoicesOfEach DEF Admit
  <2> QED
    BY <2>3, <2>4, OneRequestMoves
<1>2. ASSUME NEW r \in Requests, ArriveQueued(r)
      PROVE  ChoicesInHand'
  <2>1. OthersStand(r) /\ InHand(phase'[r], current'[r], initial'[r], target'[r], outcome'[r])
    BY <1>2, ChoicesOfEach DEF ArriveQueued
  <2> QED
    BY <2>1, OneRequestMoves
<1>3. ASSUME NEW r \in Requests, QueueGivesUp(r)
      PROVE  ChoicesInHand'
  <2>1. OthersStand(r) /\ InHand(phase'[r], current'[r], initial'[r], target'[r], outcome'[r])
    BY <1>3, ChoicesOfEach DEF QueueGivesUp, OnTurn
  <2> QED
    BY <2>1, OneRequestMoves
<1>4. ASSUME NEW r \in Requests, CallReturns(r)
      PROVE  ChoicesInHand'
  BY <1>4, LeaveInHand DEF CallReturns
<1>5. ASSUME NEW r \in Requests, CallRaises(r)
      PROVE  ChoicesInHand'
  BY <1>5, LeaveInHand DEF CallRaises, RecordFailure
<1>6. ASSUME NEW r \in Requests, RetrySameWorker(r)
      PROVE  ChoicesInHand'
  BY <1>6 DEF RetrySameWorker, ChoicesInHand
<1>7. ASSUME NEW r \in Requests, NEW c \in Candidates, Switch(r, c),
             phase[r] \in {"calling", "switching"}, UNCHANGED target
      PROVE  ChoicesInHand'
  <2>1. OthersStand(r) /\ InHand(phase'[r], current'[r], initial'[r], target'[r], outcome'[r])
    BY <1>7, ChoicesOfEach DEF Switch
  <2> QED
    BY <2>1, OneRequestMoves
<1>8. ASSUME NEW r \in Requests, ClaimAlternate(r)
      PROVE  ChoicesInHand'
  <2>1. phase[r] = "calling"
    BY <1>8 DEF ClaimAlternate, RecordFailure
  <2>2. CASE LockFree
    BY <1>7, <1>8, <2>1, <2>2, ChoicesAreCandidates DEF ClaimAlternate
  <2>3. CASE ~LockFree
    <3>1. PICK c \in Candidates :
             /\ target' = [target EXCEPT ![r] = c]
             /\ phase' = [phase EXCEPT ![r] = "switching"]
             /\ UNCHANGED <<choiceVars, outcome>>
      BY <1>8, <2>3, ChoicesAreCandidates DEF ClaimAlternate
    <3>2. OthersStand(r) /\ InHand(phase'[r], current'[r], initial'[r], target'[r], outcome'[r])
      BY <2>1, <3>1, ChoicesOfEach
    <3> QED
      BY <3>2, OneRequestMoves
  <2> QED
    BY <2>2, <2>3
<1>9. ASSUME NEW r \in Requests, SwitchOnTurn(r)
      PROVE  ChoicesInHand'
  <2>1. phase[r] = "switching" /\ target[r] \in Candidates
    BY <1>9 DEF SwitchOnTurn, OnTurn, ChoicesInHand
  <2> QED
    BY <1>7, <1>9, <2>1 DEF SwitchOnTurn
<1>10. ASSUME NEW r \in Requests, ReleaseOnTurn(r)
       PROVE  ChoicesInHand'
  <2>1. OthersStand(r) /\ InHand(phase'[r], current'[r], initial'[r], target'[r], outcome'[r])
    BY <1>10, ChoicesOfEach DEF ReleaseOnTurn
  <2> QED
    BY <2>1, OneRequestMoves
<1>11. ASSUME NEW w \in Workers, PenaltyExpires(w) \/ WatchReports(w)
       PROVE  ChoicesInHand'
  BY <1>11 DEF PenaltyExpires, WatchReports, ChoicesInHand
<1>12. CASE UNCHANGED vars
  BY <1>12 DEF vars, ChoicesInHand
<1> QED
  BY <1>1, <1>2, <1>3, <1>4, <1>5, <1>6, <1>8, <1>9, <1>10, <1>11, <1>12 DEF Next

-----------------------------------------------------------------------------
(* The limits.                                                             *)

\* Choices and alternates have room.
LEMMA ChoicesAreFree ==
  ASSUME NEW r \in Requests, NEW penalties
  PROVE  /\ \A c \in Choices(r, penalties) : Free(active, c)
         /\ \A c \in Alternates(r, penalties) : Free(active, c)
BY DEF Choices, Alternates

\* Taking where there is room stays within the limits, giving always does.
LEMMA TakingKeepsLimits ==
  ASSUME NEW a \in [Places -> Nat], NEW c, Free(a, c), \A p \in Places : a[p] <= Limit[p]
  PROVE  \A p \in Places : Taken(a, c)[p] <= Limit[p]
BY DispatcherAssumption DEF Taken, Free

LEMMA GivingKeepsLimits ==
  ASSUME NEW a \in [Places -> Nat], NEW c, \A p \in Places : a[p] <= Limit[p]
  PROVE  \A p \in Places : Given(a, c)[p] <= Limit[p]
BY DispatcherAssumption DEF Given

LEMMA GivingKeepsFree ==
  ASSUME NEW a \in [Places -> Nat], NEW b, NEW c \in Candidates, Free(a, c)
  PROVE  Free(Given(a, b), c)
<1>1. \A p \in PlacesOf[c] : p \in Places /\ a[p] < Limit[p] /\ a[p] \in Nat /\ Limit[p] \in Nat
  BY DispatcherAssumption DEF Free, Places
<1> QED
  BY <1>1 DEF Free, Given

LEMMA LimitsStep ==
  DispatcherTypeOK /\ CountersWithinLimits /\ [Next]_vars => CountersWithinLimits'
<1> SUFFICES ASSUME DispatcherTypeOK, CountersWithinLimits, [Next]_vars, ~lateSwitch'
             PROVE  \A p \in Places : active'[p] <= Limit[p]
  BY DEF CountersWithinLimits
<1> DEFINE Within(a) == \A p \in Places : a[p] <= Limit[p]
<1> USE DEF DispatcherTypeOK
<1>1. ASSUME NEW r \in Requests, ArriveAdmitted(r) \/ QueuePolls(r)
      PROVE  Within(active')
  <2>1. PICK c \in Choices(r, penalised) : Admit(r, c)
    BY <1>1 DEF ArriveAdmitted, QueuePolls
  <2>2. Within(active)
    BY <2>1 DEF Admit, CountersWithinLimits
  <2>3. active' = Taken(active, c) /\ Free(active, c)
    BY <2>1, ChoicesAreFree DEF Admit
  <2> QED
    BY <2>2, <2>3, TakingKeepsLimits
<1>2. ASSUME active' = active \/ (\E c : active' = Given(active, c)), ~lateSwitch
      PROVE  Within(active')
  BY <1>2, GivingKeepsLimits DEF CountersWithinLimits
<1>3. ASSUME NEW r \in Requests, ArriveQueued(r) \/ QueueGivesUp(r) \/ RetrySameWorker(r)
      PROVE  Within(active')
  BY <1>2, <1>3 DEF ArriveQueued, QueueGivesUp, RetrySameWorker
<1>4. ASSUME NEW r \in Requests, CallReturns(r) \/ CallRaises(r)
      PROVE  Within(active')
  <2>1. active' = active \/ (\E c : active' = Given(active, c))
    BY <1>4, Zenon DEF CallReturns, CallRaises, Leave
  <2> QED
    BY <1>2, <1>4, <2>1 DEF CallReturns, CallRaises
<1>5. ASSUME NEW r \in Requests, ClaimAlternate(r)
      PROVE  Within(active')
  <2>1. ~lateSwitch
    BY <1>5 DEF ClaimAlternate
  <2>2. CASE LockFree
    <3>1. PICK c \in Alternates(r, penalised') : Switch(r, c)
      BY <1>5, <2>2 DEF ClaimAlternate
    <3>2. active' = Taken(Given(active, current[r]), c)
      BY <3>1 DEF Switch
    <3>3. Free(Given(active, current[r]), c)
      BY ChoicesAreFree, ChoicesAreCandidates, GivingKeepsFree
    <3>4. Within(Given(active, current[r])) /\ Given(active, current[r]) \in [Places -> Nat]
      BY <2>1, GivingKeepsLimits, CounterUpdates DEF CountersWithinLimits
    <3> QED
      BY <3>2, <3>3, <3>4, TakingKeepsLimits
  <2>3. CASE ~LockFree
    BY <1>2, <1>5, <2>1, <2>3 DEF ClaimAlternate
  <2> QED
    BY <2>2, <2>3
<1>6. ASSUME NEW r \in Requests, SwitchOnTurn(r)
      PROVE  FALSE
  BY <1>6 DEF SwitchOnTurn
<1>7. ASSUME NEW r \in Requests, ReleaseOnTurn(r)
      PROVE  Within(active')
  BY <1>2, <1>7 DEF ReleaseOnTurn
<1>8. ASSUME NEW w \in Workers, PenaltyExpires(w) \/ WatchReports(w)
      PROVE  Within(active')
  BY <1>2, <1>8 DEF PenaltyExpires, WatchReports
<1>9. CASE UNCHANGED vars
  BY <1>2, <1>9 DEF vars
<1> QED
  BY <1>1, <1>3, <1>4, <1>5, <1>6, <1>7, <1>8, <1>9 DEF Next

-----------------------------------------------------------------------------
(* The counters count the requests that hold a place.                      *)

Exact == \A p \in Places : active[p] = Cardinality(Holders(p))

LEMMA HoldersFinite == \A p : IsFiniteSet(Holders(p)) /\ IsFiniteSet(Holders(p)')
<1>1. \A p : Holders(p) \subseteq Requests /\ Holders(p)' \subseteq Requests
  BY DEF Holders
<1> QED
  BY <1>1, FS_Subset, DispatcherAssumption

\* A request that holds nothing takes the places of c.
LEMMA EnteringCounts ==
  ASSUME DispatcherTypeOK, Exact, NEW r \in Requests, NEW c \in Candidates,
         phase[r] \notin Holding,
         phase' = [phase EXCEPT ![r] = "calling"],
         current' = [current EXCEPT ![r] = c],
         active' = Taken(active, c)
  PROVE  Exact'
<1> SUFFICES ASSUME NEW p \in Places
             PROVE  active'[p] = Cardinality(Holders(p)')
  BY DEF Exact
<1>1. r \notin Holders(p) /\ IsFiniteSet(Holders(p)) /\ active[p] = Cardinality(Holders(p))
  BY HoldersFinite DEF Holders, Exact
<1>2. CASE p \in PlacesOf[c]
  <2>1. Holders(p)' = Holders(p) \cup {r}
    BY <1>2 DEF Holders, Holding, DispatcherTypeOK
  <2>2. active'[p] = active[p] + 1
    BY <1>2 DEF Taken
  <2> QED
    BY <1>1, <2>1, <2>2, FS_AddElement
<1>3. CASE p \notin PlacesOf[c]
  <2>1. Holders(p)' = Holders(p)
    BY <1>3 DEF Holders, Holding, DispatcherTypeOK
  <2>2. active'[p] = active[p]
    BY <1>3 DEF Taken
  <2> QED
    BY <1>1, <2>1, <2>2
<1> QED
  BY <1>2, <1>3

\* A counter somebody holds is not zero, so giving back takes one off.
LEMMA GivingCounts ==
  ASSUME DispatcherTypeOK, Exact, NEW r \in Requests, phase[r] \in Holding, NEW p \in Places
  PROVE  Given(active, current[r])[p] = Cardinality(Holders(p) \ {r})
<1>1. IsFiniteSet(Holders(p)) /\ active[p] = Cardinality(Holders(p)) /\ active[p] \in Nat
  BY HoldersFinite DEF Exact, DispatcherTypeOK
<1>2. CASE p \in PlacesOf[current[r]]
  <2>1. r \in Holders(p)
    BY <1>2 DEF Holders
  <2>2. Cardinality(Holders(p)) # 0
    BY <1>1, <2>1, FS_EmptySet
  <2>3. Given(active, current[r])[p] = active[p] - 1
    BY <1>1, <1>2, <2>2 DEF Given
  <2> QED
    BY <1>1, <2>1, <2>3, FS_RemoveElement
<1>3. CASE p \notin PlacesOf[current[r]]
  <2>1. r \notin Holders(p) /\ Holders(p) \ {r} = Holders(p)
    BY <1>3 DEF Holders
  <2>2. Given(active, current[r])[p] = active[p]
    BY <1>3 DEF Given
  <2> QED
    BY <1>1, <2>1, <2>2
<1> QED
  BY <1>2, <1>3

\* A request that holds places gives them back and is gone.
LEMMA LeavingCounts ==
  ASSUME DispatcherTypeOK, Exact, NEW r \in Requests, NEW x \in Phases,
         phase[r] \in Holding, x \notin Holding,
         phase' = [phase EXCEPT ![r] = x], current' = current,
         active' = Given(active, current[r])
  PROVE  Exact'
<1> SUFFICES ASSUME NEW p \in Places
             PROVE  active'[p] = Cardinality(Holders(p)')
  BY DEF Exact
<1>1. Holders(p)' = Holders(p) \ {r}
  BY DEF Holders, DispatcherTypeOK
<1> QED
  BY <1>1, GivingCounts

\* A request exchanges its places for those of c.
LEMMA SwitchingCounts ==
  ASSUME DispatcherTypeOK, Exact, NEW r \in Requests, NEW c \in Candidates,
         phase[r] \in Holding, Switch(r, c)
  PROVE  Exact'
<1> SUFFICES ASSUME NEW p \in Places
             PROVE  active'[p] = Cardinality(Holders(p)')
  BY DEF Exact
<1>1. Given(active, current[r])[p] = Cardinality(Holders(p) \ {r})
  BY GivingCounts
<1>2. IsFiniteSet(Holders(p) \ {r}) /\ r \notin Holders(p) \ {r}
  BY HoldersFinite, FS_RemoveElement
<1>3. /\ phase' = [phase EXCEPT ![r] = "calling"]
      /\ current' = [current EXCEPT ![r] = c]
      /\ active' = Taken(Given(active, current[r]), c)
  BY DEF Switch
<1>4. CASE p \in PlacesOf[c]
  <2>1. Holders(p)' = (Holders(p) \ {r}) \cup {r}
    BY <1>3, <1>4 DEF Holders, Holding, DispatcherTypeOK
  <2>2. active'[p] = Given(active, current[r])[p] + 1
    BY <1>3, <1>4 DEF Taken
  <2> QED
    BY <1>1, <1>2, <2>1, <2>2, FS_AddElement
<1>5. CASE p \notin PlacesOf[c]
  <2>1. Holders(p)' = Holders(p) \ {r}
    BY <1>3, <1>5 DEF Holders, Holding, DispatcherTypeOK
  <2>2. active'[p] = Given(active, current[r])[p]
    BY <1>3, <1>5 DEF Taken
  <2> QED
    BY <1>1, <2>1, <2>2
<1> QED
  BY <1>4, <1>5

\* A request keeps its places, or keeps holding none.
LEMMA StandingCounts ==
  ASSUME Exact, active' = active,
         \A q \in Requests : /\ phase'[q] \in Holding <=> phase[q] \in Holding
                             /\ phase[q] \in Holding => current'[q] = current[q]
  PROVE  Exact'
<1>1. \A p \in Places : Holders(p)' = Holders(p)
  BY DEF Holders
<1> QED
  BY <1>1 DEF Exact

\* A failure on an alternate is not undone.
LEMMA FailureStays ==
  ASSUME DispatcherTypeOK, ChoicesInHand, AlternateFailed, [Next]_vars
  PROVE  AlternateFailed'
<1>1. PICK q \in Requests : outcome[q] = "error" /\ current[q] # initial[q]
  BY DEF AlternateFailed, Alternated
<1>2. phase[q] \notin {"idle", "queued", "calling", "switching"}
  BY <1>1 DEF ChoicesInHand
<1>3. SUFFICES outcome'[q] = outcome[q] /\ current'[q] = current[q] /\ initial'[q] = initial[q]
  BY <1>1 DEF AlternateFailed, Alternated
<1>4. ASSUME NEW r \in Requests, phase[r] \in {"idle", "queued", "calling", "switching"},
             \A x \in Requests \ {r} : /\ outcome'[x] = outcome[x] /\ current'[x] = current[x]
                                       /\ initial'[x] = initial[x]
      PROVE  outcome'[q] = outcome[q] /\ current'[q] = current[q] /\ initial'[q] = initial[q]
  BY <1>2, <1>4
<1> USE DEF DispatcherTypeOK
<1>5. ASSUME NEW r \in Requests, ArriveAdmitted(r) \/ QueuePolls(r)
      PROVE  outcome'[q] = outcome[q] /\ current'[q] = current[q] /\ initial'[q] = initial[q]
  BY <1>4, <1>5 DEF ArriveAdmitted, QueuePolls, OnTurn, Admit
<1>6. ASSUME NEW r \in Requests, ArriveQueued(r) \/ QueueGivesUp(r)
      PROVE  outcome'[q] = outcome[q] /\ current'[q] = current[q] /\ initial'[q] = initial[q]
  BY <1>4, <1>6 DEF ArriveQueued, QueueGivesUp, OnTurn
<1>7. ASSUME NEW r \in Requests, CallReturns(r) \/ CallRaises(r)
      PROVE  outcome'[q] = outcome[q] /\ current'[q] = current[q] /\ initial'[q] = initial[q]
  <2>1. phase[r] = "calling" /\ UNCHANGED choiceVars
    BY <1>7 DEF CallReturns, CallRaises, RecordFailure
  <2>2. \E result : outcome' = [outcome EXCEPT ![r] = result]
    BY <1>7, Zenon DEF CallReturns, CallRaises, Leave
  <2> QED
    BY <1>4, <2>1, <2>2
<1>8. ASSUME NEW r \in Requests, RetrySameWorker(r) \/ ReleaseOnTurn(r)
      PROVE  outcome'[q] = outcome[q] /\ current'[q] = current[q] /\ initial'[q] = initial[q]
  BY <1>8 DEF RetrySameWorker, ReleaseOnTurn
<1>9. ASSUME NEW r \in Requests, NEW c, Switch(r, c), phase[r] \in {"calling", "switching"}
      PROVE  outcome'[q] = outcome[q] /\ current'[q] = current[q] /\ initial'[q] = initial[q]
  BY <1>4, <1>9 DEF Switch
<1>10. ASSUME NEW r \in Requests, ClaimAlternate(r) \/ SwitchOnTurn(r)
       PROVE  outcome'[q] = outcome[q] /\ current'[q] = current[q] /\ initial'[q] = initial[q]
  BY <1>9, <1>10 DEF ClaimAlternate, RecordFailure, SwitchOnTurn, OnTurn
<1>11. ASSUME NEW w \in Workers, PenaltyExpires(w) \/ WatchReports(w)
       PROVE  outcome'[q] = outcome[q] /\ current'[q] = current[q] /\ initial'[q] = initial[q]
  BY <1>11 DEF PenaltyExpires, WatchReports
<1>12. CASE UNCHANGED vars
  BY <1>12 DEF vars
<1> QED
  BY <1>5, <1>6, <1>7, <1>8, <1>10, <1>11, <1>12 DEF Next

\* A request leaves with the choice it is counted for.
LEMMA LeaveCounts ==
  ASSUME DispatcherTypeOK, Exact, NEW r \in Requests, NEW result,
         phase[r] = "calling", current' = current, Leave(r, current[r], result)
  PROVE  Exact'
<1>1. CASE LockFree
  <2>1. phase' = [phase EXCEPT ![r] = "done"] /\ active' = Given(active, current[r])
    BY <1>1, Zenon DEF Leave
  <2> QED
    BY <2>1, LeavingCounts DEF Holding, Phases
<1>2. CASE ~LockFree
  <2>1. phase' = [phase EXCEPT ![r] = "releasing"] /\ active' = active
    BY <1>2, Zenon DEF Leave
  <2> QED
    BY <2>1, StandingCounts DEF Holding, DispatcherTypeOK
<1> QED
  BY <1>1, <1>2

LEMMA AccountingStep ==
  DispatcherTypeOK /\ ChoicesInHand /\ AccountingExact /\ [Next]_vars => AccountingExact'
<1> SUFFICES ASSUME DispatcherTypeOK, ChoicesInHand, AccountingExact, [Next]_vars,
                    ~AlternateFailed'
             PROVE  Exact'
  BY DEF AccountingExact, Exact
<1>0. Exact /\ ~AlternateFailed
  BY FailureStays DEF AccountingExact, Exact
<1>1. ASSUME NEW r \in Requests, ArriveAdmitted(r) \/ QueuePolls(r)
      PROVE  Exact'
  <2>1. PICK c \in Candidates : Admit(r, c)
    BY <1>1, ChoicesAreCandidates DEF ArriveAdmitted, QueuePolls
  <2>2. phase[r] \notin Holding
    BY <1>1 DEF ArriveAdmitted, QueuePolls, OnTurn, Holding
  <2> QED
    BY <1>0, <2>1, <2>2, EnteringCounts DEF Admit
<1>2. ASSUME NEW r \in Requests, ArriveQueued(r)
      PROVE  Exact'
  BY <1>0, <1>2, StandingCounts DEF ArriveQueued, Holding, DispatcherTypeOK
<1>3. ASSUME NEW r \in Requests, QueueGivesUp(r)
      PROVE  Exact'
  BY <1>0, <1>3, StandingCounts DEF QueueGivesUp, OnTurn, Holding, DispatcherTypeOK
<1>4. ASSUME NEW r \in Requests, CallReturns(r)
      PROVE  Exact'
  BY <1>0, <1>4, LeaveCounts DEF CallReturns, choiceVars
<1>5. ASSUME NEW r \in Requests, CallRaises(r)
      PROVE  Exact'
  <2>1. phase[r] = "calling" /\ Leave(r, initial[r], "error") /\ UNCHANGED choiceVars
    BY <1>5 DEF CallRaises, RecordFailure
  <2>2. outcome'[r] = "error"
    <3>1. outcome' = [outcome EXCEPT ![r] = "error"]
      BY <2>1, Zenon DEF Leave
    <3> QED
      BY <3>1 DEF DispatcherTypeOK
  <2>3. current[r] = initial[r]
    BY <2>1, <2>2 DEF AlternateFailed, Alternated, choiceVars
  <2> QED
    BY <1>0, <2>1, <2>3, LeaveCounts DEF choiceVars
<1>6. ASSUME NEW r \in Requests, RetrySameWorker(r)
      PROVE  Exact'
  BY <1>0, <1>6, StandingCounts DEF RetrySameWorker, choiceVars
<1>7. ASSUME NEW r \in Requests, ClaimAlternate(r)
      PROVE  Exact'
  <2>1. phase[r] = "calling" /\ phase[r] \in Holding
    BY <1>7 DEF ClaimAlternate, RecordFailure, Holding
  <2>2. CASE LockFree
    <3>1. PICK c \in Candidates : Switch(r, c)
      BY <1>7, <2>2, ChoicesAreCandidates DEF ClaimAlternate
    <3> QED
      BY <1>0, <2>1, <3>1, SwitchingCounts
  <2>3. CASE ~LockFree
    <3>1. phase' = [phase EXCEPT ![r] = "switching"] /\ UNCHANGED <<active, current>>
      BY <1>7, <2>3 DEF ClaimAlternate, choiceVars
    <3> QED
      BY <1>0, <2>1, <3>1, StandingCounts DEF Holding, DispatcherTypeOK
  <2> QED
    BY <2>2, <2>3
<1>8. ASSUME NEW r \in Requests, SwitchOnTurn(r)
      PROVE  Exact'
  <2>1. phase[r] \in Holding /\ target[r] \in Candidates /\ Switch(r, target[r])
    BY <1>8 DEF SwitchOnTurn, OnTurn, ChoicesInHand, Holding
  <2> QED
    BY <1>0, <2>1, SwitchingCounts
<1>9. ASSUME NEW r \in Requests, ReleaseOnTurn(r)
      PROVE  Exact'
  <2>1. phase[r] = "releasing" /\ phase[r] \in Holding
    BY <1>9 DEF ReleaseOnTurn, OnTurn, Holding
  <2>2. target[r] = current[r]
    BY <1>0, <2>1 DEF ChoicesInHand, AlternateFailed, Alternated
  <2> QED
    BY <1>0, <1>9, <2>1, <2>2, LeavingCounts DEF ReleaseOnTurn, choiceVars, Holding, Phases
<1>10. ASSUME NEW w \in Workers, PenaltyExpires(w) \/ WatchReports(w)
       PROVE  Exact'
  BY <1>0, <1>10, StandingCounts DEF PenaltyExpires, WatchReports, choiceVars
<1>11. CASE UNCHANGED vars
  BY <1>0, <1>11, StandingCounts DEF vars, choiceVars
<1> QED
  BY <1>1, <1>2, <1>3, <1>4, <1>5, <1>6, <1>7, <1>8, <1>9, <1>10, <1>11 DEF Next

-----------------------------------------------------------------------------
(* Owners.                                                                 *)

\* A request that must run at the owner of its role.
Bound(r) == r \notin AllowFallback /\ Pin[r] = None /\ OwnerOf[r] \in Workers

\* What one such request has chosen lies at the owner.
AtOwner(r, ph, cur, ini, tgt, class) ==
  /\ ph \in Holding => WorkerOf[cur] = OwnerOf[r] /\ WorkerOf[ini] = OwnerOf[r]
  /\ ph \in {"switching", "releasing"} => WorkerOf[tgt] = OwnerOf[r]
  /\ class # "violation"

OwnersInv == \A r \in Requests :
  Bound(r) => AtOwner(r, phase[r], current[r], initial[r], target[r], audit[r])

LEMMA ChoicesAtOwner ==
  ASSUME NEW r \in Requests, Bound(r), NEW penalties
  PROVE  /\ \A c \in Choices(r, penalties) : WorkerOf[c] = OwnerOf[r]
         /\ \A c \in Alternates(r, penalties) : WorkerOf[c] = OwnerOf[r]
<1>1. WorkersFor(r, penalties) = {OwnerOf[r]}
  BY DEF Bound, WorkersFor
<1> QED
  BY <1>1 DEF Choices, Alternates

LEMMA OwnerIsPrimary ==
  ASSUME NEW r \in Requests, Bound(r), NEW c, WorkerOf[c] = OwnerOf[r], NEW a, NEW penalties
  PROVE  RouteClass(r, c, a, penalties) # "violation"
<1>1. Pin[r] = None /\ OwnerOf[r] # None
  BY DispatcherAssumption DEF Bound
<1> QED
  BY <1>1 DEF RouteClass

\* A step that concerns one request.
LEMMA OneOwnerMoves ==
  ASSUME OwnersInv, NEW r \in Requests, OthersStand(r),
         \A q \in Requests \ {r} : audit'[q] = audit[q],
         Bound(r) => AtOwner(r, phase'[r], current'[r], initial'[r], target'[r], audit'[r])
  PROVE  OwnersInv'
<1>1. ASSUME NEW q \in Requests, Bound(q)
      PROVE  AtOwner(q, phase'[q], current'[q], initial'[q], target'[q], audit'[q])
  <2>1. CASE q = r
    BY <1>1, <2>1
  <2>2. CASE q # r
    BY <1>1, <2>2 DEF OwnersInv, OthersStand
  <2> QED
    BY <2>1, <2>2
<1>2. \A q \in Requests : Bound(q) => AtOwner(q, phase'[q], current'[q], initial'[q], target'[q], audit'[q])
  BY <1>1
<1> QED
  BY <1>2 DEF OwnersInv, AtOwner, Bound

\* A request leaves with a choice at its owner.
LEMMA LeaveAtOwner ==
  ASSUME DispatcherTypeOK, OwnersInv, NEW r \in Requests, NEW c, NEW result,
         phase[r] = "calling", UNCHANGED choiceVars, Leave(r, c, result),
         Bound(r) => WorkerOf[c] = OwnerOf[r],
         \A q \in Requests \ {r} : audit'[q] = audit[q],
         Bound(r) => audit'[r] # "violation"
  PROVE  OwnersInv'
<1>1. /\ outcome' = [outcome EXCEPT ![r] = result]
      /\ target' = [target EXCEPT ![r] = c]
      /\ \/ phase' = [phase EXCEPT ![r] = "done"]
         \/ phase' = [phase EXCEPT ![r] = "releasing"]
  BY Zenon DEF Leave
<1>2. OthersStand(r)
  BY <1>1 DEF OthersStand, DispatcherTypeOK
<1>3. phase'[r] \in {"done", "releasing"} /\ current'[r] = current[r]
      /\ initial'[r] = initial[r] /\ target'[r] = c
  BY <1>1 DEF DispatcherTypeOK
<1>4. Bound(r) => AtOwner(r, phase'[r], current'[r], initial'[r], target'[r], audit'[r])
  BY <1>3 DEF OwnersInv, AtOwner, Holding
<1> QED
  BY <1>2, <1>4, OneOwnerMoves

LEMMA OwnersStep == DispatcherTypeOK /\ OwnersInv /\ [Next]_vars => OwnersInv'
<1> SUFFICES ASSUME DispatcherTypeOK, OwnersInv, [Next]_vars
             PROVE  OwnersInv'
  OBVIOUS
<1> USE DEF DispatcherTypeOK, OthersStand
<1>1. ASSUME NEW r \in Requests, ArriveAdmitted(r) \/ QueuePolls(r)
      PROVE  OwnersInv'
  <2>1. PICK c \in Choices(r, penalised) : Admit(r, c)
    BY <1>1 DEF ArriveAdmitted, QueuePolls
  <2>2. OthersStand(r) /\ audit' = audit
    BY <2>1 DEF Admit
  <2>3. Bound(r) => WorkerOf[c] = OwnerOf[r] /\ audit[r] # "violation"
    BY ChoicesAtOwner DEF OwnersInv, AtOwner
  <2>4. phase'[r] = "calling" /\ current'[r] = c /\ initial'[r] = c
    BY <2>1, ChoicesAreCandidates DEF Admit
  <2> QED
    BY <2>2, <2>3, <2>4, OneOwnerMoves DEF AtOwner
<1>2. ASSUME NEW r \in Requests, ArriveQueued(r) \/ QueueGivesUp(r)
      PROVE  OwnersInv'
  <2>1. OthersStand(r) /\ audit' = audit /\ phase'[r] \in {"queued", "done"}
    BY <1>2 DEF ArriveQueued, QueueGivesUp
  <2>2. Bound(r) => audit[r] # "violation"
    BY DEF OwnersInv, AtOwner
  <2> QED
    BY <2>1, <2>2, OneOwnerMoves DEF AtOwner, Holding
<1>3. ASSUME NEW r \in Requests, CallReturns(r)
      PROVE  OwnersInv'
  <2>1. /\ phase[r] = "calling" /\ Leave(r, current[r], "ok") /\ UNCHANGED choiceVars
        /\ \/ audit' = [audit EXCEPT ![r] = RouteClass(r, current[r], active', penalised)]
           \/ audit' = audit
    BY <1>3 DEF CallReturns
  <2>2. Bound(r) => WorkerOf[current[r]] = OwnerOf[r] /\ audit[r] # "violation"
    BY <2>1 DEF OwnersInv, AtOwner, Holding
  <2>3. Bound(r) => audit'[r] # "violation"
    BY <2>1, <2>2, OwnerIsPrimary
  <2> QED
    BY <2>1, <2>2, <2>3, LeaveAtOwner
<1>4. ASSUME NEW r \in Requests, CallRaises(r)
      PROVE  OwnersInv'
  <2>1. /\ phase[r] = "calling" /\ Leave(r, initial[r], "error") /\ UNCHANGED choiceVars
        /\ audit' = [audit EXCEPT ![r] = RouteClass(r, initial[r], active, penalised')]
    BY <1>4 DEF CallRaises, RecordFailure
  <2>2. Bound(r) => WorkerOf[initial[r]] = OwnerOf[r]
    BY <2>1 DEF OwnersInv, AtOwner, Holding
  <2>3. Bound(r) => audit'[r] # "violation"
    BY <2>1, <2>2, OwnerIsPrimary
  <2> QED
    BY <2>1, <2>2, <2>3, LeaveAtOwner
<1>5. ASSUME NEW r \in Requests, RetrySameWorker(r)
      PROVE  OwnersInv'
  BY <1>5 DEF RetrySameWorker, OwnersInv, Bound, AtOwner
<1>6. ASSUME NEW r \in Requests, NEW c, Switch(r, c), UNCHANGED target,
             phase[r] \in {"calling", "switching"}, Bound(r) => WorkerOf[c] = OwnerOf[r]
      PROVE  OwnersInv'
  <2>1. /\ OthersStand(r) /\ audit' = audit
        /\ phase'[r] = "calling" /\ current'[r] = c /\ initial'[r] = initial[r]
    BY <1>6 DEF Switch
  <2>2. Bound(r) => WorkerOf[initial[r]] = OwnerOf[r] /\ audit[r] # "violation"
    BY <1>6 DEF OwnersInv, AtOwner, Holding
  <2> QED
    BY <1>6, <2>1, <2>2, OneOwnerMoves DEF AtOwner
<1>7. ASSUME NEW r \in Requests, ClaimAlternate(r)
      PROVE  OwnersInv'
  <2>1. phase[r] = "calling"
    BY <1>7 DEF ClaimAlternate, RecordFailure
  <2>2. CASE LockFree
    <3>1. PICK c \in Alternates(r, penalised') : Switch(r, c) /\ UNCHANGED target
      BY <1>7, <2>2 DEF ClaimAlternate
    <3> QED
      BY <1>6, <2>1, <3>1, ChoicesAtOwner
  <2>3. CASE ~LockFree
    <3>1. PICK c \in Alternates(r, penalised') :
             /\ target' = [target EXCEPT ![r] = c]
             /\ phase' = [phase EXCEPT ![r] = "switching"]
             /\ UNCHANGED <<choiceVars, outcome, audit>>
      BY <1>7, <2>3 DEF ClaimAlternate
    <3>2. OthersStand(r)
      BY <3>1
    <3>3. /\ phase'[r] = "switching" /\ target'[r] = c
          /\ current'[r] = current[r] /\ initial'[r] = initial[r] /\ audit' = audit
      BY <3>1
    <3>4. Bound(r) => /\ WorkerOf[c] = OwnerOf[r] /\ WorkerOf[current[r]] = OwnerOf[r]
                      /\ WorkerOf[initial[r]] = OwnerOf[r] /\ audit[r] # "violation"
      BY <2>1, ChoicesAtOwner DEF OwnersInv, AtOwner, Holding
    <3> QED
      BY <3>2, <3>3, <3>4, OneOwnerMoves DEF AtOwner
  <2> QED
    BY <2>2, <2>3
<1>8. ASSUME NEW r \in Requests, SwitchOnTurn(r)
      PROVE  OwnersInv'
  <2>1. phase[r] = "switching" /\ Switch(r, target[r]) /\ UNCHANGED target
    BY <1>8 DEF SwitchOnTurn, OnTurn
  <2>2. Bound(r) => WorkerOf[target[r]] = OwnerOf[r]
    BY <2>1 DEF OwnersInv, AtOwner
  <2> QED
    BY <1>6, <2>1, <2>2
<1>9. ASSUME NEW r \in Requests, ReleaseOnTurn(r)
      PROVE  OwnersInv'
  <2>1. /\ phase[r] = "releasing" /\ OthersStand(r) /\ phase'[r] = "done"
        /\ \/ audit' = [audit EXCEPT ![r] = RouteClass(r, target[r], active', penalised)]
           \/ audit' = audit
    BY <1>9 DEF ReleaseOnTurn, OnTurn
  <2>2. Bound(r) => WorkerOf[target[r]] = OwnerOf[r] /\ audit[r] # "violation"
    BY <2>1 DEF OwnersInv, AtOwner
  <2>3. Bound(r) => audit'[r] # "violation"
    BY <2>1, <2>2, OwnerIsPrimary
  <2>4. \A q \in Requests \ {r} : audit'[q] = audit[q]
    BY <2>1
  <2> QED
    BY <2>1, <2>3, <2>4, OneOwnerMoves DEF AtOwner, Holding
<1>10. ASSUME NEW w \in Workers, PenaltyExpires(w) \/ WatchReports(w)
       PROVE  OwnersInv'
  BY <1>10 DEF PenaltyExpires, WatchReports, OwnersInv, Bound, AtOwner
<1>11. CASE UNCHANGED vars
  BY <1>11 DEF vars, OwnersInv, Bound, AtOwner
<1> QED
  BY <1>1, <1>2, <1>3, <1>4, <1>5, <1>7, <1>8, <1>9, <1>10, <1>11 DEF Next

-----------------------------------------------------------------------------
(* The theorems.                                                           *)

DispatcherIInv == DispatcherTypeOK /\ DispatcherInv /\ AccountingExact

LEMMA InvariantInit == Init => DispatcherIInv
<1> SUFFICES ASSUME Init PROVE DispatcherIInv
  OBVIOUS
<1>1. QueueMatchesPhases
  BY DEF Init, QueueMatchesPhases
<1>2. ChoicesInHand
  BY DEF Init, ChoicesInHand, Holding
<1>3. CountersWithinLimits
  BY DispatcherAssumption DEF Init, CountersWithinLimits
<1>4. AccountingExact
  <2>1. \A p : Holders(p) = {}
    BY DEF Init, Holders, Holding
  <2> QED
    BY <2>1, FS_EmptySet DEF Init, AccountingExact
<1> QED
  BY <1>1, <1>2, <1>3, <1>4, TypeInit DEF DispatcherIInv, DispatcherInv

LEMMA InvariantHolds == Spec => []DispatcherIInv
<1>1. DispatcherIInv /\ [Next]_vars => DispatcherIInv'
  BY TypeStep, QueueStep, ChoicesStep, LimitsStep, AccountingStep DEF DispatcherIInv, DispatcherInv
<1> QED
  BY <1>1, InvariantInit, PTL DEF Spec

\* Every variable of the dispatcher (exec_route and the globals of app.py it
\* writes) keeps its type; the counters stay natural numbers.
THEOREM DispatcherTypes == Spec => []DispatcherTypeOK
BY InvariantHolds, PTL DEF DispatcherIInv

\* The queue of ACTIVE_LOCK lists exactly the requests that wait for it, once
\* each, and each request has the choices in hand that it will give back.
THEOREM DispatcherInvariant == Spec => []DispatcherInv
BY InvariantHolds, PTL DEF DispatcherIInv

\* ACTIVE_REQUESTS, ACTIVE_GPU_REQUESTS and ACTIVE_MODEL_REQUESTS are exact until
\* a request fails on an alternate worker (increment_active, decrement_active,
\* switch_active_allocation).
THEOREM CountersExact == Spec => []AccountingExact
BY InvariantHolds, PTL DEF DispatcherIInv

\* The limits of workers, lanes and models hold for what runs, until a failure
\* on an alternate or a switch that waited for the lock (lane_admission_allowed
\* and worker_admission_allowed).
THEOREM LimitsRespected == Spec => []CapacityRespected
<1>1. DispatcherIInv => CapacityRespected
  <2> SUFFICES ASSUME DispatcherIInv, ~AlternateFailed, ~lateSwitch, NEW p \in Places
               PROVE  Cardinality(Holders(p)) <= Limit[p]
    BY DEF CapacityRespected
  <2>1. active[p] = Cardinality(Holders(p)) /\ active[p] <= Limit[p]
    BY DEF DispatcherIInv, DispatcherInv, AccountingExact, CountersWithinLimits
  <2> QED
    BY <2>1
<1> QED
  BY <1>1, InvariantHolds, PTL

\* A poll and the increment that follows it are not separated: no counter
\* changes while the same request holds ACTIVE_LOCK (exec_route).
THEOREM LockProtectsCounters == Spec => LockFreezesCounters
<1>1. DispatcherIInv /\ [Next]_vars => [Frozen]_vars
  BY QueueStep, Zenon DEF DispatcherIInv, DispatcherInv
<1>2. DispatcherIInv /\ [Next]_vars =>
        [~LockFree /\ lockq' # <<>> /\ Head(lockq') = Head(lockq) => active' = active]_vars
  BY <1>1, Zenon DEF Frozen
<1> QED
  BY <1>2, InvariantHolds, PTL DEF Spec, LockFreezesCounters

\* A request that may not fall back runs at the owner of its role and nowhere
\* else, and is never audited as a violation (gather_candidates,
\* shortlist_candidates, classify_route).
THEOREM OwnersServeTheirs == Spec => []OwnersServe
<1>1. Init => OwnersInv
  BY DEF Init, OwnersInv, AtOwner, Holding
<1>2. OwnersInv => OwnersServe
  BY DEF OwnersInv, OwnersServe, AtOwner, Bound
<1>3. OwnersInv /\ DispatcherTypeOK /\ [Next]_vars => OwnersInv'
  BY OwnersStep
<1> QED
  BY <1>1, <1>2, <1>3, DispatcherTypes, PTL DEF Spec
=============================================================================
