--------------------------- MODULE StorageProofs ---------------------------
(***************************************************************************)
(* Proofs about StorageTransaction, for any number of transactions, runs,  *)
(* units and objects: the types, that units on the host are owned, that a  *)
(* success receipt is about its own copies, and that every transaction is  *)
(* attempted once, whatever its runs leave under way.                      *)
(***************************************************************************)
EXTENDS StorageTransaction, TLAPS

USE StorageAssumption DEF Units, Objects, recordVars, unitVars, lateVars, runVars

\* Where a step that counts is.
Positions ==
  /\ pc \in {"install", "enable", "start", "stop", "disable", "remove"} => at \in Units
  /\ pc = "copy" => at \in Objects

\* What is under way was asked for by an attempt, about a unit or an object.
LateTyped ==
  \A c \in late : /\ c.of \in consumed
                  /\ c.at \in IF c.does = "copy" THEN Objects ELSE Units

StorageTypes == StorageTypeOK /\ Positions

LEMMA StorageTypesInit == Init => StorageTypes
<1> SUFFICES ASSUME Init
             PROVE  StorageTypes
  OBVIOUS
<1>1. backed \in BOOLEAN /\ removed \in BOOLEAN /\ failed \in BOOLEAN
  BY Zenon DEF Init
<1>2. /\ backup \in [Transactions -> {"none", "partial", "bound"}]
      /\ receipt \in [Transactions -> Receipts]
      /\ copies \in [Objects -> Transactions \cup {None}]
      /\ checked \in [Runs -> Transactions \cup {None}]
  BY DEF Init, Receipts
<1>3. /\ consumed = {} /\ unitFile = {} /\ enabled = {} /\ mounted = {}
      /\ late = {} /\ slipped = {} /\ installed = {} /\ enabledBy = {}
      /\ holder = None /\ tx = None /\ pc = "idle" /\ at = 0
  BY DEF Init
<1> QED
  BY <1>1, <1>2, <1>3 DEF StorageTypes, StorageTypeOK, Positions, Steps

\* The run is over: its variables are as before any run.
LEMMA UnlockedTypes ==
  ASSUME Unlocked
  PROVE  /\ holder' = None /\ tx' = None /\ pc' = "idle" /\ at' = 0
         /\ backed' \in BOOLEAN /\ removed' \in BOOLEAN /\ failed' \in BOOLEAN
         /\ installed' \subseteq Units /\ enabledBy' \subseteq Units
         /\ Positions'
<1>1. backed' \in BOOLEAN /\ removed' \in BOOLEAN /\ failed' \in BOOLEAN
  BY Zenon DEF Unlocked
<1>2. /\ holder' = None /\ tx' = None /\ pc' = "idle" /\ at' = 0
      /\ installed' = {} /\ enabledBy' = {}
  BY DEF Unlocked
<1> QED
  BY <1>1, <1>2 DEF Positions

\* A transaction is at work whenever a step is.
InAttempt == /\ (holder = None <=> pc = "idle")
             /\ (tx = None <=> pc = "idle")

LEMMA StepsHaveTransaction ==
  ASSUME StorageTypes, InAttempt, pc # "idle"
  PROVE  tx \in Transactions /\ holder \in Runs /\ holder # None
BY DEF StorageTypes, StorageTypeOK, InAttempt

\* Every step of the attempt and of the rollback that is no unit command.
LEMMA AttemptTypeStep ==
  ASSUME StorageTypes, InAttempt, NEW o \in Outcomes, Step(o)
  PROVE  StorageTypes'
<1> USE DEF Steps, Receipts
<1>0. pc # "idle"
  BY DEF Step, OpenBackup, BindBackup, Consume, CopyObject, InstallUnit, Reload,
     VerifyPost, WriteReceipt, RemoveUnit, Unload, Confirm, Journal
<1>1. tx \in Transactions
  BY <1>0, StepsHaveTransaction
<1> USE DEF StorageTypes, StorageTypeOK, Positions, Goto
<1>2. CASE OpenBackup(o)
  BY <1>1, <1>2 DEF OpenBackup
<1>3. CASE BindBackup(o)
  <2>1. backed' \in BOOLEAN
    BY <1>3, Zenon DEF BindBackup
  <2> QED
    BY <1>1, <1>3, <2>1 DEF BindBackup
<1>4. CASE Consume(o)
  BY <1>1, <1>4 DEF Consume
<1>5. CASE CopyObject(o)
  BY <1>1, <1>5 DEF CopyObject
<1>6. CASE InstallUnit(o)
  BY <1>6 DEF InstallUnit
<1>7. CASE Reload(o)
  BY <1>7 DEF Reload
<1>8. CASE VerifyPost(o)
  BY <1>8 DEF VerifyPost
<1>9. CASE WriteReceipt(o)
  <2>1. CASE o = "done"
    BY <1>1, <1>9, <2>1, UnlockedTypes DEF WriteReceipt
  <2>2. CASE o # "done"
    BY <1>1, <1>9, <2>2 DEF WriteReceipt
  <2> QED
    BY <2>1, <2>2
<1>10. CASE RemoveUnit(o)
  <2>1. failed' \in BOOLEAN /\ removed' \in BOOLEAN
    BY <1>10, Zenon DEF RemoveUnit
  <2>2. slipped' \subseteq Units
    BY <1>10 DEF RemoveUnit, Slips
  <2> QED
    BY <1>10, <2>1, <2>2 DEF RemoveUnit, Downward
<1>11. CASE Unload(o)
  <2>1. failed' \in BOOLEAN
    BY <1>11, Zenon DEF Unload
  <2> QED
    BY <1>11, <2>1 DEF Unload
<1>12. CASE Confirm(o)
  <2>1. failed' \in BOOLEAN
    BY <1>12, Zenon DEF Confirm
  <2>2. slipped' \subseteq Units
    BY <1>12 DEF Confirm, Slips
  <2> QED
    BY <1>12, <2>1, <2>2 DEF Confirm
<1>13. CASE Journal(o)
  <2>1. receipt' \in [Transactions -> Receipts]
    BY <1>1, <1>13 DEF Journal, FailureOutcome
  <2> QED
    BY <1>13, <2>1, UnlockedTypes DEF Journal
<1> QED
  BY <1>2, <1>3, <1>4, <1>5, <1>6, <1>7, <1>8, <1>9, <1>10, <1>11, <1>12, <1>13 DEF Step

\* A command that goes on without its run is the one the run was at.
LEMMA LeavesTypes ==
  ASSUME StorageTypes, InAttempt, NEW c \in Commands, pc = c, Leaves(c)
  PROVE  late' \subseteq [of : Transactions, does : Commands, at : Int]
<1>1. tx \in Transactions
  BY StepsHaveTransaction DEF Commands
<1>2. [of |-> tx, does |-> c, at |-> at] \in [of : Transactions, does : Commands, at : Int]
  BY <1>1 DEF StorageTypes, StorageTypeOK
<1> QED
  BY <1>2 DEF Leaves, StorageTypes, StorageTypeOK

LEMMA CommandTypeStep ==
  ASSUME StorageTypes, InAttempt, NEW o \in CommandOutcomes, CommandStep(o)
  PROVE  StorageTypes'
<1> USE DEF Steps, Receipts, StorageTypes, StorageTypeOK, Positions, Goto
<1>0. ASSUME NEW c \in Commands, pc = c, Leaves(c) \/ late' = late
      PROVE  late' \subseteq [of : Transactions, does : Commands, at : Int]
  BY <1>0, LeavesTypes
<1>1. CASE EnableUnit(o)
  <2>1. late' \subseteq [of : Transactions, does : Commands, at : Int]
    BY <1>0, <1>1 DEF EnableUnit, Commands
  <2> QED
    BY <1>1, <2>1 DEF EnableUnit
<1>2. CASE StartUnit(o)
  <2>1. late' \subseteq [of : Transactions, does : Commands, at : Int]
    BY <1>0, <1>2 DEF StartUnit, Commands
  <2> QED
    BY <1>2, <2>1 DEF StartUnit
<1>3. CASE StopUnit(o)
  <2>1. late' \subseteq [of : Transactions, does : Commands, at : Int]
    BY <1>0, <1>3 DEF StopUnit, Commands
  <2>2. failed' \in BOOLEAN
    BY <1>3, Zenon DEF StopUnit
  <2>3. slipped' \subseteq Units /\ mounted' \subseteq Units
    BY <1>3 DEF StopUnit, Slips
  <2> QED
    BY <1>3, <2>1, <2>2, <2>3 DEF StopUnit, Downward
<1>4. CASE DisableUnit(o)
  <2>1. late' \subseteq [of : Transactions, does : Commands, at : Int]
    BY <1>0, <1>4 DEF DisableUnit, Commands
  <2>2. failed' \in BOOLEAN
    BY <1>4, Zenon DEF DisableUnit
  <2>3. slipped' \subseteq Units /\ enabled' \subseteq Units
    BY <1>4 DEF DisableUnit, Slips
  <2> QED
    BY <1>4, <2>1, <2>2, <2>3 DEF DisableUnit, Downward
<1> QED
  BY <1>1, <1>2, <1>3, <1>4 DEF CommandStep

LEMMA AtHandIsCommand ==
  ASSUME NEW c \in AtHand
  PROVE  c \in Commands /\ pc = c
BY DEF AtHand

LEMMA CutTypeStep ==
  ASSUME StorageTypes, InAttempt, Kill \/ PowerLoss \/ AbandonRollback
  PROVE  StorageTypes'
<1> USE DEF StorageTypes, StorageTypeOK
<1>0. ASSUME late' = late \/ \E c \in AtHand : Leaves(c)
      PROVE  late' \subseteq [of : Transactions, does : Commands, at : Int]
  BY <1>0, AtHandIsCommand, LeavesTypes
<1>1. CASE Kill
  <2>1. late' \subseteq [of : Transactions, does : Commands, at : Int]
    BY <1>0, <1>1 DEF Kill
  <2> QED
    BY <1>1, <2>1, UnlockedTypes DEF Kill, Cut, Steps
<1>2. CASE PowerLoss
  <2>1. slipped' \subseteq Units /\ mounted' \subseteq Units
    BY <1>2 DEF PowerLoss, Slips, Cut
  <2> QED
    BY <1>2, <2>1, UnlockedTypes DEF PowerLoss, Cut, Steps
<1>3. CASE AbandonRollback
  <2>1. late' \subseteq [of : Transactions, does : Commands, at : Int]
    BY <1>0, <1>3 DEF AbandonRollback
  <2>2. failed' \in BOOLEAN
    BY <1>3, Zenon DEF AbandonRollback
  <2> QED
    BY <1>3, <2>1, <2>2 DEF AbandonRollback, Positions, Steps
<1> QED
  BY <1>1, <1>2, <1>3

LEMMA LateTypeStep ==
  ASSUME StorageTypes, LateTyped, NEW c \in late, Late(c)
  PROVE  StorageTypes'
<1> USE DEF StorageTypes, StorageTypeOK, Positions, LateTyped
<1>1. CASE LateUnit(c)
  <2>1. enabled' \subseteq Units /\ mounted' \subseteq Units
    BY <1>1 DEF LateUnit
  <2>2. slipped' \subseteq Units
    BY <1>1, <2>1 DEF LateUnit, Slips
  <2> QED
    BY <1>1, <2>1, <2>2 DEF LateUnit
<1>2. CASE LateCopy(c)
  <2>1. copies' \in [Objects -> Transactions \cup {None}]
    BY <1>2 DEF LateCopy
  <2>2. [c EXCEPT !.at = @ + 1] \in [of : Transactions, does : Commands, at : Int]
    OBVIOUS
  <2>3. late' \subseteq [of : Transactions, does : Commands, at : Int]
    BY <1>2, <2>2 DEF LateCopy
  <2> QED
    BY <1>2, <2>1, <2>3 DEF LateCopy
<1>3. CASE LateFails(c)
  BY <1>3 DEF LateFails
<1> QED
  BY <1>1, <1>2, <1>3 DEF Late

LEMMA StorageTypesStep == StorageTypes /\ InAttempt /\ LateTyped /\ [Next]_vars => StorageTypes'
<1> SUFFICES ASSUME StorageTypes, InAttempt, LateTyped, [Next]_vars
             PROVE  StorageTypes'
  OBVIOUS
<1>1. ASSUME NEW r \in Runs, NEW t \in Transactions, Check(r, t)
      PROVE  StorageTypes'
  BY <1>1 DEF Check, StorageTypes, StorageTypeOK, Positions
<1>2. ASSUME NEW r \in Runs, Lock(r)
      PROVE  StorageTypes'
  BY <1>2 DEF Lock, StorageTypes, StorageTypeOK, Positions, Steps
<1>3. CASE InitialState
  <2>1. CASE Unlocked
    BY <1>3, <2>1, UnlockedTypes DEF InitialState, StorageTypes, StorageTypeOK, Steps
  <2>2. CASE pc' = "backup" /\ UNCHANGED <<holder, tx, at, runVars>>
    BY <1>3, <2>2 DEF InitialState, StorageTypes, StorageTypeOK, Positions, Steps
  <2> QED
    BY <1>3, <2>1, <2>2 DEF InitialState
<1>4. CASE HandleFailure
  BY <1>4 DEF HandleFailure, StorageTypes, StorageTypeOK, Positions, Steps
<1>5. CASE Kill \/ PowerLoss \/ AbandonRollback
  BY <1>5, CutTypeStep
<1>6. CASE \E c \in late : Late(c)
  BY <1>6, LateTypeStep
<1>7. CASE UNCHANGED vars
  BY <1>7 DEF vars, StorageTypes, StorageTypeOK, Positions
<1> QED
  BY <1>1, <1>2, <1>3, <1>4, <1>5, <1>6, <1>7, AttemptTypeStep, CommandTypeStep DEF Next

-----------------------------------------------------------------------------
\* The steps before the consumption, and those that need it.
Preparing == {"initial", "backup", "bind", "consume"}
Changing  == {"copy", "install", "reload", "enable", "start", "verify", "receipt"}
Undoing   == {"stop", "disable", "remove", "unload", "confirm"}

\* An authorization was consumed for it over a bound backup, and no receipt
\* says its units are gone.
Owns(t) == t \in consumed /\ backup[t] = "bound" /\ receipt[t] \notin {"rolled_back", "premutation"}

\* The records of the attempt under way.
RecordsInStep ==
  /\ pc \in Preparing => tx \notin consumed
  /\ pc \in Changing \cup Undoing => tx \in consumed
  /\ pc # "idle" /\ tx \in consumed => Owns(tx)
  /\ pc = "consume" => backup[tx] = "bound"
  /\ pc # "idle" => receipt[tx] \in {"none", "active"}
  /\ pc # "idle" /\ tx \notin consumed => receipt[tx] = "none"

\* Enabled and mounted as far as a rollback can know.
Up == (enabled \cup mounted) \ slipped

\* Another transaction owns whatever there is.
Others == \E t \in Transactions : t # tx /\ Owns(t)

\* A unit that is up has its file, so a rollback without a failure that is
\* past the files leaves no unit.
UnitsOfAttempt ==
  /\ Up \subseteq unitFile
  /\ tx \notin consumed => unitFile = {}
  /\ pc = "install" => \A u \in Units : u < at => u \in unitFile
  /\ pc \in {"reload", "enable", "start", "verify", "receipt"} => unitFile = Units
  /\ pc = "remove" /\ ~failed => \A u \in Units : u > at => u \notin unitFile
  /\ pc \in {"unload", "confirm", "journal"} /\ ~failed => unitFile = {}

UnitsInStep == Others \/ UnitsOfAttempt

StorageInv == InAttempt /\ LateTyped /\ RecordsInStep /\ UnitsInStep

LEMMA StorageInvInit == Init => StorageInv
<1> SUFFICES ASSUME Init
             PROVE  StorageInv
  OBVIOUS
<1>1. /\ unitFile = {} /\ enabled = {} /\ mounted = {} /\ late = {} /\ consumed = {}
      /\ holder = None /\ tx = None /\ pc = "idle"
  BY DEF Init
<1> QED
  BY <1>1 DEF StorageInv, InAttempt, LateTyped, RecordsInStep, UnitsInStep, UnitsOfAttempt, Up,
     Preparing, Changing, Undoing

LEMMA UnlockedRests ==
  ASSUME Unlocked
  PROVE  pc' = "idle" /\ tx' = None /\ InAttempt' /\ RecordsInStep'
<1>1. pc' = "idle" /\ tx' = None /\ holder' = None
  BY DEF Unlocked
<1> QED
  BY <1>1 DEF InAttempt, RecordsInStep, Preparing, Changing, Undoing

\* The attempt's step keeps who runs, or ends the run.
LEMMA StepInAttempt ==
  ASSUME InAttempt, NEW o \in CommandOutcomes, Step(o) \/ CommandStep(o)
  PROVE  \/ Unlocked
         \/ pc # "idle" /\ pc' # "idle" /\ UNCHANGED <<holder, tx>>
<1> USE DEF Goto, Downward
<1>1. CASE WriteReceipt(o)
  <2>1. CASE o = "done"
    BY <1>1, <2>1 DEF WriteReceipt
  <2>2. CASE o # "done"
    BY <1>1, <2>2 DEF WriteReceipt
  <2> QED
    BY <2>1, <2>2
<1>2. CASE Journal(o)
  BY <1>2 DEF Journal
<1>3. CASE Step(o) /\ ~WriteReceipt(o) /\ ~Journal(o)
  BY <1>3 DEF Step, OpenBackup, BindBackup, Consume, CopyObject, InstallUnit, Reload,
     VerifyPost, RemoveUnit, Unload, Confirm
<1>4. CASE CommandStep(o)
  BY <1>4 DEF CommandStep, EnableUnit, StartUnit, StopUnit, DisableUnit
<1> QED
  BY <1>1, <1>2, <1>3, <1>4

LEMMA InAttemptStep == StorageTypes /\ InAttempt /\ [Next]_vars => InAttempt'
<1> SUFFICES ASSUME StorageTypes, InAttempt, [Next]_vars
             PROVE  InAttempt'
  OBVIOUS
<1>1. ASSUME Unlocked
      PROVE  InAttempt'
  BY <1>1, UnlockedRests
<1>2. ASSUME NEW r \in Runs, Lock(r)
      PROVE  InAttempt'
  BY <1>2 DEF Lock, InAttempt, StorageTypes, StorageTypeOK
<1>3. ASSUME NEW o \in CommandOutcomes, Step(o) \/ CommandStep(o)
      PROVE  InAttempt'
  BY <1>1, <1>3, StepInAttempt DEF InAttempt
<1>4. CASE InitialState
  BY <1>1, <1>4 DEF InitialState, InAttempt
<1>5. CASE HandleFailure \/ AbandonRollback
  BY <1>5 DEF HandleFailure, AbandonRollback, InAttempt
<1>6. CASE Kill \/ PowerLoss
  BY <1>1, <1>6 DEF Kill, PowerLoss, Cut
<1>7. CASE UNCHANGED vars \/ \E r \in Runs, t \in Transactions : Check(r, t)
  BY <1>7 DEF vars, Check, InAttempt
<1>8. CASE \E c \in late : Late(c)
  BY <1>8 DEF Late, LateUnit, LateCopy, LateFails, InAttempt
<1> QED
  BY <1>2, <1>3, <1>4, <1>5, <1>6, <1>7, <1>8 DEF Next, CommandOutcomes

\* What is under way belongs to an attempt that has begun.
LEMMA LateTypedStep == StorageTypes /\ StorageInv /\ [Next]_vars => LateTyped'
<1> SUFFICES ASSUME StorageTypes, StorageInv, [Next]_vars
             PROVE  LateTyped'
  OBVIOUS
<1> USE DEF StorageInv
<1>1. ASSUME late' \subseteq late, consumed \subseteq consumed'
      PROVE  LateTyped'
  BY <1>1 DEF LateTyped
<1>2. ASSUME NEW c \in Commands, pc = c, Leaves(c) \/ late' = late, consumed' = consumed
      PROVE  LateTyped'
  <2>1. tx \in consumed
    BY <1>2 DEF RecordsInStep, Changing, Undoing, Commands
  <2>2. at \in IF c = "copy" THEN Objects ELSE Units
    BY <1>2 DEF StorageTypes, Positions, Commands
  <2> QED
    BY <1>2, <2>1, <2>2 DEF LateTyped, Leaves
<1>3. ASSUME NEW o \in Outcomes, Step(o)
      PROVE  LateTyped'
  <2>1. late' = late /\ consumed \subseteq consumed'
    BY <1>3 DEF Step, OpenBackup, BindBackup, Consume, CopyObject, InstallUnit, Reload,
       VerifyPost, WriteReceipt, RemoveUnit, Unload, Confirm, Journal
  <2> QED
    BY <1>1, <2>1
<1>4. ASSUME NEW o \in CommandOutcomes, CommandStep(o)
      PROVE  LateTyped'
  <2>1. CASE EnableUnit(o)
    BY <1>2, <2>1 DEF EnableUnit, Commands
  <2>2. CASE StartUnit(o)
    BY <1>2, <2>2 DEF StartUnit, Commands
  <2>3. CASE StopUnit(o)
    BY <1>2, <2>3 DEF StopUnit, Commands
  <2>4. CASE DisableUnit(o)
    BY <1>2, <2>4 DEF DisableUnit, Commands
  <2> QED
    BY <1>4, <2>1, <2>2, <2>3, <2>4 DEF CommandStep
<1>5. CASE Kill \/ AbandonRollback
  <2>1. consumed' = consumed /\ (late' = late \/ \E c \in AtHand : Leaves(c))
    BY <1>5 DEF Kill, Cut, AbandonRollback
  <2> QED
    BY <1>1, <1>2, <2>1, AtHandIsCommand
<1>6. CASE PowerLoss
  BY <1>6 DEF PowerLoss, LateTyped
<1>7. CASE \E c \in late : Late(c)
  <2>1. PICK c \in late : Late(c)
    BY <1>7
  <2>2. CASE LateCopy(c)
    <3>1. c.at \in Objects /\ c.of \in consumed /\ consumed' = consumed /\ c.does = "copy"
      BY <2>2 DEF LateCopy, LateTyped
    <3>2. c \in [of : Transactions, does : Commands, at : Int]
      BY DEF StorageTypes, StorageTypeOK
    <3>3. late' \subseteq late \cup IF c.at < NObjects THEN {[c EXCEPT !.at = @ + 1]} ELSE {}
      BY <2>2 DEF LateCopy
    <3>4. [c EXCEPT !.at = @ + 1].of = c.of /\ [c EXCEPT !.at = @ + 1].does = "copy"
          /\ [c EXCEPT !.at = @ + 1].at = c.at + 1
      BY <3>1, <3>2
    <3>5. c.at < NObjects => c.at + 1 \in Objects
      BY <3>1
    <3> QED
      BY <3>1, <3>3, <3>4, <3>5 DEF LateTyped
  <2>3. CASE LateUnit(c) \/ LateFails(c)
    BY <1>1, <2>3 DEF LateUnit, LateFails
  <2> QED
    BY <2>1, <2>2, <2>3 DEF Late
<1>8. CASE InitialState \/ HandleFailure \/ UNCHANGED vars
  BY <1>1, <1>8 DEF InitialState, HandleFailure, vars
<1>9. ASSUME NEW r \in Runs, Lock(r) \/ \E t \in Transactions : Check(r, t)
      PROVE  LateTyped'
  BY <1>1, <1>9 DEF Lock, Check
<1> QED
  BY <1>3, <1>4, <1>5, <1>6, <1>7, <1>8, <1>9 DEF Next

LEMMA RecordsStep ==
  ASSUME StorageTypes, StorageInv, [Next]_vars
  PROVE  RecordsInStep'
<1> USE DEF StorageInv, Preparing, Changing, Undoing, Goto, Downward, RecordsInStep, Owns
<1>0. pc # "idle" => tx \in Transactions
  BY StepsHaveTransaction
<1>1. ASSUME Unlocked
      PROVE  RecordsInStep'
  BY <1>1, UnlockedRests
<1>2. ASSUME NEW r \in Runs, Lock(r)
      PROVE  RecordsInStep'
  BY <1>2 DEF Lock, Fresh, InAttempt
<1>3. ASSUME NEW o \in Outcomes, Step(o)
      PROVE  RecordsInStep'
  <2> USE <1>0 DEF StorageTypes, StorageTypeOK
  <2>1. CASE OpenBackup(o)
    BY <2>1 DEF OpenBackup
  <2>2. CASE BindBackup(o)
    BY <2>2 DEF BindBackup
  <2>3. CASE Consume(o)
    BY <2>3 DEF Consume
  <2>4. CASE CopyObject(o)
    BY <2>4 DEF CopyObject
  <2>5. CASE InstallUnit(o)
    BY <2>5 DEF InstallUnit
  <2>6. CASE Reload(o)
    BY <2>6 DEF Reload
  <2>7. CASE VerifyPost(o)
    BY <2>7 DEF VerifyPost
  <2>8. CASE WriteReceipt(o)
    <3>1. CASE o = "done"
      BY <1>1, <2>8, <3>1 DEF WriteReceipt
    <3>2. CASE o # "done"
      BY <2>8, <3>2 DEF WriteReceipt
    <3> QED
      BY <3>1, <3>2
  <2>9. CASE RemoveUnit(o)
    BY <2>9 DEF RemoveUnit
  <2>10. CASE Unload(o)
    BY <2>10 DEF Unload
  <2>11. CASE Confirm(o)
    BY <2>11 DEF Confirm
  <2>12. CASE Journal(o)
    BY <1>1, <2>12 DEF Journal
  <2> QED
    BY <1>3, <2>1, <2>2, <2>3, <2>4, <2>5, <2>6, <2>7, <2>8, <2>9, <2>10, <2>11, <2>12 DEF Step
<1>4. ASSUME NEW o \in CommandOutcomes, CommandStep(o)
      PROVE  RecordsInStep'
  BY <1>0, <1>4 DEF CommandStep, EnableUnit, StartUnit, StopUnit, DisableUnit
<1>5. CASE InitialState
  BY <1>0, <1>1, <1>5 DEF InitialState
<1>6. CASE HandleFailure \/ AbandonRollback
  BY <1>0, <1>6 DEF HandleFailure, AbandonRollback
<1>7. CASE Kill \/ PowerLoss
  BY <1>1, <1>7 DEF Kill, PowerLoss, Cut
<1>8. CASE UNCHANGED vars \/ \E r \in Runs, t \in Transactions : Check(r, t)
  BY <1>8 DEF vars, Check
<1>9. CASE \E c \in late : Late(c)
  BY <1>9 DEF Late, LateUnit, LateCopy, LateFails
<1> QED
  BY <1>2, <1>3, <1>4, <1>5, <1>6, <1>7, <1>8, <1>9 DEF Next

\* What others own stays theirs: a step writes about its own transaction
\* only, and one that consumed its authorization never gets the lock again.
LEMMA OthersStay ==
  ASSUME StorageTypes, StorageInv, Others, [Next]_vars
  PROVE  Others'
<1> USE DEF StorageInv
<1>0. PICK t \in Transactions : t # tx /\ Owns(t)
  BY DEF Others
<1>1. ASSUME tx' \in {tx, None}, UNCHANGED recordVars
      PROVE  Others'
  BY <1>0, <1>1 DEF Others, Owns
<1>2. ASSUME NEW o \in Outcomes, Step(o)
      PROVE  Others'
  <2>1. Owns(t)'
    BY <1>0, <1>2 DEF Owns, Step, OpenBackup, BindBackup, Consume, CopyObject, InstallUnit, Reload,
       VerifyPost, WriteReceipt, RemoveUnit, Unload, Confirm, Journal, StorageTypes, StorageTypeOK
  <2>2. tx' \in {tx, None}
    BY <1>2, StepInAttempt DEF CommandOutcomes, Unlocked
  <2> QED
    BY <1>0, <2>1, <2>2 DEF Others
<1>3. ASSUME NEW o \in CommandOutcomes, CommandStep(o)
      PROVE  Others'
  BY <1>1, <1>3 DEF CommandStep, EnableUnit, StartUnit, StopUnit, DisableUnit
<1>4. ASSUME NEW r \in Runs, Lock(r)
      PROVE  Others'
  <2>1. UNCHANGED recordVars /\ (tx' = tx \/ (tx' = checked[r] /\ Fresh(checked[r])))
    BY <1>4 DEF Lock
  <2> QED
    BY <1>0, <1>1, <2>1 DEF Others, Owns, Fresh
<1>5. CASE InitialState \/ HandleFailure \/ AbandonRollback \/ Kill \/ PowerLoss \/ UNCHANGED vars
  BY <1>1, <1>5 DEF InitialState, HandleFailure, AbandonRollback, Kill, PowerLoss, Cut, Unlocked,
    vars
<1>6. CASE \E c \in late : Late(c)
  BY <1>1, <1>6 DEF Late, LateUnit, LateCopy, LateFails
<1>7. CASE \E r \in Runs, tt \in Transactions : Check(r, tt)
  BY <1>1, <1>7 DEF Check
<1> QED
  BY <1>2, <1>3, <1>4, <1>5, <1>6, <1>7 DEF Next

\* A step that only takes units down adds none to Up; one that notices a
\* unit has slipped takes it out.
LEMMA UpShrinks ==
  ASSUME NEW us, Slips(us), enabled' \subseteq enabled, mounted' \subseteq mounted
  PROVE  Up' \subseteq Up /\ \A u \in us : u \notin Up'
BY DEF Slips, Up

\* A run that ends over a consumed authorization leaves it the owner, or no
\* unit; one that ends before it has touched none.
LEMMA UnlockedUnits ==
  ASSUME StorageTypes, StorageInv, UnitsOfAttempt, Unlocked, consumed' = consumed,
         unitFile' = unitFile, Up' \subseteq Up \cup unitFile,
         NEW t, tx \in consumed => t = tx /\ (unitFile = {} \/ Owns(t)')
  PROVE  UnitsInStep'
<1> USE DEF StorageInv
<1>0. tx' = None /\ pc' = "idle"
  BY UnlockedRests
<1>1. CASE unitFile = {}
  BY <1>0, <1>1 DEF UnitsInStep, UnitsOfAttempt
<1>2. CASE unitFile # {}
  <2>1. tx \in consumed /\ t = tx /\ Owns(t)'
    BY <1>2 DEF UnitsOfAttempt
  <2>2. t \in Transactions /\ t # None
    BY <2>1 DEF StorageTypes, StorageTypeOK
  <2> QED
    BY <1>0, <2>1, <2>2 DEF UnitsInStep, Others
<1> QED
  BY <1>1, <1>2

LEMMA InstallUnits ==
  ASSUME StorageTypes, UnitsOfAttempt, NEW o \in Outcomes, InstallUnit(o), tx \in consumed
  PROVE  UnitsOfAttempt'
<1> USE DEF UnitsOfAttempt, StorageTypes, StorageTypeOK, Positions, Goto
<1>1. /\ pc = "install" /\ at \in Units /\ unitFile \subseteq unitFile'
      /\ Up' = Up /\ tx' \in consumed'
  BY DEF InstallUnit, Up
<1>2. unitFile' \subseteq Units
  BY <1>1 DEF InstallUnit
<1>3. \/ pc' = "failed"
      \/ pc' = "install" /\ at' = at + 1 /\ at \in unitFile'
      \/ pc' = "reload" /\ at = NUnits /\ at \in unitFile'
  BY <1>1 DEF InstallUnit
<1>4. \A u \in Units : u < at => u \in unitFile'
  BY <1>1
<1>5. CASE pc' = "reload" /\ at = NUnits /\ at \in unitFile'
  <2>1. \A u \in Units : u < at \/ u = at
    BY <1>1, <1>5
  <2>2. unitFile' = Units
    BY <1>2, <1>4, <1>5, <2>1
  <2> QED
    BY <1>1, <1>5, <2>2
<1>6. CASE pc' = "install" /\ at' = at + 1 /\ at \in unitFile'
  BY <1>1, <1>4, <1>6
<1>7. CASE pc' = "failed"
  BY <1>1, <1>7
<1> QED
  BY <1>3, <1>5, <1>6, <1>7

LEMMA RemoveUnits ==
  ASSUME StorageTypes, UnitsOfAttempt, NEW o \in Outcomes, RemoveUnit(o), tx \in consumed
  PROVE  UnitsOfAttempt'
<1> USE DEF UnitsOfAttempt, StorageTypes, StorageTypeOK, Positions
<1>1. PICK up \in Reported(mounted \cap {at}), on \in Reported(enabled \cap {at}) :
        LET free == at \notin up /\ at \notin on
            goes == free /\ at \in unitFile /\ o # "before" IN
        /\ unitFile' = IF goes THEN unitFile \ {at} ELSE unitFile
        /\ failed' = (failed \/ ~free \/ (at \in unitFile /\ o # "done"))
        /\ UNCHANGED <<enabled, mounted>>
        /\ Slips(((mounted \cup enabled) \cap {at}) \ (up \cup on))
  BY DEF RemoveUnit
<1>2. pc = "remove" /\ at \in Units /\ tx' \in consumed'
  BY DEF RemoveUnit
<1>3. ~failed' => ~failed /\ (at \notin unitFile \/ o = "done") /\ at \notin up /\ at \notin on
  BY <1>1, Zenon
<1>4. Up' \subseteq Up
  BY <1>1, UpShrinks
<1>5. (at \notin up /\ at \notin on) => at \notin Up'
  <2> SUFFICES ASSUME at \notin up, at \notin on
               PROVE  at \notin Up'
    OBVIOUS
  <2>1. at \notin (mounted \cup enabled) \/ at \in ((mounted \cup enabled) \cap {at}) \ (up \cup on)
    OBVIOUS
  <2> QED
    BY <1>1, <1>4, <2>1, UpShrinks DEF Up
<1>6. \/ unitFile' = unitFile
      \/ unitFile' = unitFile \ {at} /\ at \notin up /\ at \notin on
  BY <1>1, Zenon
<1>7. Up' \subseteq unitFile' /\ unitFile' \subseteq unitFile
  BY <1>4, <1>5, <1>6
<1>8. ~failed' => at \notin unitFile'
  BY <1>1, <1>3
<1>9. ~failed' => \A u \in Units : u > at => u \notin unitFile'
  BY <1>2, <1>3, <1>7
<1>10. \/ at > 1 /\ pc' = "remove" /\ at' = at - 1
       \/ at = 1 /\ pc' = "unload"
  BY <1>2 DEF RemoveUnit, Downward
<1>11. CASE at > 1 /\ pc' = "remove" /\ at' = at - 1
  BY <1>2, <1>7, <1>8, <1>9, <1>11
<1>12. CASE at = 1 /\ pc' = "unload"
  <2>1. ~failed' => unitFile' = {}
    BY <1>2, <1>7, <1>8, <1>9, <1>12
  <2> QED
    BY <1>2, <1>7, <1>12, <2>1
<1> QED
  BY <1>10, <1>11, <1>12

LEMMA UnitsStep ==
  ASSUME StorageTypes, StorageInv, [Next]_vars
  PROVE  UnitsInStep'
<1> SUFFICES ASSUME UnitsOfAttempt
             PROVE  UnitsInStep'
  BY OthersStay DEF StorageInv, UnitsInStep
<1> USE DEF StorageInv, Goto, Downward
<1>0. pc # "idle" => tx \in Transactions
  BY StepsHaveTransaction
<1>1. UnitsOfAttempt' => UnitsInStep'
  BY DEF UnitsInStep
<1>2. ASSUME NEW r \in Runs, Lock(r)
      PROVE  UnitsInStep'
  <2>1. UNCHANGED <<unitVars, lateVars, consumed, failed>>
    BY <1>2 DEF Lock
  <2>2. \/ UNCHANGED <<pc, tx, at>>
        \/ pc' = "initial" /\ holder = None
    BY <1>2 DEF Lock
  <2>3. CASE UNCHANGED <<pc, tx, at>>
    BY <1>1, <2>1, <2>3 DEF UnitsOfAttempt, Up
  <2>4. CASE pc' = "initial" /\ holder = None
    <3>1. tx \notin consumed
      BY <2>4 DEF InAttempt, StorageTypes, StorageTypeOK
    <3> QED
      BY <1>1, <2>1, <2>4, <3>1 DEF UnitsOfAttempt, Up
  <2> QED
    BY <2>2, <2>3, <2>4
<1>3. ASSUME NEW o \in Outcomes, Step(o)
      PROVE  UnitsInStep'
  <2> USE <1>0, <1>1 DEF StorageTypes, StorageTypeOK, Positions, RecordsInStep, Preparing, Changing,
                         Undoing
  <2>1. CASE OpenBackup(o)
    BY <2>1 DEF OpenBackup, UnitsOfAttempt, Up
  <2>2. CASE BindBackup(o)
    BY <2>2 DEF BindBackup, UnitsOfAttempt, Up
  <2>3. CASE Consume(o)
    BY <2>3 DEF Consume, UnitsOfAttempt, Up
  <2>4. CASE CopyObject(o)
    BY <2>4 DEF CopyObject, UnitsOfAttempt, Up
  <2>5. CASE InstallUnit(o)
    <3>1. tx \in consumed
      BY <2>5 DEF InstallUnit
    <3> QED
      BY <2>5, <3>1, InstallUnits
  <2>6. CASE Reload(o)
    BY <2>6 DEF Reload, UnitsOfAttempt, Up
  <2>7. CASE VerifyPost(o)
    BY <2>7 DEF VerifyPost, UnitsOfAttempt, Up
  <2>8. CASE WriteReceipt(o)
    <3>1. CASE o = "done"
      <4>1. /\ Unlocked /\ consumed' = consumed /\ backup' = backup /\ unitFile' = unitFile
            /\ Up' = Up
        BY <2>8, <3>1 DEF WriteReceipt, Up
      <4>2. PICK t \in Transactions : t = tx
        BY <2>8 DEF WriteReceipt
      <4>3. Owns(t) /\ receipt'[t] \in {receipt[t], "active"}
        BY <2>8, <4>2 DEF WriteReceipt
      <4>4. Owns(t)'
        BY <2>8, <4>1, <4>3 DEF WriteReceipt, Owns
      <4> QED
        BY <4>1, <4>2, <4>4, UnlockedUnits
    <3>2. CASE o # "done"
      BY <2>8, <3>2 DEF WriteReceipt, UnitsOfAttempt, Up
    <3> QED
      BY <3>1, <3>2
  <2>9. CASE RemoveUnit(o)
    <3>1. tx \in consumed
      BY <2>9 DEF RemoveUnit
    <3> QED
      BY <2>9, <3>1, RemoveUnits
  <2>10. CASE Unload(o)
    <3>1. ~failed' => ~failed
      BY <2>10, Zenon DEF Unload
    <3> QED
      BY <2>10, <3>1 DEF Unload, UnitsOfAttempt, Up
  <2>11. CASE Confirm(o)
    <3>1. ~failed' => ~failed
      BY <2>11, Zenon DEF Confirm
    <3>2. Up' \subseteq Up
      BY <2>11, UpShrinks DEF Confirm
    <3> QED
      BY <2>11, <3>1, <3>2 DEF Confirm, UnitsOfAttempt
  <2>12. CASE Journal(o)
    <3>1. /\ Unlocked /\ consumed' = consumed /\ backup' = backup /\ unitFile' = unitFile
          /\ Up' = Up
      BY <2>12 DEF Journal, Up
    <3>2. PICK t \in Transactions : t = tx
      BY <2>12 DEF Journal
    <3>3. tx \in consumed => unitFile = {} \/ Owns(t)'
      <4> SUFFICES ASSUME tx \in consumed, unitFile # {}
                   PROVE  Owns(t)'
        OBVIOUS
      <4>1. Owns(t) /\ failed
        BY <2>12, <3>2 DEF Journal, UnitsOfAttempt
      <4>2. FailureOutcome = "incomplete"
        BY <4>1 DEF FailureOutcome
      <4>3. receipt'[t] \in {receipt[t], "incomplete"}
        BY <2>12, <3>2, <4>2 DEF Journal
      <4> QED
        BY <3>1, <4>1, <4>3 DEF Owns
    <3> QED
      BY <3>1, <3>2, <3>3, UnlockedUnits
  <2> QED
    BY <1>3, <2>1, <2>2, <2>3, <2>4, <2>5, <2>6, <2>7, <2>8, <2>9, <2>10, <2>11, <2>12 DEF Step
<1>4. ASSUME NEW o \in CommandOutcomes, CommandStep(o)
      PROVE  UnitsInStep'
  <2> USE <1>0, <1>1 DEF StorageTypes, StorageTypeOK, Positions, RecordsInStep, Preparing, Changing,
                         Undoing
  <2>1. CASE EnableUnit(o)
    BY <2>1 DEF EnableUnit, UnitsOfAttempt, Up
  <2>2. CASE StartUnit(o)
    BY <2>2 DEF StartUnit, UnitsOfAttempt, Up
  <2>3. CASE StopUnit(o)
    <3>1. Up' \subseteq Up
      BY <2>3, UpShrinks DEF StopUnit
    <3> QED
      BY <2>3, <3>1 DEF StopUnit, UnitsOfAttempt
  <2>4. CASE DisableUnit(o)
    <3>1. Up' \subseteq Up
      BY <2>4, UpShrinks DEF DisableUnit
    <3> QED
      BY <2>4, <3>1 DEF DisableUnit, UnitsOfAttempt
  <2> QED
    BY <1>4, <2>1, <2>2, <2>3, <2>4 DEF CommandStep
<1>5. ASSUME Unlocked, UNCHANGED <<recordVars, unitFile>>, Up' \subseteq Up \cup unitFile
      PROVE  UnitsInStep'
  <2>1. tx \in consumed => tx \in Transactions /\ Owns(tx)
    BY DEF StorageTypes, StorageTypeOK, InAttempt, RecordsInStep
  <2>2. PICK t : t = tx
    OBVIOUS
  <2>3. tx \in consumed => Owns(t)'
    BY <1>5, <2>1, <2>2 DEF Owns
  <2> QED
    BY <1>5, <2>2, <2>3, UnlockedUnits
<1>6. CASE InitialState
  BY <1>1, <1>5, <1>6 DEF InitialState, UnitsOfAttempt, Up
<1>7. CASE HandleFailure
  BY <1>1, <1>7 DEF HandleFailure, UnitsOfAttempt, Up, StorageTypes, StorageTypeOK
<1>8. CASE AbandonRollback
  BY <1>1, <1>8 DEF AbandonRollback, UnitsOfAttempt, Up
<1>9. CASE Kill
  BY <1>5, <1>9 DEF Kill, Cut, Up
<1>10. CASE PowerLoss
  <2>1. Up' \subseteq Up \cup unitFile
    BY <1>10 DEF PowerLoss, Cut, Slips, Up
  <2> QED
    BY <1>5, <1>10, <2>1 DEF PowerLoss, Cut
<1>11. CASE \E c \in late : Late(c)
  <2>1. PICK c \in late : Late(c)
    BY <1>11
  <2>2. Up' \subseteq Up
    BY <2>1 DEF Late, LateUnit, LateCopy, LateFails, Slips, Up
  <2>3. UNCHANGED <<recordVars, unitFile, holder, tx, pc, at, runVars>>
    BY <2>1 DEF Late, LateUnit, LateCopy, LateFails
  <2> QED
    BY <1>1, <2>2, <2>3 DEF UnitsOfAttempt
<1>12. CASE UNCHANGED vars \/ \E r \in Runs, t \in Transactions : Check(r, t)
  BY <1>1, <1>12 DEF vars, Check, UnitsOfAttempt, Up
<1> QED
  BY <1>2, <1>3, <1>4, <1>6, <1>7, <1>8, <1>9, <1>10, <1>11, <1>12 DEF Next

\* The run's transaction owns what it has touched, and at rest another does.
LEMMA OwnersSuffice ==
  ASSUME StorageTypes, StorageInv
  PROVE  LeftoversAreOwned
<1>1. CASE Others
  BY <1>1 DEF Others, Owns, LeftoversAreOwned
<1>2. CASE tx \in consumed
  BY <1>2 DEF StorageInv, InAttempt, RecordsInStep, Owns, LeftoversAreOwned, StorageTypes,
     StorageTypeOK
<1>3. CASE UnitsOfAttempt /\ tx \notin consumed
  BY <1>3 DEF UnitsOfAttempt, Up, LeftoversAreOwned
<1> QED
  BY <1>1, <1>2, <1>3 DEF StorageInv, UnitsInStep

LEMMA StorageInductive == StorageTypes /\ StorageInv /\ [Next]_vars => StorageTypes' /\ StorageInv'
BY StorageTypesStep, InAttemptStep, LateTypedStep, RecordsStep, UnitsStep DEF StorageInv

\* The inductive invariant of the transaction.
THEOREM StorageInvariant == Spec => [](StorageTypes /\ StorageInv)
BY StorageTypesInit, StorageInvInit, StorageInductive, PTL DEF Spec

\* The types of the records, the units and the run (execute_transaction).
THEOREM StorageTypesHold == Spec => []StorageTypeOK
BY StorageInvariant, PTL DEF StorageTypes

\* Units on the host belong to a consumed transaction that does not say they
\* are gone, except for enabled or mounted ones that slipped by a rollback
\* (rollback_units, build_failure_receipt).
THEOREM UnitsAreOwned == Spec => []LeftoversAreOwned
BY StorageInvariant, OwnersSuffice, PTL

-----------------------------------------------------------------------------
\* The objects the attempt has copied are its own.
CopiesInStep ==
  /\ pc = "copy" => \A i \in Objects : i < at => copies[i] = tx
  /\ pc \in {"install", "reload", "enable", "start", "verify", "receipt"} =>
       \A i \in Objects : copies[i] = tx

LEMMA CopiesStep ==
  ASSUME StorageTypes, StorageInv, CopiesInStep, CopiesOfSuccess, [Next]_vars
  PROVE  CopiesInStep' /\ CopiesOfSuccess'
<1> USE DEF CopiesInStep, CopiesOfSuccess
<1>0. pc # "idle" => tx \in Transactions
  BY StepsHaveTransaction DEF StorageInv
<1>1. ASSUME NEW o \in Outcomes, CopyObject(o)
      PROVE  CopiesInStep' /\ CopiesOfSuccess'
  <2>1. pc = "copy" /\ at \in Objects /\ tx \in Transactions /\ tx' = tx /\ receipt' = receipt
    BY <1>0, <1>1 DEF CopyObject, StorageTypes, Positions
  <2>2. \/ copies' = copies /\ o = "before"
        \/ copies[at] = None /\ copies' = [copies EXCEPT ![at] = tx]
    <3>1. copies \in [Objects -> Transactions \cup {None}]
      BY DEF StorageTypes, StorageTypeOK
    <3>2. [copies EXCEPT ![at] = copies[at]] = copies
      BY <2>1, <3>1
    <3> QED
      BY <1>1, <3>2 DEF CopyObject
  <2>3. copies \in [Objects -> Transactions \cup {None}]
    BY DEF StorageTypes, StorageTypeOK
  <2>4. \A i \in Objects : copies[i] # None => copies'[i] = copies[i]
    BY <2>1, <2>2, <2>3
  <2>5. CopiesOfSuccess'
    BY <2>1, <2>4
  <2>6. \/ pc' = "failed"
        \/ /\ (pc' = "copy" /\ at' = at + 1) \/ (pc' = "install" /\ at = NObjects)
           /\ copies'[at] = tx
    BY <1>1, <2>1, <2>2, <2>3 DEF CopyObject, Goto
  <2>7. \A i \in Objects : i < at => copies'[i] = tx
    BY <2>1, <2>4
  <2> QED
    BY <2>1, <2>5, <2>6, <2>7
<1>2. ASSUME NEW o \in Outcomes, WriteReceipt(o)
      PROVE  CopiesInStep' /\ CopiesOfSuccess'
  <2>1. /\ tx \in Transactions /\ copies' = copies /\ \A i \in Objects : copies[i] = tx
        /\ receipt' = receipt \/ receipt' = [receipt EXCEPT ![tx] = "active"]
    BY <1>0, <1>2 DEF WriteReceipt, StorageTypes, StorageTypeOK
  <2>2. CopiesOfSuccess'
    BY <2>1 DEF StorageTypes, StorageTypeOK
  <2>3. pc' \in {"idle", "failed"}
    <3>1. CASE o = "done"
      BY <1>2, <3>1 DEF WriteReceipt, Unlocked
    <3>2. CASE o # "done"
      BY <1>2, <3>2 DEF WriteReceipt, Goto
    <3> QED
      BY <3>1, <3>2
  <2> QED
    BY <2>2, <2>3
<1>3. ASSUME NEW o \in Outcomes, Journal(o)
      PROVE  CopiesInStep' /\ CopiesOfSuccess'
  BY <1>0, <1>3 DEF Journal, Unlocked, FailureOutcome, StorageTypes, StorageTypeOK
<1>4. ASSUME UNCHANGED <<receipt, copies>>,
             \/ UNCHANGED <<pc, at, tx>>
             \/ pc' \notin {"copy", "install", "reload", "enable", "start", "verify", "receipt"}
             \/ pc' = "copy" /\ at' = 1
             \/ /\ pc \in {"install", "reload", "enable", "start", "verify", "receipt"}
                /\ pc' # "copy" /\ tx' = tx
      PROVE  CopiesInStep' /\ CopiesOfSuccess'
  BY <1>4
<1>5. ASSUME NEW o \in Outcomes, Step(o), ~CopyObject(o), ~WriteReceipt(o), ~Journal(o)
      PROVE  CopiesInStep' /\ CopiesOfSuccess'
  BY <1>4, <1>5 DEF Step, OpenBackup, BindBackup, Consume, InstallUnit, Reload, VerifyPost,
     RemoveUnit, Unload, Confirm, Goto, Downward
<1>6. ASSUME NEW o \in CommandOutcomes, CommandStep(o)
      PROVE  CopiesInStep' /\ CopiesOfSuccess'
  BY <1>4, <1>6 DEF CommandStep, EnableUnit, StartUnit, StopUnit, DisableUnit, Goto, Downward
<1>7. CASE \/ InitialState \/ HandleFailure \/ AbandonRollback \/ Kill \/ PowerLoss
           \/ UNCHANGED vars
  BY <1>4, <1>7 DEF InitialState, HandleFailure, AbandonRollback, Kill, PowerLoss, Cut, Unlocked,
    vars
<1>8. ASSUME NEW r \in Runs, Lock(r) \/ \E t \in Transactions : Check(r, t)
      PROVE  CopiesInStep' /\ CopiesOfSuccess'
  BY <1>4, <1>8 DEF Lock, Check, StorageInv, InAttempt
<1>9. ASSUME NEW c \in late, Late(c)
      PROVE  CopiesInStep' /\ CopiesOfSuccess'
  <2>1. CASE LateUnit(c) \/ LateFails(c)
    BY <1>4, <2>1 DEF LateUnit, LateFails
  <2>2. CASE LateCopy(c)
    <3>1. \A i \in Objects : copies[i] # None => copies'[i] = copies[i]
      BY <2>2 DEF LateCopy, StorageTypes, StorageTypeOK
    <3>2. UNCHANGED <<receipt, pc, at, tx>>
      BY <2>2 DEF LateCopy
    <3>3. pc # "idle" => tx # None
      BY <1>0 DEF StorageTypes, StorageTypeOK
    <3>4. CopiesOfSuccess'
      BY <3>1, <3>2
    <3> QED
      BY <3>1, <3>2, <3>3, <3>4
  <2> QED
    BY <1>9, <2>1, <2>2 DEF Late
<1> QED
  BY <1>1, <1>2, <1>3, <1>5, <1>6, <1>7, <1>8, <1>9 DEF Next

\* A success receipt is about the transaction's own copies (create_nfs_object).
THEOREM CopiesAreOwn == Spec => []CopiesOfSuccess
<1>1. Init => CopiesInStep /\ CopiesOfSuccess
  BY DEF Init, CopiesInStep, CopiesOfSuccess
<1> QED
  BY <1>1, StorageInvariant, CopiesStep, PTL DEF Spec

-----------------------------------------------------------------------------
\* The refinement mapping: an attempt is open for its run and for what the
\* run left under way.
OpenNow == {t \in consumed : t = tx \/ \E c \in late : c.of = t}
Phase == [t \in Transactions |-> IF t \notin consumed THEN "unused"
                                 ELSE IF t = tx \/ \E c \in late : c.of = t
                                      THEN "open" ELSE "closed"]
World == <<unitFile, enabled, copies>>

\* No attempt begins; those that end do, and the world changes only if one
\* was open.
LEMMA AttemptsEnd ==
  ASSUME StorageTypes, consumed' = consumed, OpenNow' \subseteq OpenNow,
         UNCHANGED World \/ OpenNow # {}
  PROVE  [Attempt!Next]_Attempt!vars
<1>1. OpenNow = {t \in Transactions : Phase[t] = "open"}
  BY DEF OpenNow, Phase, StorageTypes, StorageTypeOK
<1>2. Phase' = [t \in Transactions |-> IF t \in OpenNow \ OpenNow' THEN "closed" ELSE Phase[t]]
  BY DEF OpenNow, Phase
<1>3. CASE OpenNow # {}
  <2>1. Attempt!Open = OpenNow
    BY <1>1 DEF Attempt!Open, Phase
  <2>2. PICK over : over = OpenNow \ OpenNow'
    OBVIOUS
  <2>3. Attempt!Change(over) /\ over \in SUBSET Attempt!Open
    BY <1>2, <1>3, <2>1, <2>2 DEF Attempt!Change, Phase
  <2> QED
    BY <2>3 DEF Attempt!Next
<1>4. CASE UNCHANGED World /\ OpenNow = {}
  <2>1. Phase' = Phase
    BY <1>2, <1>4 DEF Phase
  <2> QED
    BY <1>4, <2>1 DEF Phase, World, Attempt!vars
<1> QED
  BY <1>3, <1>4

LEMMA ConsumingIsBegin ==
  ASSUME StorageTypes, LateTyped, tx \in Transactions, tx \notin consumed,
         consumed' = consumed \cup {tx}, UNCHANGED <<World, tx, late>>
  PROVE  [Attempt!Next]_Attempt!vars
<1>1. PICK t \in Transactions : t = tx
  OBVIOUS
<1>2. Phase[t] = "unused" /\ Phase' = [Phase EXCEPT ![t] = "open"]
  BY <1>1 DEF Phase
<1>3. Attempt!Begin(t)
  BY <1>1, <1>2 DEF Phase, World, Attempt!Begin
<1> QED
  BY <1>1, <1>3 DEF Attempt!Next

LEMMA StorageRefines ==
  ASSUME StorageTypes, StorageInv, [Next]_vars
  PROVE  [Attempt!Next]_Attempt!vars
<1> USE DEF StorageInv
<1>0. ASSUME consumed' = consumed, tx' \in {tx, None} \/ tx' \notin consumed, late' \subseteq late,
             UNCHANGED World \/ OpenNow # {}
      PROVE  [Attempt!Next]_Attempt!vars
  <2>1. OpenNow' \subseteq OpenNow
    BY <1>0 DEF OpenNow, StorageTypes, StorageTypeOK
  <2> QED
    BY <1>0, <2>1, AttemptsEnd
<1>1. ASSUME consumed' = consumed, tx' \in {tx, None}, tx \in consumed,
             late' = late \/ \E c \in Commands : Leaves(c)
      PROVE  [Attempt!Next]_Attempt!vars
  <2>1. \A c \in late' : c \in late \/ c.of = tx
    BY <1>1 DEF Leaves
  <2>2. OpenNow' \subseteq OpenNow /\ tx \in OpenNow
    BY <1>1, <2>1 DEF OpenNow, StorageTypes, StorageTypeOK
  <2> QED
    BY <1>1, <2>2, AttemptsEnd
<1>2. ASSUME NEW o \in Outcomes, Step(o)
      PROVE  [Attempt!Next]_Attempt!vars
  <2>1. CASE Consume(o)
    <3>1. tx \in Transactions /\ tx \notin consumed /\ UNCHANGED <<World, tx, late>>
      BY <2>1, StepsHaveTransaction DEF Consume, RecordsInStep, Preparing, World
    <3>2. consumed' = consumed \/ consumed' = consumed \cup {tx}
      BY <2>1 DEF Consume
    <3> QED
      BY <1>0, <3>1, <3>2, ConsumingIsBegin
  <2>2. CASE \/ OpenBackup(o) \/ BindBackup(o) \/ Reload(o) \/ VerifyPost(o) \/ Unload(o)
             \/ Confirm(o)
    BY <1>0, <2>2 DEF OpenBackup, BindBackup, Reload, VerifyPost, Unload, Confirm, World
  <2>3. CASE WriteReceipt(o) \/ Journal(o)
    <3>1. consumed' = consumed /\ UNCHANGED World /\ tx' \in {tx, None} /\ late' = late
      BY <2>3 DEF WriteReceipt, Journal, Unlocked, World
    <3> QED
      BY <1>0, <3>1
  <2>4. CASE CopyObject(o) \/ InstallUnit(o) \/ RemoveUnit(o)
    <3>1. tx \in consumed /\ consumed' = consumed /\ tx' = tx /\ late' = late
      BY <2>4 DEF CopyObject, InstallUnit, RemoveUnit, RecordsInStep, Changing, Undoing
    <3> QED
      BY <1>1, <3>1
  <2> QED
    BY <1>2, <2>1, <2>2, <2>3, <2>4 DEF Step
<1>3. ASSUME NEW o \in CommandOutcomes, CommandStep(o)
      PROVE  [Attempt!Next]_Attempt!vars
  <2>1. tx \in consumed /\ consumed' = consumed /\ tx' = tx
    BY <1>3 DEF CommandStep, EnableUnit, StartUnit, StopUnit, DisableUnit, RecordsInStep, Changing,
       Undoing
  <2>2. late' = late \/ \E c \in Commands : Leaves(c)
    BY <1>3 DEF CommandStep, EnableUnit, StartUnit, StopUnit, DisableUnit, Commands
  <2> QED
    BY <1>1, <2>1, <2>2
<1>4. ASSUME NEW r \in Runs, Lock(r)
      PROVE  [Attempt!Next]_Attempt!vars
  <2>1. consumed' = consumed /\ UNCHANGED <<World, late>>
    BY <1>4 DEF Lock, World
  <2>2. tx' = tx \/ tx' \notin consumed
    BY <1>4 DEF Lock, Fresh
  <2> QED
    BY <1>0, <2>1, <2>2
<1>5. CASE Kill \/ AbandonRollback
  <2>1. /\ consumed' = consumed /\ tx' \in {tx, None} /\ UNCHANGED World
        /\ late' = late \/ \E c \in AtHand : Leaves(c)
    BY <1>5 DEF Kill, AbandonRollback, Cut, Unlocked, World
  <2>2. CASE late' = late
    BY <1>0, <2>1, <2>2
  <2>3. CASE \E c \in AtHand : Leaves(c)
    <3>1. \E c \in Commands : pc = c /\ Leaves(c)
      BY <2>3, AtHandIsCommand
    <3>2. tx \in consumed
      BY <3>1 DEF Commands, RecordsInStep, Changing, Undoing
    <3> QED
      BY <1>1, <2>1, <3>1, <3>2
  <2> QED
    BY <2>1, <2>2, <2>3
<1>6. CASE PowerLoss
  BY <1>0, <1>6 DEF PowerLoss, Cut, Unlocked, World
<1>7. CASE InitialState \/ HandleFailure \/ UNCHANGED vars
  BY <1>0, <1>7 DEF InitialState, HandleFailure, Unlocked, vars, World
<1>8. CASE \E r \in Runs, t \in Transactions : Check(r, t)
  BY <1>0, <1>8 DEF Check, World
<1>9. CASE \E c \in late : Late(c)
  <2>1. PICK c \in late : Late(c)
    BY <1>9
  <2>2. c.of \in OpenNow /\ c.of \in consumed
    BY <2>1 DEF OpenNow, LateTyped
  <2>3. consumed' = consumed /\ tx' = tx
    BY <2>1 DEF Late, LateUnit, LateCopy, LateFails
  <2>4. \A d \in late' : d \in late \/ d.of = c.of
    <3>1. c \in [of : Transactions, does : Commands, at : Int]
      BY DEF StorageTypes, StorageTypeOK
    <3>2. [c EXCEPT !.at = @ + 1].of = c.of
      BY <3>1
    <3> QED
      BY <2>1, <3>2 DEF Late, LateUnit, LateCopy, LateFails
  <2>5. OpenNow' \subseteq OpenNow
    BY <2>2, <2>3, <2>4 DEF OpenNow
  <2> QED
    BY <2>2, <2>3, <2>5, AttemptsEnd
<1> QED
  BY <1>2, <1>3, <1>4, <1>5, <1>6, <1>7, <1>8, <1>9 DEF Next

\* Every transaction is attempted at most once, and unit files, enablement
\* and copies change inside an attempt only, which lasts as long as anything
\* its run left under way (build_consumption, the lock, the children).
THEOREM StorageImplementsSingleUse == Spec => StorageIsSingleUse
<1>1. Init => Attempt!Init
  BY DEF Init, Attempt!Init
<1>2. StorageTypes /\ StorageInv /\ [Next]_vars => [Attempt!Next]_Attempt!vars
  BY StorageRefines
<1> QED
  BY <1>1, <1>2, StorageInvariant, PTL DEF Spec, StorageIsSingleUse, Attempt!Spec
=============================================================================
