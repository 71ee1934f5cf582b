--------------------------- MODULE InstallProofs ---------------------------
(***************************************************************************)
(* Proofs about InstallTransaction, for any number of transactions, runs   *)
(* and files and any faults: the types, that a transaction that was rolled *)
(* back leaves nothing, that the last receipt is true, and that every      *)
(* transaction is attempted once.                                          *)
(***************************************************************************)
EXTENDS InstallTransaction, TLAPS

USE InstallAssumption DEF Files, Contents, recordVars, lockVars, runVars, historyVars

\* A transaction is at work whenever a step is, and a step that counts is at
\* a file.
InAttempt == /\ (holder = None <=> pc = "idle")
             /\ (tx = None <=> pc = "idle")
             /\ pc \in {"install", "remove"} => at \in Files

InstallTypes == InstallTypeOK /\ InAttempt

LEMMA InstallTypesInit == Init => InstallTypes
<1> SUFFICES ASSUME Init
             PROVE  InstallTypes
  OBVIOUS
<1>1. written \in BOOLEAN /\ unitChanged \in BOOLEAN /\ failed \in BOOLEAN
  BY Zenon DEF Init
<1>2. Before \in [Files -> Contents]
  BY DEF Before
<1>3. /\ dest \in [Files -> Contents] /\ opened \in [Files -> Contents]
      /\ baseline \in [Transactions -> [Files -> Contents]]
  BY <1>2 DEF Init
<1>4. /\ issued = {} /\ consumed = {} /\ recorded = {} /\ last = None
      /\ holder = None /\ tx = None /\ pc = "idle" /\ at = 0
      /\ receipt \in [Transactions -> {"none", "installed", "rolled_back", "rollback_failed"}]
      /\ checked \in [Runs -> issued \cup {None}]
      /\ slipped \in [Transactions -> SUBSET (0 .. NFiles)]
  BY DEF Init
<1> QED
  BY <1>1, <1>3, <1>4 DEF InstallTypes, InstallTypeOK, InAttempt, Steps

LEMMA UnlockedTypes ==
  ASSUME Unlocked
  PROVE  /\ holder' = None /\ tx' = None /\ pc' = "idle" /\ at' = 0 /\ checked' = checked
         /\ recorded' = {} /\ InAttempt'
         /\ written' \in BOOLEAN /\ unitChanged' \in BOOLEAN /\ failed' \in BOOLEAN
<1>1. written' \in BOOLEAN /\ unitChanged' \in BOOLEAN /\ failed' \in BOOLEAN
  BY Zenon DEF Unlocked
<1>2. /\ holder' = None /\ tx' = None /\ pc' = "idle" /\ at' = 0 /\ checked' = checked
      /\ recorded' = {}
  BY DEF Unlocked
<1> QED
  BY <1>1, <1>2 DEF InAttempt

LEMMA StepsHaveTransaction ==
  ASSUME InstallTypes, pc # "idle"
  PROVE  tx \in issued /\ tx \in Transactions /\ tx # None /\ holder \in Runs /\ holder # None
BY DEF InstallTypes, InstallTypeOK, InAttempt

\* What a command that may escape does, in each of the three places.
LEMMA CommandCases ==
  ASSUME NEW c \in Commands, Reload(c) \/ Verify(c)
  PROVE  /\ UNCHANGED <<dest, recordVars, historyVars>>
         /\ \/ Unlocked
            \/ pc' \in {"verify", "receipt"} /\ at' = 0 /\ UNCHANGED <<lockVars, runVars>>
            \/ pc' = "failed" /\ UNCHANGED <<at, lockVars, runVars>>
BY DEF Reload, Verify, Command, Caught

LEMMA HandleFailureCases ==
  ASSUME NEW c \in Commands, HandleFailure(c)
  PROVE  /\ UNCHANGED <<dest, recordVars, historyVars>>
         /\ \/ Unlocked
            \/ /\ recorded = {} /\ pc' = "journal" /\ at' = 0
               /\ UNCHANGED <<lockVars, runVars>>
            \/ /\ recorded # {} /\ pc' = "remove" /\ at' = NFiles
               /\ failed' = (failed \/ c # "done")
               /\ UNCHANGED <<lockVars, written, recorded, unitChanged>>
<1>1. CASE recorded = {}
  BY <1>1, Zenon DEF HandleFailure
<1>2. CASE recorded # {} /\ c = "escape"
  BY <1>2, Zenon DEF HandleFailure
<1>3. CASE recorded # {} /\ c # "escape"
  BY <1>3, Zenon DEF HandleFailure
<1> QED
  BY <1>1, <1>2, <1>3

LEMMA RollbackCommandCases ==
  ASSUME NEW c \in Commands, RollbackCommand(c)
  PROVE  /\ UNCHANGED <<dest, recordVars, historyVars>>
         /\ pc \in {"unload", "confirm"}
         /\ \/ Unlocked
            \/ /\ pc' = IF pc = "unload" THEN "confirm" ELSE "journal"
               /\ failed' = (failed \/ c # "done")
               /\ UNCHANGED <<lockVars, at, written, recorded, unitChanged>>
<1>1. CASE c = "escape"
  BY <1>1, Zenon DEF RollbackCommand
<1>2. CASE c # "escape"
  BY <1>2, Zenon DEF RollbackCommand
<1> QED
  BY <1>1, <1>2

LEMMA InstallTypesStep == InstallTypes /\ [Next]_vars => InstallTypes'
<1> SUFFICES ASSUME InstallTypes, [Next]_vars
             PROVE  InstallTypes'
  OBVIOUS
<1>0. pc # "idle" => tx \in issued /\ tx \in Transactions
  BY StepsHaveTransaction
<1> USE DEF InstallTypes, InstallTypeOK, Steps
<1>1. ASSUME NEW t \in Transactions, Issue(t)
      PROVE  InstallTypes'
  BY <1>1 DEF Issue, InAttempt
<1>2. ASSUME NEW r \in Runs, NEW t \in Transactions, Check(r, t)
      PROVE  InstallTypes'
  BY <1>2 DEF Check, InAttempt
<1>3. ASSUME NEW r \in Runs, Lock(r)
      PROVE  InstallTypes'
  BY <1>3 DEF Lock, InAttempt
<1>4. ASSUME NEW o \in Outcomes, NEW changed \in BOOLEAN, Consume(o, changed)
      PROVE  InstallTypes'
  <2>1. written' \in BOOLEAN /\ unitChanged' \in BOOLEAN
    BY <1>4, Zenon DEF Consume
  <2>2. tx \in issued /\ tx \in Transactions
    BY <1>0, <1>4 DEF Consume
  <2> QED
    BY <1>4, <2>1, <2>2 DEF Consume, Caught, InAttempt
<1>5. ASSUME NEW o \in Outcomes, InstallFile(o)
      PROVE  InstallTypes'
  <2>1. tx \in Transactions /\ at \in Files
    BY <1>0, <1>5 DEF InstallFile, InAttempt
  <2>2. dest' \in [Files -> Contents]
    BY <1>5, <2>1 DEF InstallFile
  <2>3. recorded' \subseteq Files /\ slipped' \in [Transactions -> SUBSET (0 .. NFiles)]
    BY <1>5, <2>1 DEF InstallFile
  <2>4. InAttempt' /\ pc' \in Steps /\ at' \in 0 .. NFiles
    BY <1>5, <2>1 DEF InstallFile, Caught, InAttempt
  <2> QED
    BY <1>5, <2>2, <2>3, <2>4 DEF InstallFile
<1>6. ASSUME NEW o \in Outcomes, WriteReceipt(o)
      PROVE  InstallTypes'
  <2>1. tx \in Transactions
    BY <1>0, <1>6 DEF WriteReceipt
  <2>2. /\ receipt' \in [Transactions -> {"none", "installed", "rolled_back", "rollback_failed"}]
        /\ slipped' \in [Transactions -> SUBSET (0 .. NFiles)]
    BY <1>6, <2>1 DEF WriteReceipt
  <2>3. CASE o = "done"
    BY <1>6, <2>2, <2>3, UnlockedTypes DEF WriteReceipt
  <2>4. CASE o # "done"
    BY <1>6, <2>2, <2>4 DEF WriteReceipt, Caught, InAttempt
  <2> QED
    BY <2>3, <2>4
<1>7. ASSUME NEW o \in Outcomes, RollbackFile(o)
      PROVE  InstallTypes'
  <2>1. tx \in Transactions /\ at \in Files
    BY <1>0, <1>7 DEF RollbackFile, InAttempt
  <2>2. baseline[tx][at] \in Contents
    BY <2>1
  <2>3. dest' \in [Files -> Contents]
    BY <1>7, <2>2 DEF RollbackFile
  <2>4. failed' \in BOOLEAN
    BY <1>7, Zenon DEF RollbackFile
  <2> QED
    BY <1>7, <2>1, <2>3, <2>4 DEF RollbackFile, InAttempt
<1>8. ASSUME NEW o \in Outcomes, Journal(o)
      PROVE  InstallTypes'
  <2>1. tx \in Transactions
    BY <1>0, <1>8 DEF Journal
  <2>2. receipt' \in [Transactions -> {"none", "installed", "rolled_back", "rollback_failed"}]
    BY <1>8, <2>1 DEF Journal
  <2> QED
    BY <1>8, <2>2, UnlockedTypes DEF Journal
<1>9. ASSUME NEW c \in Commands, Reload(c) \/ Verify(c)
      PROVE  InstallTypes'
  <2>1. CASE Unlocked
    BY <1>9, <2>1, CommandCases, UnlockedTypes
  <2>2. CASE pc' \in {"verify", "receipt"} /\ at' = 0 /\ UNCHANGED <<lockVars, runVars>>
    <3>1. pc # "idle"
      BY <1>9 DEF Reload, Verify
    <3> QED
      BY <1>9, <2>2, <3>1, CommandCases DEF InAttempt
  <2>3. CASE pc' = "failed" /\ UNCHANGED <<at, lockVars, runVars>>
    <3>1. pc # "idle"
      BY <1>9 DEF Reload, Verify
    <3> QED
      BY <1>9, <2>3, <3>1, CommandCases DEF InAttempt
  <2> QED
    BY <1>9, <2>1, <2>2, <2>3, CommandCases
<1>10. ASSUME NEW c \in Commands, HandleFailure(c)
       PROVE  InstallTypes'
  <2>0. pc = "failed" /\ UNCHANGED <<dest, recordVars, historyVars>>
    BY <1>10 DEF HandleFailure
  <2>1. CASE Unlocked
    BY <2>0, <2>1, UnlockedTypes
  <2>2. CASE pc' = "journal" /\ at' = 0 /\ UNCHANGED <<lockVars, runVars>>
    BY <2>0, <2>2 DEF InAttempt
  <2>3. CASE /\ pc' = "remove" /\ at' = NFiles
             /\ failed' = (failed \/ c # "done")
             /\ UNCHANGED <<lockVars, written, recorded, unitChanged>>
    <3>1. failed' \in BOOLEAN
      BY <2>3, Zenon
    <3> QED
      BY <2>0, <2>3, <3>1 DEF InAttempt
  <2> QED
    BY <1>10, <2>1, <2>2, <2>3, HandleFailureCases
<1>11. ASSUME NEW c \in Commands, RollbackCommand(c)
       PROVE  InstallTypes'
  <2>1. CASE Unlocked
    BY <1>11, <2>1, RollbackCommandCases, UnlockedTypes
  <2>2. CASE /\ pc' = IF pc = "unload" THEN "confirm" ELSE "journal"
             /\ failed' = (failed \/ c # "done")
             /\ UNCHANGED <<lockVars, at, written, recorded, unitChanged>>
    <3>1. failed' \in BOOLEAN
      BY <2>2, Zenon
    <3> QED
      BY <1>11, <2>2, <3>1, RollbackCommandCases DEF InAttempt
  <2> QED
    BY <1>11, <2>1, <2>2, RollbackCommandCases
<1>12. CASE Kill
  BY <1>12, UnlockedTypes DEF Kill
<1>13. CASE UNCHANGED vars
  BY <1>13 DEF vars, InAttempt
<1> QED
  BY <1>1, <1>2, <1>3, <1>4, <1>5, <1>6, <1>7, <1>8, <1>9, <1>10, <1>11, <1>12, <1>13 DEF Next

\* The types of the files, the journals and the run (execute_transaction).
THEOREM InstallTypesHold == Spec => []InstallTypeOK
BY InstallTypesInit, InstallTypesStep, PTL DEF Spec, InstallTypes

-----------------------------------------------------------------------------
\* The records of the attempt under way.
RecordsInStep ==
  /\ pc = "idle" => recorded = {} /\ ~written
  /\ pc # "idle" =>
       /\ pc = "consume" => tx \notin consumed
       /\ pc \in {"install", "reload", "verify", "receipt"} \/ recorded # {} => tx \in consumed
       /\ pc \in {"remove", "unload", "confirm"} => recorded # {}
       /\ tx \in consumed => tx = last
       /\ written => tx \in consumed
       /\ receipt[tx] \in {"none", "installed"}
       /\ receipt[tx] = "installed" => 0 \in slipped[tx]

\* A transaction that wrote a file, or whose file a backup holds, is one whose
\* authorization was consumed, and the one at work is in nobody's backup.
WrittenByConsumed ==
  /\ \A f \in Files, t \in Transactions : dest[f] = t => t \in consumed
  /\ \A u, t \in Transactions, f \in Files : baseline[u][f] = t => t \in consumed /\ t # tx

\* A backup holds no file of a transaction that was rolled back, as a host
\* does not.
BackupsClean ==
  \A u, t \in Transactions, f \in Files :
    baseline[u][f] = t /\ receipt[t] = "rolled_back" => f \in slipped[t]

\* What a rollback that went well so far has left of the transaction.
RollbackClean ==
  pc # "idle" =>
    /\ \A f \in Files : dest[f] = tx => f \in recorded \cup slipped[tx]
    /\ pc = "remove" /\ ~failed =>
         \A f \in Files : f > at /\ dest[f] = tx => f \in slipped[tx]
    /\ pc \in {"unload", "confirm", "journal"} /\ ~failed =>
         \A f \in Files : dest[f] = tx => f \in slipped[tx]

InstallInv == /\ RecordsInStep /\ WrittenByConsumed /\ BackupsClean /\ RollbackClean
              /\ RolledBackLeavesNothing

LEMMA InstallInvInit == Init => InstallInv
<1> SUFFICES ASSUME Init
             PROVE  InstallInv
  OBVIOUS
<1>1. /\ \A f \in Files : dest[f] \in {Old, Absent}
      /\ \A u \in Transactions, f \in Files : baseline[u][f] \in {Old, Absent}
  BY DEF Init, Before
<1>2. pc = "idle" /\ recorded = {} /\ \A t \in Transactions : receipt[t] = "none"
  BY DEF Init
<1>3. ~written
  BY Zenon DEF Init
<1> QED
  BY <1>1, <1>2, <1>3 DEF InstallInv, RecordsInStep, WrittenByConsumed, BackupsClean,
     RollbackClean, RolledBackLeavesNothing

\* A run that is over leaves the invariants to the files and the journals.
LEMMA UnlockedRests ==
  ASSUME Unlocked
  PROVE  RecordsInStep' /\ RollbackClean'
<1>1. pc' = "idle" /\ recorded' = {}
  BY DEF Unlocked
<1>2. ~written'
  BY Zenon DEF Unlocked
<1> QED
  BY <1>1, <1>2 DEF RecordsInStep, RollbackClean

LEMMA RecordsStep ==
  ASSUME InstallTypes, InstallInv, [Next]_vars
  PROVE  RecordsInStep'
<1>0. pc # "idle" => tx \in Transactions
  BY StepsHaveTransaction
<1> USE DEF InstallInv, RecordsInStep
<1>1. ASSUME Unlocked
      PROVE  RecordsInStep'
  BY <1>1, UnlockedRests
<1>2. CASE \/ UNCHANGED vars
           \/ \E t \in Transactions : Issue(t)
           \/ \E r \in Runs, t \in Transactions : Check(r, t)
  BY <1>2 DEF vars, Issue, Check
<1>3. ASSUME NEW r \in Runs, Lock(r)
      PROVE  RecordsInStep'
  <2>1. CASE pc' = pc /\ tx' = tx
    BY <1>3, <2>1 DEF Lock
  <2>2. CASE holder = None /\ Unused(checked[r]) /\ tx' = checked[r] /\ pc' = "consume"
    BY <1>3, <2>2 DEF Lock, Unused, InstallTypes, InAttempt
  <2> QED
    BY <1>3, <2>1, <2>2 DEF Lock
<1>4. ASSUME NEW o \in Outcomes, NEW changed \in BOOLEAN, Consume(o, changed)
      PROVE  RecordsInStep'
  <2>1. /\ pc = "consume" /\ tx \notin consumed /\ recorded = {} /\ recorded' = {} /\ tx' = tx
        /\ receipt' = receipt /\ slipped' = slipped
    BY <1>4 DEF Consume
  <2>2. \/ o = "before" /\ consumed' = consumed
        \/ consumed' = consumed \cup {tx} /\ last' = tx
    BY <1>4 DEF Consume
  <2>3. written' => o = "done"
    BY <1>4, Zenon DEF Consume
  <2>4. IF o = "done" THEN pc' = "install" ELSE pc' = "failed"
    BY <1>4 DEF Consume, Caught
  <2> QED
    BY <2>1, <2>2, <2>3, <2>4
<1>5. ASSUME NEW o \in Outcomes, InstallFile(o)
      PROVE  RecordsInStep'
  <2>1. tx \in Transactions
    BY <1>0, <1>5 DEF InstallFile
  <2> QED
    BY <1>5, <2>1 DEF InstallFile, Caught, InstallTypes, InstallTypeOK
<1>6. ASSUME NEW o \in Outcomes, WriteReceipt(o)
      PROVE  RecordsInStep'
  <2>1. tx \in Transactions
    BY <1>0, <1>6 DEF WriteReceipt
  <2>2. CASE o = "done"
    BY <1>1, <1>6, <2>2 DEF WriteReceipt
  <2>3. CASE o # "done"
    BY <1>6, <2>1, <2>3 DEF WriteReceipt, Caught, InstallTypes, InstallTypeOK, Outcomes
  <2> QED
    BY <2>2, <2>3
<1>7. ASSUME NEW o \in Outcomes, RollbackFile(o)
      PROVE  RecordsInStep'
  BY <1>7 DEF RollbackFile
<1>8. ASSUME NEW o \in Outcomes, Journal(o)
      PROVE  RecordsInStep'
  BY <1>1, <1>8 DEF Journal
<1>9. ASSUME NEW c \in Commands, Reload(c) \/ Verify(c)
      PROVE  RecordsInStep'
  <2>1. pc \in {"reload", "verify"}
    BY <1>9 DEF Reload, Verify
  <2> QED
    BY <1>1, <1>9, <2>1, CommandCases
<1>10. ASSUME NEW c \in Commands, HandleFailure(c)
       PROVE  RecordsInStep'
  <2>1. pc = "failed"
    BY <1>10 DEF HandleFailure
  <2> QED
    BY <1>1, <1>10, <2>1, HandleFailureCases
<1>11. ASSUME NEW c \in Commands, RollbackCommand(c)
       PROVE  RecordsInStep'
  BY <1>1, <1>11, RollbackCommandCases
<1>12. CASE Kill
  BY <1>1, <1>12 DEF Kill
<1> QED
  BY <1>2, <1>3, <1>4, <1>5, <1>6, <1>7, <1>8, <1>9, <1>10, <1>11, <1>12 DEF Next

\* Which actions change files, backups and records at all.
LEMMA FilesChangeSeldom ==
  ASSUME [Next]_vars, \A o \in Outcomes : ~InstallFile(o) /\ ~RollbackFile(o)
  PROVE  dest' = dest
<1>1. ASSUME NEW r \in Runs, Lock(r)
      PROVE  dest' = dest
  BY <1>1 DEF Lock
<1>2. ASSUME NEW c \in Commands, Reload(c) \/ Verify(c) \/ HandleFailure(c) \/ RollbackCommand(c)
      PROVE  dest' = dest
  BY <1>2, CommandCases, HandleFailureCases, RollbackCommandCases
<1> QED
  BY <1>1, <1>2 DEF Next, vars, Issue, Check, Consume, WriteReceipt, Journal, Kill

LEMMA BackupsChangeSeldom ==
  ASSUME [Next]_vars, \A t \in Transactions : ~Issue(t)
  PROVE  baseline' = baseline
<1>1. ASSUME NEW r \in Runs, Lock(r)
      PROVE  baseline' = baseline
  BY <1>1 DEF Lock
<1>2. ASSUME NEW c \in Commands, Reload(c) \/ Verify(c) \/ HandleFailure(c) \/ RollbackCommand(c)
      PROVE  baseline' = baseline
  BY <1>2, CommandCases, HandleFailureCases, RollbackCommandCases
<1> QED
  BY <1>1, <1>2 DEF Next, vars, Check, Consume, InstallFile, RollbackFile, WriteReceipt, Journal,
    Kill

\* Records only grow, and only those of the transaction at work change.
LEMMA RecordsGrow ==
  ASSUME InstallTypes, [Next]_vars
  PROVE  /\ consumed \subseteq consumed'
         /\ \A t \in Transactions : slipped[t] \subseteq slipped'[t]
         /\ \A t \in Transactions : t # tx => receipt'[t] = receipt[t] /\ slipped'[t] = slipped[t]
<1>1. ASSUME NEW r \in Runs, Lock(r)
      PROVE  UNCHANGED <<consumed, slipped, receipt>>
  BY <1>1 DEF Lock
<1>2. ASSUME NEW c \in Commands, Reload(c) \/ Verify(c) \/ HandleFailure(c) \/ RollbackCommand(c)
      PROVE  UNCHANGED <<consumed, slipped, receipt>>
  BY <1>2, CommandCases, HandleFailureCases, RollbackCommandCases
<1>3. ASSUME NEW o \in Outcomes, NEW changed \in BOOLEAN, Consume(o, changed)
      PROVE  consumed \subseteq consumed' /\ UNCHANGED <<slipped, receipt>>
  BY <1>3 DEF Consume
<1>4. ASSUME NEW o \in Outcomes, InstallFile(o) \/ WriteReceipt(o)
      PROVE  /\ consumed' = consumed
             /\ \A t \in Transactions : slipped[t] \subseteq slipped'[t]
             /\ \A t \in Transactions : t # tx => receipt'[t] = receipt[t] /\ slipped'[t] = slipped[t]
  <2> /\ slipped \in [Transactions -> SUBSET (0 .. NFiles)]
      /\ receipt \in [Transactions -> {"none", "installed", "rolled_back", "rollback_failed"}]
    BY DEF InstallTypes, InstallTypeOK
  <2>1. CASE InstallFile(o)
    <3>1. consumed' = consumed /\ receipt' = receipt
      BY <2>1 DEF InstallFile, recordVars
    <3>2. slipped' = slipped \/ slipped' = [slipped EXCEPT ![tx] = @ \cup {at}]
      BY <2>1 DEF InstallFile
    <3> QED
      BY <3>1, <3>2
  <2>2. CASE WriteReceipt(o)
    <3>1. consumed' = consumed
      BY <2>2 DEF WriteReceipt
    <3>2. slipped' = slipped \/ slipped' = [slipped EXCEPT ![tx] = @ \cup {0}]
      BY <2>2 DEF WriteReceipt
    <3>3. receipt' = receipt \/ receipt' = [receipt EXCEPT ![tx] = "installed"]
      BY <2>2 DEF WriteReceipt
    <3> QED
      BY <3>1, <3>2, <3>3
  <2> QED
    BY <1>4, <2>1, <2>2
<1>5. ASSUME NEW o \in Outcomes, Journal(o)
      PROVE  /\ UNCHANGED <<consumed, slipped>>
             /\ \A t \in Transactions : t # tx => receipt'[t] = receipt[t]
  BY <1>5 DEF Journal, InstallTypes, InstallTypeOK
<1>6. CASE \/ UNCHANGED vars \/ Kill
           \/ \E t \in Transactions : Issue(t) \/ \E r \in Runs : Check(r, t)
           \/ \E o \in Outcomes : RollbackFile(o)
  BY <1>6 DEF vars, Kill, Issue, Check, RollbackFile
<1> QED
  BY <1>1, <1>2, <1>3, <1>4, <1>5, <1>6 DEF Next

\* The transaction at work is the same, none, or one that was never consumed.
LEMMA TransactionStep ==
  ASSUME InstallTypes, [Next]_vars
  PROVE  \/ tx' = tx
         \/ tx' = None
         \/ /\ tx' \notin consumed /\ pc' = "consume"
            /\ UNCHANGED <<dest, recordVars, historyVars>>
<1>1. ASSUME NEW r \in Runs, Lock(r)
      PROVE  \/ tx' = tx
             \/ /\ tx' \notin consumed /\ pc' = "consume"
                /\ UNCHANGED <<dest, recordVars, historyVars>>
  BY <1>1 DEF Lock, Unused
<1>2. ASSUME NEW c \in Commands, Reload(c) \/ Verify(c) \/ HandleFailure(c) \/ RollbackCommand(c)
      PROVE  tx' = tx \/ tx' = None
  BY <1>2, CommandCases, HandleFailureCases, RollbackCommandCases DEF Unlocked
<1>3. ASSUME NEW o \in Outcomes, InstallFile(o) \/ WriteReceipt(o) \/ RollbackFile(o) \/ Journal(o)
      PROVE  tx' = tx \/ tx' = None
  BY <1>3 DEF InstallFile, WriteReceipt, RollbackFile, Journal, Unlocked
<1>4. CASE \/ UNCHANGED vars \/ Kill
           \/ \E t \in Transactions : Issue(t) \/ \E r \in Runs : Check(r, t)
           \/ \E o \in Outcomes, changed \in BOOLEAN : Consume(o, changed)
  BY <1>4 DEF vars, Kill, Unlocked, Issue, Check, Consume
<1> QED
  BY <1>1, <1>2, <1>3, <1>4 DEF Next

\* A file is what it was, the transaction's, or what its backup holds.
LEMMA FilesStep ==
  ASSUME InstallTypes, RecordsInStep, [Next]_vars, NEW f \in Files
  PROVE  \/ dest'[f] = dest[f]
         \/ dest'[f] = tx /\ tx \in consumed /\ pc = "install"
         \/ dest'[f] = baseline[tx][f] /\ tx \in Transactions
<1> dest \in [Files -> Contents]
  BY DEF InstallTypes, InstallTypeOK
<1>1. ASSUME NEW o \in Outcomes, InstallFile(o)
      PROVE  \/ dest'[f] = dest[f]
             \/ dest'[f] = tx /\ tx \in consumed /\ pc = "install"
  <2>1. pc = "install" /\ tx \in consumed
    BY <1>1 DEF InstallFile, RecordsInStep
  <2> QED
    BY <1>1, <2>1 DEF InstallFile
<1>2. ASSUME NEW o \in Outcomes, RollbackFile(o)
      PROVE  \/ dest'[f] = dest[f]
             \/ dest'[f] = baseline[tx][f] /\ tx \in Transactions
  <2>1. tx \in Transactions
    BY <1>2, StepsHaveTransaction DEF RollbackFile
  <2> QED
    BY <1>2, <2>1 DEF RollbackFile
<1> QED
  BY <1>1, <1>2, FilesChangeSeldom

\* A backup is what it was, or taken of the host while nothing is at work.
LEMMA BackupsStep ==
  ASSUME InstallTypes, [Next]_vars, NEW u \in Transactions
  PROVE  \/ baseline'[u] = baseline[u]
         \/ baseline'[u] = dest /\ tx = None /\ UNCHANGED <<tx, receipt, consumed, slipped>>
<1>1. ASSUME NEW t \in Transactions, Issue(t)
      PROVE  \/ baseline'[u] = baseline[u]
             \/ baseline'[u] = dest /\ tx = None /\ UNCHANGED <<tx, receipt, consumed, slipped>>
  <2>1. tx = None
    BY <1>1 DEF Issue, InstallTypes, InAttempt
  <2> QED
    BY <1>1, <2>1 DEF Issue, InstallTypes, InstallTypeOK
<1> QED
  BY <1>1, BackupsChangeSeldom

LEMMA WrittenByConsumedStep ==
  ASSUME InstallTypes, InstallInv, [Next]_vars
  PROVE  WrittenByConsumed'
<1> consumed \subseteq consumed'
  BY RecordsGrow
<1>1. ASSUME NEW f \in Files, NEW t \in Transactions, dest'[f] = t
      PROVE  t \in consumed'
  BY <1>1, FilesStep DEF InstallInv, WrittenByConsumed
<1>2. ASSUME NEW u \in Transactions, NEW t \in Transactions, NEW f \in Files, baseline'[u][f] = t
      PROVE  t \in consumed' /\ t # tx'
  <2>1. t \in consumed /\ (t # tx \/ tx' # tx \/ tx' = None)
    BY <1>2, BackupsStep DEF InstallInv, WrittenByConsumed
  <2> QED
    BY <2>1, TransactionStep
<1> QED
  BY <1>1, <1>2 DEF WrittenByConsumed

\* A receipt that turns to "rolled_back" is the one of an attempt whose
\* rollback noted no failure, and nothing else changes with it.
LEMMA ReceiptsStep ==
  ASSUME InstallTypes, [Next]_vars, NEW t \in Transactions,
         receipt'[t] = "rolled_back", receipt[t] # "rolled_back"
  PROVE  /\ t = tx /\ ~failed /\ pc = "journal"
         /\ UNCHANGED <<dest, baseline, slipped>>
<1> receipt \in [Transactions -> {"none", "installed", "rolled_back", "rollback_failed"}]
  BY DEF InstallTypes, InstallTypeOK
<1>1. ASSUME NEW r \in Runs, Lock(r)
      PROVE  FALSE
  BY <1>1 DEF Lock
<1>2. ASSUME NEW c \in Commands, Reload(c) \/ Verify(c) \/ HandleFailure(c) \/ RollbackCommand(c)
      PROVE  FALSE
  BY <1>2, CommandCases, HandleFailureCases, RollbackCommandCases
<1>3. ASSUME NEW o \in Outcomes, InstallFile(o) \/ RollbackFile(o)
      PROVE  FALSE
  BY <1>3 DEF InstallFile, RollbackFile
<1>4. ASSUME NEW o \in Outcomes, WriteReceipt(o)
      PROVE  FALSE
  <2>1. receipt' = receipt \/ receipt' = [receipt EXCEPT ![tx] = "installed"]
    BY <1>4 DEF WriteReceipt
  <2> QED
    BY <2>1
<1>5. ASSUME NEW o \in Outcomes, Journal(o)
      PROVE  /\ t = tx /\ ~failed /\ pc = "journal"
             /\ UNCHANGED <<dest, baseline, slipped>>
  <2>1. pc = "journal" /\ UNCHANGED <<dest, baseline, slipped>>
    BY <1>5 DEF Journal
  <2>2. \/ receipt' = receipt
        \/ receipt' = [receipt EXCEPT ![tx] = IF failed THEN "rollback_failed" ELSE "rolled_back"]
    BY <1>5, Zenon DEF Journal
  <2>3. CASE receipt' = receipt
    BY <2>3
  <2>4. CASE receipt' = [receipt EXCEPT ![tx] = IF failed THEN "rollback_failed" ELSE "rolled_back"]
    <3>1. CASE failed
      <4>1. receipt' = [receipt EXCEPT ![tx] = "rollback_failed"]
        BY <2>4, <3>1, Zenon
      <4> QED
        BY <4>1
    <3>2. CASE ~failed
      <4>1. receipt' = [receipt EXCEPT ![tx] = "rolled_back"]
        BY <2>4, <3>2, Zenon
      <4>2. t = tx
        BY <4>1
      <4> QED
        BY <2>1, <3>2, <4>2
    <3> QED
      BY <3>1, <3>2
  <2> QED
    BY <2>1, <2>2, <2>3, <2>4
<1>6. CASE \/ UNCHANGED vars \/ Kill
           \/ \E u \in Transactions : Issue(u) \/ \E r \in Runs : Check(r, u)
           \/ \E o \in Outcomes, changed \in BOOLEAN : Consume(o, changed)
  BY <1>6 DEF vars, Kill, Issue, Check, Consume
<1> QED
  BY <1>1, <1>2, <1>3, <1>4, <1>5, <1>6 DEF Next

LEMMA BackupsCleanStep ==
  ASSUME InstallTypes, InstallInv, [Next]_vars
  PROVE  BackupsClean'
<1> SUFFICES ASSUME NEW u \in Transactions, NEW t \in Transactions, NEW f \in Files,
                    baseline'[u][f] = t, receipt'[t] = "rolled_back"
             PROVE  f \in slipped'[t]
  BY DEF BackupsClean
<1>1. CASE receipt[t] = "rolled_back"
  <2>1. f \in slipped[t]
    BY <1>1, BackupsStep DEF InstallInv, BackupsClean, RolledBackLeavesNothing
  <2> QED
    BY <2>1, RecordsGrow
<1>2. CASE receipt[t] # "rolled_back"
  BY <1>2, ReceiptsStep DEF InstallInv, WrittenByConsumed
<1> QED
  BY <1>1, <1>2

LEMMA RolledBackStep ==
  ASSUME InstallTypes, InstallInv, [Next]_vars
  PROVE  RolledBackLeavesNothing'
<1> SUFFICES ASSUME NEW t \in Transactions, NEW f \in Files,
                    receipt'[t] = "rolled_back", dest'[f] = t
             PROVE  f \in slipped'[t]
  BY DEF RolledBackLeavesNothing
<1>1. CASE receipt[t] = "rolled_back"
  <2>1. ~(pc = "install" /\ t = tx)
    BY <1>1 DEF InstallInv, RecordsInStep
  <2>2. f \in slipped[t]
    BY <1>1, <2>1, FilesStep DEF InstallInv, BackupsClean, RolledBackLeavesNothing
  <2> QED
    BY <2>2, RecordsGrow
<1>2. CASE receipt[t] # "rolled_back"
  <2>1. /\ t = tx /\ ~failed /\ pc = "journal"
        /\ UNCHANGED <<dest, baseline, slipped>>
    BY <1>2, ReceiptsStep
  <2> QED
    BY <2>1 DEF InstallInv, RollbackClean
<1> QED
  BY <1>1, <1>2

LEMMA RollbackCleanStep ==
  ASSUME InstallTypes, InstallInv, [Next]_vars
  PROVE  RollbackClean'
<1> /\ dest \in [Files -> Contents] /\ recorded \subseteq Files
    /\ slipped \in [Transactions -> SUBSET (0 .. NFiles)]
  BY DEF InstallTypes, InstallTypeOK
<1> RollbackClean /\ RecordsInStep /\ WrittenByConsumed
  BY DEF InstallInv
<1>1. ASSUME Unlocked
      PROVE  RollbackClean'
  BY <1>1, UnlockedRests
<1>2. CASE \/ UNCHANGED vars
           \/ \E t \in Transactions : Issue(t)
           \/ \E r \in Runs, t \in Transactions : Check(r, t)
  BY <1>2 DEF vars, Issue, Check, RollbackClean
<1>3. ASSUME NEW r \in Runs, Lock(r)
      PROVE  RollbackClean'
  <2>1. CASE pc' = pc /\ tx' = tx
    BY <1>3, <2>1 DEF Lock, RollbackClean
  <2>2. CASE holder = None /\ Unused(checked[r]) /\ tx' = checked[r] /\ pc' = "consume"
    <3>1. checked[r] \in Transactions \/ checked[r] = None
      BY DEF InstallTypes, InstallTypeOK
    <3>2. \A f \in Files : dest'[f] # tx'
      BY <1>3, <2>2, <3>1 DEF Lock, Unused, WrittenByConsumed
    <3> QED
      BY <2>2, <3>2 DEF RollbackClean
  <2> QED
    BY <1>3, <2>1, <2>2 DEF Lock
<1>4. ASSUME NEW o \in Outcomes, NEW changed \in BOOLEAN, Consume(o, changed)
      PROVE  RollbackClean'
  <2>1. pc = "consume" /\ tx \in Transactions /\ tx \notin consumed
    BY <1>4, StepsHaveTransaction DEF Consume, RecordsInStep
  <2>2. dest' = dest /\ tx' = tx
    BY <1>4 DEF Consume
  <2>3. pc' \in {"install", "failed"}
    BY <1>4 DEF Consume, Caught
  <2> QED
    BY <2>1, <2>2, <2>3 DEF RollbackClean, WrittenByConsumed
<1>5. ASSUME NEW o \in Outcomes, InstallFile(o)
      PROVE  RollbackClean'
  <2>1. /\ pc = "install" /\ tx \in Transactions /\ at \in Files /\ tx' = tx
        /\ pc' \in {"install", "failed", "reload"}
    BY <1>5, StepsHaveTransaction DEF InstallFile, Caught, InstallTypes, InAttempt
  <2>2. \A f \in Files : dest[f] = tx => f \in recorded \cup slipped[tx]
    BY <2>1 DEF RollbackClean
  <2>3. CASE o = "before"
    <3>1. dest' = dest /\ recorded' = recorded /\ slipped' = slipped
      BY <1>5, <2>3 DEF InstallFile
    <3> QED
      BY <2>1, <2>2, <3>1 DEF RollbackClean
  <2>4. CASE o = "done"
    <3>1. dest' = [dest EXCEPT ![at] = tx] /\ recorded' = recorded \cup {at} /\ slipped' = slipped
      BY <1>5, <2>4 DEF InstallFile
    <3> QED
      BY <2>1, <2>2, <3>1 DEF RollbackClean
  <2>5. CASE o = "after"
    <3>1. /\ dest' = [dest EXCEPT ![at] = tx] /\ recorded' = recorded
          /\ slipped' = [slipped EXCEPT ![tx] = @ \cup {at}]
      BY <1>5, <2>5 DEF InstallFile
    <3> QED
      BY <2>1, <2>2, <3>1 DEF RollbackClean
  <2> QED
    BY <2>3, <2>4, <2>5 DEF Outcomes
<1>6. ASSUME NEW o \in Outcomes, WriteReceipt(o)
      PROVE  RollbackClean'
  <2>1. CASE o = "done"
    BY <1>1, <1>6, <2>1 DEF WriteReceipt
  <2>2. CASE o # "done"
    <3>1. /\ pc = "receipt" /\ pc' = "failed" /\ tx \in Transactions /\ tx' = tx
          /\ dest' = dest /\ recorded' = recorded
      BY <1>6, <2>2, StepsHaveTransaction DEF WriteReceipt, Caught
    <3>2. slipped[tx] \subseteq slipped'[tx]
      BY <3>1, RecordsGrow
    <3> QED
      BY <3>1, <3>2 DEF RollbackClean
  <2> QED
    BY <2>1, <2>2
<1>7. ASSUME NEW o \in Outcomes, RollbackFile(o)
      PROVE  RollbackClean'
  <2>1. /\ pc = "remove" /\ tx \in Transactions /\ at \in Files /\ tx' = tx
        /\ recorded' = recorded /\ slipped' = slipped
        /\ (at' = at - 1 /\ pc' = "remove") \/ pc' = "unload"
    BY <1>7, StepsHaveTransaction DEF RollbackFile, InstallTypes, InAttempt
  <2>2. \A f \in Files : dest'[f] = tx => dest[f] = tx
    BY <2>1, FilesStep DEF WrittenByConsumed
  <2>3. ~failed' => ~failed /\ o = "done"
    BY <1>7, Zenon DEF RollbackFile
  <2>4. at \in recorded /\ o = "done" => dest'[at] # tx
    BY <1>7, <2>1 DEF RollbackFile, WrittenByConsumed
  <2>5. ~failed' /\ dest'[at] = tx => at \in slipped[tx]
    BY <2>1, <2>2, <2>3, <2>4 DEF RollbackClean
  <2>6. pc' = "remove" \/ at = 1
    BY <1>7, <2>1 DEF RollbackFile
  <2>7. ~failed' => \A f \in Files : f > at - 1 /\ dest'[f] = tx => f \in slipped[tx]
    BY <2>1, <2>2, <2>3, <2>5 DEF RollbackClean
  <2> QED
    BY <2>1, <2>2, <2>6, <2>7 DEF RollbackClean
<1>8. ASSUME NEW o \in Outcomes, Journal(o)
      PROVE  RollbackClean'
  BY <1>1, <1>8 DEF Journal
<1>9. ASSUME NEW c \in Commands, Reload(c) \/ Verify(c)
      PROVE  RollbackClean'
  <2>1. pc \in {"reload", "verify"}
    BY <1>9 DEF Reload, Verify
  <2> QED
    BY <1>1, <1>9, <2>1, CommandCases DEF RollbackClean
<1>10. ASSUME NEW c \in Commands, HandleFailure(c)
       PROVE  RollbackClean'
  <2>1. pc = "failed"
    BY <1>10 DEF HandleFailure
  <2> QED
    BY <1>1, <1>10, <2>1, HandleFailureCases DEF RollbackClean
<1>11. ASSUME NEW c \in Commands, RollbackCommand(c)
       PROVE  RollbackClean'
  <2>1. CASE Unlocked
    BY <1>1, <2>1
  <2>2. CASE ~Unlocked
    <3>1. /\ pc \in {"unload", "confirm"} /\ pc' \in {"confirm", "journal"}
          /\ UNCHANGED <<dest, tx, recorded, slipped>>
      BY <1>11, <2>2, RollbackCommandCases
    <3>2. ~failed' => ~failed
      BY <1>11, <2>2, Zenon DEF RollbackCommand
    <3> QED
      BY <3>1, <3>2 DEF RollbackClean
  <2> QED
    BY <2>1, <2>2
<1>12. CASE Kill
  BY <1>1, <1>12 DEF Kill
<1> QED
  BY <1>2, <1>3, <1>4, <1>5, <1>6, <1>7, <1>8, <1>9, <1>10, <1>11, <1>12 DEF Next

LEMMA InstallInvStep ==
  ASSUME InstallTypes, InstallInv, [Next]_vars
  PROVE  InstallInv'
BY RecordsStep, WrittenByConsumedStep, BackupsCleanStep, RollbackCleanStep, RolledBackStep
DEF InstallInv

THEOREM InstallInvariant == Spec => [](InstallTypes /\ InstallInv)
<1>1. Init => InstallTypes /\ InstallInv
  BY InstallTypesInit, InstallInvInit
<1>2. InstallTypes /\ InstallInv /\ [Next]_vars => (InstallTypes /\ InstallInv)'
  BY InstallTypesStep, InstallInvStep
<1> QED
  BY <1>1, <1>2, PTL DEF Spec

\* After a receipt that says "rolled_back" nothing of the transaction is left,
\* except files whose rename took effect although atomic_install raised
\* (rollback_installation).
THEOREM RollbackLeavesNothing == Spec => []RolledBackLeavesNothing
<1>1. InstallInv => RolledBackLeavesNothing
  BY DEF InstallInv
<1> QED
  BY <1>1, InstallInvariant, PTL

-----------------------------------------------------------------------------
(* The last receipt.                                                       *)

\* The last attempt while it is at work: what it has neither recorded nor let
\* slip is as it met it, and what the rollback has passed is as backed up.
OpenTrue ==
  tx # None /\ last = tx =>
    /\ \A f \in Files : f \notin recorded /\ f \notin slipped[tx] => dest[f] = opened[f]
    /\ pc = "remove" /\ ~failed =>
         \A f \in recorded : f > at => dest[f] = baseline[tx][f]
    /\ pc \in {"unload", "confirm", "journal"} /\ ~failed =>
         \A f \in recorded : dest[f] = baseline[tx][f]
    /\ pc = "receipt" => \A f \in Files : dest[f] = tx

\* The last attempt once it is over, also when another has the lock.
SettledTrue ==
  last # None /\ last # tx =>
    /\ receipt[last] = "installed" => 0 \in slipped[last] \/ \A f \in Files : dest[f] = last
    /\ receipt[last] = "rolled_back" =>
         \A f \in Files \ slipped[last] : dest[f] \in {baseline[last][f], opened[f]}

LastTrue == OpenTrue /\ SettledTrue

\* Which actions change the history of the last attempt.
LEMMA HistoryStep ==
  ASSUME InstallTypes, InstallInv, [Next]_vars
  PROVE  \/ last' = last /\ opened' = opened
         \/ /\ last' = tx /\ tx' = tx /\ tx \in Transactions /\ recorded' = {}
            /\ opened' = dest /\ dest' = dest /\ pc' \in {"install", "failed"}
<1>1. ASSUME NEW o \in Outcomes, NEW changed \in BOOLEAN, Consume(o, changed)
      PROVE  \/ last' = last /\ opened' = opened
             \/ /\ last' = tx /\ tx' = tx /\ tx \in Transactions /\ recorded' = {}
                /\ opened' = dest /\ dest' = dest /\ pc' \in {"install", "failed"}
  <2>1. pc = "consume" /\ tx \in Transactions /\ tx \notin consumed /\ recorded = {}
    BY <1>1, StepsHaveTransaction DEF Consume, InstallInv, RecordsInStep
  <2> QED
    BY <1>1, <2>1 DEF Consume, Caught
<1>2. ASSUME NEW r \in Runs, Lock(r)
      PROVE  last' = last /\ opened' = opened
  BY <1>2 DEF Lock
<1>3. ASSUME NEW c \in Commands, Reload(c) \/ Verify(c) \/ HandleFailure(c) \/ RollbackCommand(c)
      PROVE  last' = last /\ opened' = opened
  BY <1>3, CommandCases, HandleFailureCases, RollbackCommandCases
<1>4. ASSUME NEW o \in Outcomes, InstallFile(o) \/ WriteReceipt(o) \/ RollbackFile(o) \/ Journal(o)
      PROVE  last' = last /\ opened' = opened
  BY <1>4 DEF InstallFile, WriteReceipt, RollbackFile, Journal
<1>5. CASE \/ UNCHANGED vars \/ Kill
           \/ \E t \in Transactions : Issue(t) \/ \E r \in Runs : Check(r, t)
  BY <1>5 DEF vars, Kill, Issue, Check
<1> QED
  BY <1>1, <1>2, <1>3, <1>4, <1>5 DEF Next

LEMMA OpenTrueStep ==
  ASSUME InstallTypes, InstallInv, OpenTrue, [Next]_vars
  PROVE  OpenTrue'
<1> SUFFICES ASSUME tx' # None, last' = tx'
             PROVE  OpenTrue'
  BY DEF OpenTrue
<1> /\ dest \in [Files -> Contents] /\ opened \in [Files -> Contents] /\ recorded \subseteq Files
    /\ slipped \in [Transactions -> SUBSET (0 .. NFiles)]
    /\ last \in consumed \cup {None}
  BY DEF InstallTypes, InstallTypeOK
<1>1. CASE ~(last' = last /\ opened' = opened)
  BY <1>1, HistoryStep DEF OpenTrue
<1>2. CASE last' = last /\ opened' = opened
  <2>1. last = tx /\ tx' = tx /\ tx \in Transactions /\ tx \in consumed
    BY <1>2, TransactionStep DEF InstallTypes, InstallTypeOK
  <2>2. slipped[tx] \subseteq slipped'[tx]
    BY <2>1, RecordsGrow
  <2>3. /\ \A f \in Files : f \notin recorded /\ f \notin slipped[tx] => dest[f] = opened[f]
        /\ pc = "remove" /\ ~failed =>
             \A f \in recorded : f > at => dest[f] = baseline[tx][f]
        /\ pc \in {"unload", "confirm", "journal"} /\ ~failed =>
             \A f \in recorded : dest[f] = baseline[tx][f]
        /\ pc = "receipt" => \A f \in Files : dest[f] = tx
    BY <2>1 DEF OpenTrue
  <2>4. ~Unlocked
    BY <2>1 DEF Unlocked
  <2>5. baseline'[tx] = baseline[tx]
    BY <2>1, BackupsStep
  <2>6. CASE \/ UNCHANGED vars
             \/ \E r \in Runs, t \in Transactions : Check(r, t)
    BY <1>2, <2>1, <2>2, <2>3, <2>5, <2>6 DEF vars, Check, OpenTrue
  <2>7. ASSUME NEW t \in Transactions, Issue(t)
        PROVE  FALSE
    BY <2>1, <2>7 DEF Issue, InstallTypes, InAttempt
  <2>8. ASSUME NEW r \in Runs, Lock(r)
        PROVE  OpenTrue'
    <3>1. holder # None
      BY <2>1 DEF InstallTypes, InAttempt
    <3> QED
      BY <1>2, <2>1, <2>2, <2>3, <2>5, <2>8, <3>1 DEF Lock, OpenTrue
  <2>9. ASSUME NEW o \in Outcomes, NEW changed \in BOOLEAN, Consume(o, changed)
        PROVE  FALSE
    BY <2>1, <2>9 DEF Consume, InstallInv, RecordsInStep
  <2>10. ASSUME NEW o \in Outcomes, InstallFile(o)
         PROVE  OpenTrue'
    <3>1. pc = "install" /\ at \in Files /\ pc' \in {"install", "failed", "reload"}
      BY <2>10 DEF InstallFile, Caught, InstallTypes, InAttempt
    <3>2. CASE o = "before"
      <4>1. dest' = dest /\ recorded' = recorded
        BY <2>10, <3>2 DEF InstallFile
      <4> QED
        BY <1>2, <2>1, <2>2, <2>3, <3>1, <4>1 DEF OpenTrue
    <3>3. CASE o = "done"
      <4>1. dest' = [dest EXCEPT ![at] = tx] /\ recorded' = recorded \cup {at}
        BY <2>10, <3>3 DEF InstallFile
      <4> QED
        BY <1>2, <2>1, <2>2, <2>3, <3>1, <4>1 DEF OpenTrue
    <3>4. CASE o = "after"
      <4>1. /\ dest' = [dest EXCEPT ![at] = tx] /\ recorded' = recorded
            /\ slipped'[tx] = slipped[tx] \cup {at} /\ pc' = "failed"
        BY <2>1, <2>10, <3>4 DEF InstallFile, Caught
      <4> QED
        BY <1>2, <2>1, <2>3, <3>1, <4>1 DEF OpenTrue
    <3> QED
      BY <3>2, <3>3, <3>4 DEF Outcomes
  <2>11. ASSUME NEW o \in Outcomes, WriteReceipt(o)
         PROVE  OpenTrue'
    <3>1. o # "done" /\ pc' = "failed" /\ dest' = dest /\ recorded' = recorded
      BY <2>4, <2>11 DEF WriteReceipt, Caught
    <3> QED
      BY <1>2, <2>1, <2>2, <2>3, <3>1 DEF OpenTrue
  <2>12. ASSUME NEW o \in Outcomes, RollbackFile(o)
         PROVE  OpenTrue'
    <3>1. /\ pc = "remove" /\ at \in Files /\ recorded' = recorded
          /\ (at' = at - 1 /\ pc' = "remove") \/ (at = 1 /\ pc' = "unload")
      BY <2>12 DEF RollbackFile, InstallTypes, InAttempt
    <3>2. ~failed' => ~failed /\ o = "done"
      BY <2>12, Zenon DEF RollbackFile
    <3>3. dest' = dest \/ (at \in recorded /\ dest' = [dest EXCEPT ![at] = baseline[tx][at]])
      BY <2>12 DEF RollbackFile
    <3>4. at \in recorded /\ o = "done" => dest' = [dest EXCEPT ![at] = baseline[tx][at]]
      BY <2>12 DEF RollbackFile
    <3>5. \A f \in Files : f \notin recorded' /\ f \notin slipped'[tx] => dest'[f] = opened'[f]
      BY <1>2, <2>2, <2>3, <3>1, <3>3
    <3>6. ~failed' => \A f \in recorded : f > at - 1 => dest'[f] = baseline[tx][f]
      BY <2>3, <3>1, <3>2, <3>3, <3>4
    <3> QED
      BY <2>1, <2>5, <3>1, <3>5, <3>6 DEF OpenTrue
  <2>13. ASSUME NEW o \in Outcomes, Journal(o)
         PROVE  FALSE
    BY <2>4, <2>13 DEF Journal
  <2>14. ASSUME NEW c \in Commands, Reload(c)
         PROVE  OpenTrue'
    <3>1. /\ dest' = dest /\ recorded' = recorded
          /\ pc' \in {"verify", "failed"}
      BY <2>4, <2>14 DEF Reload, Command, Caught
    <3> QED
      BY <1>2, <2>1, <2>2, <2>3, <3>1 DEF OpenTrue
  <2>15. ASSUME NEW c \in Commands, Verify(c)
         PROVE  OpenTrue'
    <3>1. /\ dest' = dest /\ recorded' = recorded
          /\ pc' = "failed" \/ (pc' = "receipt" /\ c = "done")
      BY <2>4, <2>15 DEF Verify, Command, Caught
    <3>2. c = "done" => \A f \in Files : dest[f] = tx
      BY <2>15 DEF Verify
    <3> QED
      BY <1>2, <2>1, <2>2, <2>3, <3>1, <3>2 DEF OpenTrue
  <2>16. ASSUME NEW c \in Commands, HandleFailure(c)
         PROVE  OpenTrue'
    <3>1. /\ dest' = dest /\ recorded' = recorded
          /\ (pc' = "journal" /\ recorded = {}) \/ (pc' = "remove" /\ at' = NFiles)
      BY <2>4, <2>16, HandleFailureCases
    <3>2. \A f \in recorded : ~(f > NFiles)
      OBVIOUS
    <3> QED
      BY <1>2, <2>1, <2>2, <2>3, <3>1, <3>2 DEF OpenTrue
  <2>17. ASSUME NEW c \in Commands, RollbackCommand(c)
         PROVE  OpenTrue'
    <3>1. /\ pc \in {"unload", "confirm"} /\ pc' \in {"confirm", "journal"}
          /\ dest' = dest /\ recorded' = recorded
      BY <2>4, <2>17, RollbackCommandCases
    <3>2. ~failed' => ~failed
      BY <2>4, <2>17, Zenon DEF RollbackCommand
    <3> QED
      BY <1>2, <2>1, <2>2, <2>3, <2>5, <3>1, <3>2 DEF OpenTrue
  <2>18. CASE Kill
    BY <2>4, <2>18 DEF Kill
  <2> QED
    BY <2>6, <2>7, <2>8, <2>9, <2>10, <2>11, <2>12, <2>13, <2>14, <2>15, <2>16, <2>17,
      <2>18 DEF Next
<1> QED
  BY <1>1, <1>2

\* A receipt that turns to "installed" is written after the verification.
LEMMA InstalledStep ==
  ASSUME InstallTypes, [Next]_vars, NEW t \in Transactions,
         receipt'[t] = "installed", receipt[t] # "installed"
  PROVE  t = tx /\ pc = "receipt" /\ dest' = dest
<1> receipt \in [Transactions -> {"none", "installed", "rolled_back", "rollback_failed"}]
  BY DEF InstallTypes, InstallTypeOK
<1>1. ASSUME NEW r \in Runs, Lock(r)
      PROVE  FALSE
  BY <1>1 DEF Lock
<1>2. ASSUME NEW c \in Commands, Reload(c) \/ Verify(c) \/ HandleFailure(c) \/ RollbackCommand(c)
      PROVE  FALSE
  BY <1>2, CommandCases, HandleFailureCases, RollbackCommandCases
<1>3. ASSUME NEW o \in Outcomes, InstallFile(o) \/ RollbackFile(o)
      PROVE  FALSE
  BY <1>3 DEF InstallFile, RollbackFile
<1>4. ASSUME NEW o \in Outcomes, WriteReceipt(o)
      PROVE  t = tx /\ pc = "receipt" /\ dest' = dest
  <2>1. receipt' = receipt \/ receipt' = [receipt EXCEPT ![tx] = "installed"]
    BY <1>4 DEF WriteReceipt
  <2>2. pc = "receipt" /\ dest' = dest
    BY <1>4 DEF WriteReceipt
  <2> QED
    BY <2>1, <2>2
<1>5. ASSUME NEW o \in Outcomes, Journal(o)
      PROVE  FALSE
  <2>1. \/ receipt' = receipt
        \/ receipt' = [receipt EXCEPT ![tx] = "rollback_failed"]
        \/ receipt' = [receipt EXCEPT ![tx] = "rolled_back"]
    BY <1>5, Zenon DEF Journal
  <2> QED
    BY <2>1
<1>6. CASE \/ UNCHANGED vars \/ Kill
           \/ \E u \in Transactions : Issue(u) \/ \E r \in Runs : Check(r, u)
           \/ \E o \in Outcomes, changed \in BOOLEAN : Consume(o, changed)
  BY <1>6 DEF vars, Kill, Issue, Check, Consume
<1> QED
  BY <1>1, <1>2, <1>3, <1>4, <1>5, <1>6 DEF Next

LEMMA IssuedBackupsStay ==
  ASSUME InstallTypes, [Next]_vars, NEW u \in issued
  PROVE  baseline'[u] = baseline[u]
<1>1. ASSUME NEW t \in Transactions, Issue(t)
      PROVE  baseline'[u] = baseline[u]
  BY <1>1 DEF Issue, InstallTypes, InstallTypeOK
<1> QED
  BY <1>1, BackupsChangeSeldom

LEMMA SettledTrueStep ==
  ASSUME InstallTypes, InstallInv, LastTrue, [Next]_vars
  PROVE  SettledTrue'
<1> SUFFICES ASSUME last' # None, last' # tx'
             PROVE  /\ receipt'[last'] = "installed" =>
                         0 \in slipped'[last'] \/ \A f \in Files : dest'[f] = last'
                    /\ receipt'[last'] = "rolled_back" =>
                         \A f \in Files \ slipped'[last'] :
                           dest'[f] \in {baseline'[last'][f], opened'[f]}
  BY DEF SettledTrue
<1>1. last' = last /\ opened' = opened
  BY HistoryStep
<1>2. last \in consumed /\ last \in issued /\ last \in Transactions
  BY <1>1 DEF InstallTypes, InstallTypeOK
<1>3. baseline'[last] = baseline[last] /\ slipped[last] \subseteq slipped'[last]
  BY <1>1, <1>2, IssuedBackupsStay, RecordsGrow
<1>4. CASE last # tx
  <2>1. receipt'[last] = receipt[last] /\ slipped'[last] = slipped[last]
    BY <1>2, <1>4, RecordsGrow
  <2>2. \A o \in Outcomes : ~InstallFile(o) /\ ~RollbackFile(o)
    BY <1>4 DEF InstallFile, RollbackFile, InstallInv, RecordsInStep
  <2>3. dest' = dest
    BY <2>2, FilesChangeSeldom
  <2> QED
    BY <1>1, <1>2, <1>3, <1>4, <2>1, <2>3 DEF LastTrue, SettledTrue
<1>5. CASE last = tx
  <2>1. /\ receipt[last] \in {"none", "installed"}
        /\ receipt[last] = "installed" => 0 \in slipped[last]
        /\ tx # None
    BY <1>2, <1>5 DEF InstallInv, RecordsInStep, InstallTypes, InstallTypeOK, InAttempt
  <2>2. CASE receipt'[last] = "installed"
    <3>1. CASE receipt[last] = "installed"
      BY <1>1, <1>3, <2>1, <2>2, <3>1
    <3>2. CASE receipt[last] # "installed"
      <4>1. pc = "receipt" /\ dest' = dest
        BY <1>2, <2>2, <3>2, InstalledStep
      <4>2. \A f \in Files : dest[f] = last
        BY <1>5, <2>1, <4>1 DEF LastTrue, OpenTrue
      <4> QED
        BY <1>1, <2>2, <4>1, <4>2
    <3> QED
      BY <3>1, <3>2
  <2>3. CASE receipt'[last] = "rolled_back"
    <3>1. pc = "journal" /\ ~failed /\ dest' = dest
      BY <1>2, <2>1, <2>3, ReceiptsStep
    <3>2. \A f \in Files \ slipped[last] : dest[f] \in {baseline[last][f], opened[f]}
      BY <1>5, <2>1, <3>1 DEF LastTrue, OpenTrue
    <3> QED
      BY <1>1, <1>3, <2>3, <3>1, <3>2
  <2> QED
    BY <1>1, <2>2, <2>3
<1> QED
  BY <1>4, <1>5

\* What the last receipt says of the host is so (rollback_installation and the
\* receipts of execute_transaction).
THEOREM LastReceiptTrue == Spec => []LastReceiptIsTrue
<1>1. Init => LastTrue
  BY DEF Init, LastTrue, OpenTrue, SettledTrue
<1>2. InstallTypes /\ InstallInv /\ LastTrue /\ [Next]_vars => LastTrue'
  BY OpenTrueStep, SettledTrueStep DEF LastTrue
<1>3. InstallTypes /\ LastTrue => LastReceiptIsTrue
  BY DEF InstallTypes, InAttempt, LastTrue, SettledTrue, LastReceiptIsTrue
<1> QED
  BY <1>1, <1>2, <1>3, InstallInvariant, PTL DEF Spec

-----------------------------------------------------------------------------
(* The transaction implements SingleUseAttempt.                            *)

Phase == [t \in Transactions |-> IF t \notin consumed THEN "unused"
                                 ELSE IF t = tx THEN "open" ELSE "closed"]

\* A step inside an attempt may change files and may end it, one outside may
\* not change them.
LEMMA AttemptGoesOn ==
  ASSUME InstallTypes, tx \in consumed, consumed' = consumed, tx' \in {tx, None}
  PROVE  [Attempt!Next]_Attempt!vars
<1>1. tx \in Transactions /\ None \notin consumed
  BY DEF InstallTypes, InstallTypeOK
<1>2. Phase[tx] = "open" /\ \A t \in Transactions : Phase[t] = "open" => t = tx
  BY <1>1 DEF Phase
<1>3. PICK over : over = {tx} \ {tx'}
  OBVIOUS
<1>4. Phase' = [t \in Transactions |-> IF t \in over THEN "closed" ELSE Phase[t]]
  BY <1>1, <1>3 DEF Phase
<1>5. Attempt!Change(over) /\ over \in SUBSET Attempt!Open
  BY <1>1, <1>2, <1>3, <1>4 DEF Phase, Attempt!Change, Attempt!Open
<1> QED
  BY <1>5 DEF Attempt!Next

LEMMA NothingOutside ==
  ASSUME consumed' = consumed, dest' = dest,
         tx' = tx \/ (tx \notin consumed /\ tx' \notin consumed)
  PROVE  [Attempt!Next]_Attempt!vars
<1>1. Phase' = Phase
  BY DEF Phase
<1> QED
  BY <1>1 DEF Phase, Attempt!vars

LEMMA AttemptMayEnd ==
  ASSUME InstallTypes, consumed' = consumed, dest' = dest, tx' \in {tx, None}
  PROVE  [Attempt!Next]_Attempt!vars
<1>0. None \notin consumed
  BY DEF InstallTypes, InstallTypeOK
<1> QED
  BY <1>0, AttemptGoesOn, NothingOutside

LEMMA ConsumingIsBegin ==
  ASSUME InstallTypes, tx \in Transactions, tx \notin consumed,
         consumed' = consumed \cup {tx}, dest' = dest, tx' = tx
  PROVE  [Attempt!Next]_Attempt!vars
<1>1. PICK t \in Transactions : t = tx
  OBVIOUS
<1>2. \A u \in Transactions : Phase[u] # "open"
  BY DEF Phase
<1>3. Phase[t] = "unused" /\ Phase' = [Phase EXCEPT ![t] = "open"]
  BY <1>1 DEF Phase
<1>4. Attempt!Begin(t)
  BY <1>1, <1>2, <1>3 DEF Phase, Attempt!Begin, Attempt!Open
<1> QED
  BY <1>1, <1>4 DEF Attempt!Next

LEMMA InstallRefines ==
  ASSUME InstallTypes, InstallInv, [Next]_vars
  PROVE  [Attempt!Next]_Attempt!vars
<1>1. ASSUME NEW r \in Runs, Lock(r)
      PROVE  [Attempt!Next]_Attempt!vars
  <2>1. consumed' = consumed /\ dest' = dest
    BY <1>1 DEF Lock
  <2>2. tx' = tx \/ (holder = None /\ Unused(checked[r]) /\ tx' = checked[r])
    BY <1>1 DEF Lock
  <2>3. tx' = tx \/ (tx \notin consumed /\ tx' \notin consumed)
    BY <2>2 DEF Unused, InstallTypes, InAttempt, InstallTypeOK
  <2> QED
    BY <2>1, <2>3, NothingOutside
<1>2. ASSUME NEW o \in Outcomes, NEW changed \in BOOLEAN, Consume(o, changed)
      PROVE  [Attempt!Next]_Attempt!vars
  <2>1. /\ tx \in Transactions /\ tx \notin consumed /\ tx' = tx /\ dest' = dest
        /\ consumed' = consumed \/ consumed' = consumed \cup {tx}
    BY <1>2, StepsHaveTransaction DEF Consume, InstallInv, RecordsInStep
  <2> QED
    BY <2>1, ConsumingIsBegin, NothingOutside
<1>3. ASSUME NEW o \in Outcomes, InstallFile(o) \/ RollbackFile(o)
      PROVE  [Attempt!Next]_Attempt!vars
  <2>1. tx \in consumed /\ consumed' = consumed /\ tx' = tx
    BY <1>3 DEF InstallFile, RollbackFile, InstallInv, RecordsInStep
  <2> QED
    BY <2>1, AttemptGoesOn
<1>4. ASSUME NEW o \in Outcomes, WriteReceipt(o) \/ Journal(o)
      PROVE  [Attempt!Next]_Attempt!vars
  <2>1. consumed' = consumed /\ dest' = dest /\ tx' \in {tx, None}
    BY <1>4 DEF WriteReceipt, Journal, Unlocked
  <2> QED
    BY <2>1, AttemptMayEnd
<1>5. ASSUME NEW c \in Commands, Reload(c) \/ Verify(c) \/ HandleFailure(c) \/ RollbackCommand(c)
      PROVE  [Attempt!Next]_Attempt!vars
  <2>1. consumed' = consumed /\ dest' = dest /\ tx' \in {tx, None}
    BY <1>5, CommandCases, HandleFailureCases, RollbackCommandCases DEF Unlocked
  <2> QED
    BY <2>1, AttemptMayEnd
<1>6. CASE Kill
  BY <1>6, AttemptMayEnd DEF Kill, Unlocked
<1>7. CASE UNCHANGED vars \/ \E t \in Transactions : Issue(t) \/ \E r \in Runs : Check(r, t)
  BY <1>7, NothingOutside DEF vars, Issue, Check
<1> QED
  BY <1>1, <1>2, <1>3, <1>4, <1>5, <1>6, <1>7 DEF Next

\* Every transaction is attempted at most once, one at a time, and files change
\* inside an attempt only (atomic_json_exclusive of the consumption, the lock).
THEOREM InstallImplementsSingleUse == Spec => InstallIsSingleUse
<1>1. Init => Attempt!Init
  BY DEF Init, Attempt!Init
<1>2. InstallTypes /\ InstallInv /\ [Next]_vars => [Attempt!Next]_Attempt!vars
  BY InstallRefines
<1> QED
  BY <1>1, <1>2, InstallInvariant, PTL DEF Spec, InstallIsSingleUse, Attempt!Spec
=============================================================================
