------------------------- MODULE InstallTransaction -------------------------
(***************************************************************************)
(* The installation transaction of the controlled read-observe lane        *)
(* (src/watch/observe/controlled-read-observe-install-transaction.py): a   *)
(* run validates the records, the backups and the destinations, takes the  *)
(* lock, consumes its single-use authorization, replaces the files one by  *)
(* one, verifies, and writes a receipt.  OSError and ExecutionError roll   *)
(* back what it recorded as installed; other exceptions pass the handler.  *)
(*                                                                         *)
(* A file's content is named for the transaction that wrote it.  Journals  *)
(* are created with link(2) and files replaced with rename(2), so both are *)
(* there whole or not at all.  Files are numbered in the order of FILE_MAP.*)
(***************************************************************************)
EXTENDS Integers

CONSTANTS Transactions, Runs,
          NFiles,           \* files of FILE_MAP, the unit last
          Preexisting,      \* the files the host has before any installation
          Old, Absent,      \* their content, and that of the others
          Faults,           \* what may go wrong
          None

Files    == 1 .. NFiles
Contents == Transactions \cup {Old, Absent}

ASSUME InstallAssumption ==
  /\ NFiles \in Nat \ {0}
  /\ Preexisting \subseteq Files
  /\ Old \notin Transactions /\ Absent \notin Transactions /\ Old # Absent
  /\ None \notin Transactions \cup Runs

VARIABLES dest,       \* the content of every destination
          issued,     \* transactions with an authorization and a backup manifest
          baseline,   \* what their backups hold of every destination
          consumed,   \* transactions with an authorization consumption record
          receipt,    \* the outcome their receipt names
          checked,    \* the transaction each run has validated before the lock
          holder, tx, \* the run that holds the lock, and its transaction
          pc, at,     \* the step it is in, and the file it is at
          written,    \* consumption_written
          recorded,   \* installed_indices
          unitChanged,
          failed,     \* rollback_installation has noted a failure
          last,       \* history: the last transaction that was consumed,
          opened,     \* the destinations it met under the lock,
          slipped     \* and its writes that took effect and raised (0: the receipt)

recordVars  == <<issued, baseline, consumed, receipt>>
lockVars    == <<checked, holder, tx>>
runVars     == <<written, recorded, unitChanged, failed>>
historyVars == <<last, opened, slipped>>
vars == <<dest, recordVars, lockVars, pc, at, runVars, historyVars>>

Steps == {"idle", "consume", "install", "reload", "verify", "receipt",
          "failed", "remove", "unload", "confirm", "journal"}

\* A step ends well, raises before or after its effect what the handler
\* catches, or raises what it does not: subprocess.TimeoutExpired.
Outcomes == {"done"} \cup (Faults \cap {"before", "after"})
Commands == {"done"} \cup (Faults \cap {"before", "escape"})

InstallTypeOK ==
  /\ dest \in [Files -> Contents]
  /\ issued \subseteq Transactions
  /\ baseline \in [Transactions -> [Files -> Contents]]
  /\ consumed \subseteq issued
  /\ receipt \in [Transactions -> {"none", "installed", "rolled_back", "rollback_failed"}]
  /\ checked \in [Runs -> issued \cup {None}]
  /\ holder \in Runs \cup {None}
  /\ tx \in issued \cup {None}
  /\ pc \in Steps
  /\ at \in 0 .. NFiles
  /\ written \in BOOLEAN
  /\ recorded \subseteq Files
  /\ unitChanged \in BOOLEAN
  /\ failed \in BOOLEAN
  /\ last \in consumed \cup {None}
  /\ opened \in [Files -> Contents]
  /\ slipped \in [Transactions -> SUBSET (0 .. NFiles)]

Before == [f \in Files |-> IF f \in Preexisting THEN Old ELSE Absent]

Init ==
  /\ dest = Before
  /\ issued = {}
  /\ baseline = [t \in Transactions |-> Before]
  /\ consumed = {}
  /\ receipt = [t \in Transactions |-> "none"]
  /\ checked = [r \in Runs |-> None]
  /\ holder = None /\ tx = None /\ pc = "idle" /\ at = 0
  /\ written = FALSE /\ recorded = {} /\ unitChanged = FALSE /\ failed = FALSE
  /\ last = None /\ opened = Before
  /\ slipped = [t \in Transactions |-> {}]

-----------------------------------------------------------------------------
(* Before the lock.                                                        *)

\* The operator prepares a transaction while none is executed: its records,
\* and the verified backup of all destinations.
Issue(t) ==
  /\ holder = None
  /\ t \notin issued
  /\ issued' = issued \cup {t}
  /\ baseline' = [baseline EXCEPT ![t] = dest]
  /\ UNCHANGED <<dest, consumed, receipt, lockVars, pc, at, runVars, historyVars>>

Unused(t) == t \notin consumed /\ receipt[t] = "none"

\* Mutant: a transaction nobody has authorized passes.
CheckUnissued(r, t) ==
  /\ checked[r] = None /\ holder # r
  /\ Unused(t)
  /\ dest = baseline[t]
  /\ checked' = [checked EXCEPT ![r] = t]
  /\ UNCHANGED <<dest, recordVars, holder, tx, pc, at, runVars, historyVars>>

\* execute_transaction up to the lock: destination_state compares every
\* destination with its backup here, and nowhere else.
Check(r, t) ==
  /\ checked[r] = None /\ holder # r
  /\ t \in issued
  /\ Unused(t)
  /\ dest = baseline[t]
  /\ checked' = [checked EXCEPT ![r] = t]
  /\ UNCHANGED <<dest, recordVars, holder, tx, pc, at, runVars, historyVars>>

\* Mutant: the authorization is not consumed before the first file.
LockAndInstall(r) ==
  /\ checked[r] # None
  /\ checked' = [checked EXCEPT ![r] = None]
  /\ holder = None /\ Unused(checked[r])
  /\ holder' = r /\ tx' = checked[r] /\ pc' = "install" /\ at' = 1
  /\ UNCHANGED <<dest, recordVars, runVars, historyVars>>

\* LOCK_NB: a run that meets the lock, or whose authorization has been
\* consumed since, is denied; nothing is rolled back or written for it.
Lock(r) ==
  /\ checked[r] # None
  /\ checked' = [checked EXCEPT ![r] = None]
  /\ \/ /\ holder = None
        /\ Unused(checked[r])
        /\ holder' = r
        /\ tx' = checked[r]
        /\ pc' = "consume"
     \/ /\ holder # None \/ ~Unused(checked[r])
        /\ UNCHANGED <<holder, tx, pc>>
  /\ UNCHANGED <<dest, recordVars, at, runVars, historyVars>>

-----------------------------------------------------------------------------
(* The attempt.                                                            *)

Unlocked ==
  /\ holder' = None /\ tx' = None /\ pc' = "idle" /\ at' = 0
  /\ written' = FALSE /\ recorded' = {} /\ unitChanged' = FALSE /\ failed' = FALSE
  /\ UNCHANGED checked

\* The step's exception is caught.
Caught == pc' = "failed" /\ UNCHANGED at

\* atomic_json_exclusive of the consumption; unit_changed is what the unit's
\* digest says, and matters only when something is installed.
Consume(o, changed) ==
  /\ pc = "consume"
  /\ tx \notin consumed \/ o = "before"
  /\ consumed' = IF o = "before" THEN consumed ELSE consumed \cup {tx}
  /\ last' = IF o = "before" THEN last ELSE tx
  /\ opened' = IF o = "before" THEN opened ELSE dest
  /\ written' = (o = "done")
  /\ unitChanged' = (o = "done" /\ changed)
  /\ IF o = "done" THEN pc' = "install" /\ at' = 1 ELSE Caught
  /\ UNCHANGED <<dest, issued, baseline, receipt, lockVars, recorded, failed, slipped>>

\* atomic_install, and the index is recorded once it has returned.
InstallFile(o) ==
  /\ pc = "install"
  /\ dest' = IF o = "before" THEN dest ELSE [dest EXCEPT ![at] = tx]
  /\ recorded' = IF o = "done" THEN recorded \cup {at} ELSE recorded
  /\ slipped' = IF o = "after" THEN [slipped EXCEPT ![tx] = @ \cup {at}] ELSE slipped
  /\ IF o # "done" THEN Caught
     ELSE IF at < NFiles THEN pc' = "install" /\ at' = at + 1
     ELSE pc' = "reload" /\ at' = 0
  /\ UNCHANGED <<recordVars, lockVars, written, unitChanged, failed, last, opened>>

\* A command of the attempt: TimeoutExpired is neither OSError nor
\* ExecutionError, so it leaves by the finally clause alone.
Command(c, next) ==
  /\ IF c = "escape" THEN Unlocked
     ELSE /\ IF c = "done" THEN pc' = next /\ at' = 0 ELSE Caught
          /\ UNCHANGED <<lockVars, runVars>>
  /\ UNCHANGED <<dest, recordVars, historyVars>>

\* daemon-reload only if the unit changed.
Reload(c) ==
  /\ pc = "reload"
  /\ c = "done" \/ unitChanged
  /\ Command(c, "verify")

\* verify_installed, systemd-analyze, assert_service_safe, the offline
\* regressions and the snapshots of what must not have changed.
Verify(c) ==
  /\ pc = "verify"
  /\ c = "done" => \A f \in Files : dest[f] = tx
  /\ Command(c, "receipt")

WriteReceipt(o) ==
  /\ pc = "receipt"
  /\ receipt' = IF o = "before" THEN receipt ELSE [receipt EXCEPT ![tx] = "installed"]
  /\ slipped' = IF o = "after" THEN [slipped EXCEPT ![tx] = @ \cup {0}] ELSE slipped
  /\ IF o = "done" THEN Unlocked ELSE Caught /\ UNCHANGED <<lockVars, runVars>>
  /\ UNCHANGED <<dest, issued, baseline, consumed, last, opened>>

-----------------------------------------------------------------------------
(* The handler: rollback_installation and the failure receipt.             *)

\* A rollback begins when an index is recorded: it asks whether the service
\* is active and stops it if so; that command may fail or escape as well.
HandleFailure(c) ==
  /\ pc = "failed"
  /\ IF recorded = {} THEN c = "done" /\ pc' = "journal" /\ at' = 0 /\ UNCHANGED <<lockVars, runVars>>
     ELSE IF c = "escape" THEN Unlocked
     ELSE /\ pc' = "remove" /\ at' = NFiles
          /\ failed' = (failed \/ c # "done")
          /\ UNCHANGED <<lockVars, written, recorded, unitChanged>>
  /\ UNCHANGED <<dest, recordVars, historyVars>>

\* Mutant: a file that cannot be restored is passed over in silence.
RollbackQuietly(o) ==
  /\ pc = "remove"
  /\ dest' = IF at \in recorded /\ o # "before" THEN [dest EXCEPT ![at] = baseline[tx][at]] ELSE dest
  /\ IF at > 1 THEN pc' = "remove" /\ at' = at - 1 ELSE pc' = "unload" /\ at' = 0
  /\ UNCHANGED <<recordVars, lockVars, written, recorded, unitChanged, failed, historyVars>>

\* Mutant: the range of the rollback ends one file early.
RollbackShort(o) ==
  /\ pc = "remove"
  /\ at \in recorded \/ o = "done"
  /\ dest' = IF at \in recorded /\ o # "before" THEN [dest EXCEPT ![at] = baseline[tx][at]] ELSE dest
  /\ failed' = (failed \/ o # "done")
  /\ IF at > 2 THEN pc' = "remove" /\ at' = at - 1 ELSE pc' = "unload" /\ at' = 0
  /\ UNCHANGED <<recordVars, lockVars, written, recorded, unitChanged, historyVars>>

\* From the last file to the first, those that are recorded: the backup is
\* installed again, or the file that was not there is removed.
RollbackFile(o) ==
  /\ pc = "remove"
  /\ at \in recorded \/ o = "done"
  /\ dest' = IF at \in recorded /\ o # "before" THEN [dest EXCEPT ![at] = baseline[tx][at]] ELSE dest
  /\ failed' = (failed \/ o # "done")
  /\ IF at > 1 THEN pc' = "remove" /\ at' = at - 1 ELSE pc' = "unload" /\ at' = 0
  /\ UNCHANGED <<recordVars, lockVars, written, recorded, unitChanged, historyVars>>

\* The daemon-reload if the unit changed, then assert_service_safe.
RollbackCommand(c) ==
  /\ pc \in {"unload", "confirm"}
  /\ c = "done" \/ pc = "confirm" \/ unitChanged
  /\ IF c = "escape" THEN Unlocked
     ELSE /\ pc' = IF pc = "unload" THEN "confirm" ELSE "journal"
          /\ failed' = (failed \/ c # "done")
          /\ UNCHANGED <<lockVars, at, written, recorded, unitChanged>>
  /\ UNCHANGED <<dest, recordVars, historyVars>>

\* The failure receipt, if the authorization was consumed and no receipt is
\* there; whether its writing raises makes no difference to what follows.
Journal(o) ==
  /\ pc = "journal"
  /\ receipt' = IF written /\ receipt[tx] = "none" /\ o # "before"
                THEN [receipt EXCEPT ![tx] = IF failed THEN "rollback_failed" ELSE "rolled_back"]
                ELSE receipt
  /\ Unlocked
  /\ UNCHANGED <<dest, issued, baseline, consumed, historyVars>>

\* The process is killed or the host loses power.
Kill ==
  /\ "kill" \in Faults
  /\ holder # None
  /\ Unlocked
  /\ UNCHANGED <<dest, recordVars, historyVars>>

Next ==
  \/ \E t \in Transactions : Issue(t)
  \/ \E r \in Runs, t \in Transactions : Check(r, t)
  \/ \E r \in Runs : Lock(r)
  \/ \E o \in Outcomes, changed \in BOOLEAN : Consume(o, changed)
  \/ \E o \in Outcomes : InstallFile(o) \/ WriteReceipt(o) \/ RollbackFile(o) \/ Journal(o)
  \/ \E c \in Commands : Reload(c) \/ Verify(c) \/ HandleFailure(c) \/ RollbackCommand(c)
  \/ Kill

Spec == Init /\ [][Next]_vars

-----------------------------------------------------------------------------
(* Properties.                                                             *)

\* A transaction whose receipt says it was rolled back has none of its files
\* on the host, then and for good, whatever was installed, killed or restored
\* in the meantime.  The exception is a file whose rename took effect before
\* its atomic_install raised: it is not in installed_indices, stays, and the
\* receipt says ROLLED_BACK all the same.
RolledBackLeavesNothing ==
  \A t \in Transactions, f \in Files :
    receipt[t] = "rolled_back" /\ dest[f] = t => f \in slipped[t]

\* What the receipt of the last attempt says is so.  INSTALLED_DORMANT: all
\* files are the transaction's, unless the receipt is one that was linked
\* before the fsync of its directory raised; the handler then rolls back under
\* a receipt it does not replace.  ROLLED_BACK: each file is what the backup
\* holds or what the attempt met under the lock, save one that slipped.  The
\* two are the same unless another attempt ended between the comparison of the
\* destinations and the lock: then the receipt covers a mixture of them.
LastReceiptIsTrue ==
  holder = None /\ last # None =>
    /\ receipt[last] = "installed" => 0 \in slipped[last] \/ \A f \in Files : dest[f] = last
    /\ receipt[last] = "rolled_back" =>
         \A f \in Files \ slipped[last] : dest[f] \in {baseline[last][f], opened[f]}

\* Every transaction is attempted at most once, one at a time, and files
\* change inside an attempt only.
Attempt == INSTANCE SingleUseAttempt WITH
  Alone <- TRUE,
  phase <- [t \in Transactions |-> IF t \notin consumed THEN "unused"
                                   ELSE IF t = tx THEN "open" ELSE "closed"],
  world <- dest

InstallIsSingleUse == Attempt!Spec

\* POST239-K21D-INSTALLATION-TRANSACTION-BLUEPRINT.md: "Any failure after the
\* first destination changes triggers rollback within the same authorized
\* transaction": an attempt that is over and changed a file has a receipt.
FailureIsSettled ==
  \A t \in consumed, f \in Files :
    dest[f] = t /\ t # tx => receipt[t] # "none"
=============================================================================
