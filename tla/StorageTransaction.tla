------------------------- MODULE StorageTransaction -------------------------
(***************************************************************************)
(* The scoped NFS storage transaction of K21D                              *)
(* (src/watch/storage/post239-k21d-scoped-nfs-storage.py): a run checks    *)
(* the records, takes a lock, checks them again, backs up, consumes its    *)
(* single-use authorization, copies records to NFS, installs, enables and  *)
(* starts the mount units, and writes a receipt.  Any exception before the *)
(* end rolls the units back.                                               *)
(*                                                                         *)
(* A step may raise before or after its effect (an error of fsync, of a    *)
(* digest or of a command comes after the change it is about).  Records    *)
(* are created with link(2), so they are there whole or not at all.  Units *)
(* and objects are numbered in the order the transaction lists them.       *)
(*                                                                         *)
(* What a run has asked for may outlive the step that asked: systemctl     *)
(* loses its manager or is interrupted while the job goes on (a hard NFS   *)
(* mount takes its time), and a kill of the run leaves its child, the NFS  *)
(* preparer or systemctl, to finish alone.  A query that fails reads as    *)
(* "inactive", "not enabled" or "not mounted".                             *)
(***************************************************************************)
EXTENDS Integers

CONSTANTS Transactions, Runs,
          NUnits,      \* mount units of a transaction
          NObjects,    \* preserved objects it copies
          QueriesFail, \* systemctl and findmnt may fail to answer
          None

Units   == 1 .. NUnits
Objects == 1 .. NObjects

ASSUME StorageAssumption ==
  /\ NUnits \in Nat \ {0}
  /\ NObjects \in Nat \ {0}
  /\ QueriesFail \in BOOLEAN
  /\ None \notin Transactions \cup Runs

VARIABLES consumed,   \* transactions with an authorization consumption record
          backup,     \* the backup directory and binding of each transaction
          receipt,    \* the outcome its receipt names
          unitFile, enabled, mounted,   \* sets of units
          late,       \* commands under way that no run waits for
          slipped,    \* units that are up or enabled behind a rollback's back
          copies,     \* the transaction that made each NFS object
          checked,    \* the transaction each run has checked before the lock
          holder,     \* the run that holds the lock
          tx,         \* its transaction
          pc, at,     \* the step it is in, and the unit or object it is at
          backed,     \* backup_record is not None
          installed, enabledBy,   \* runtime["installed_units"], ["enabled_units"]
          removed, failed         \* removed and failures of rollback_units

recordVars == <<consumed, backup, receipt>>
unitVars   == <<unitFile, enabled, mounted>>
lateVars   == <<late, slipped>>
runVars    == <<backed, installed, enabledBy, removed, failed>>
vars == <<recordVars, unitVars, lateVars, copies, checked, holder, tx, pc, at, runVars>>

Steps == {"idle", "initial", "backup", "bind", "consume", "copy", "install",
          "reload", "enable", "start", "verify", "receipt", "failed",
          "stop", "disable", "remove", "unload", "confirm", "journal"}
Receipts == {"none", "active", "premutation", "rolled_back", "incomplete"}
Outcomes == {"done", "before", "after"}   \* of a step: it raises before or after its effect
CommandOutcomes == Outcomes \cup {"late"}   \* it raises, and the effect is still to come
Commands == {"copy", "enable", "start", "stop", "disable"}

StorageTypeOK ==
  /\ consumed \subseteq Transactions
  /\ backup \in [Transactions -> {"none", "partial", "bound"}]
  /\ receipt \in [Transactions -> Receipts]
  /\ unitFile \subseteq Units
  /\ enabled \subseteq Units
  /\ mounted \subseteq Units
  /\ late \subseteq [of : Transactions, does : Commands, at : Int]
  /\ slipped \subseteq Units
  /\ copies \in [Objects -> Transactions \cup {None}]
  /\ checked \in [Runs -> Transactions \cup {None}]
  /\ holder \in Runs \cup {None}
  /\ tx \in Transactions \cup {None}
  /\ pc \in Steps
  /\ at \in Int
  /\ backed \in BOOLEAN
  /\ installed \subseteq Units
  /\ enabledBy \subseteq Units
  /\ removed \in BOOLEAN
  /\ failed \in BOOLEAN

Init ==
  /\ consumed = {}
  /\ backup = [t \in Transactions |-> "none"]
  /\ receipt = [t \in Transactions |-> "none"]
  /\ unitFile = {} /\ enabled = {} /\ mounted = {}
  /\ late = {} /\ slipped = {}
  /\ copies = [o \in Objects |-> None]
  /\ checked = [r \in Runs |-> None]
  /\ holder = None /\ tx = None /\ pc = "idle" /\ at = 0
  /\ backed = FALSE /\ installed = {} /\ enabledBy = {}
  /\ removed = FALSE /\ failed = FALSE

-----------------------------------------------------------------------------
(* Before the lock, and under it until the first record is written.        *)

\* assert_absent of the consumption, the receipt, the backup and its binding.
Fresh(t) == t \notin consumed /\ receipt[t] = "none" /\ backup[t] = "none"

Check(r, t) ==
  /\ checked[r] = None /\ holder # r
  /\ Fresh(t)
  /\ checked' = [checked EXCEPT ![r] = t]
  /\ UNCHANGED <<recordVars, unitVars, lateVars, copies, holder, tx, pc, at, runVars>>

\* LOCK_NB: a run that meets the lock, or whose transaction is no longer
\* fresh under it, is denied; nothing is rolled back or written for it.
Lock(r) ==
  /\ checked[r] # None
  /\ checked' = [checked EXCEPT ![r] = None]
  /\ \/ /\ holder = None
        /\ Fresh(checked[r])
        /\ holder' = r
        /\ tx' = checked[r]
        /\ pc' = "initial"
     \/ /\ holder # None \/ ~Fresh(checked[r])
        /\ UNCHANGED <<holder, tx, pc>>
  /\ UNCHANGED <<recordVars, unitVars, lateVars, copies, at, runVars>>

Unlocked ==
  /\ holder' = None /\ tx' = None /\ pc' = "idle" /\ at' = 0
  /\ backed' = FALSE /\ installed' = {} /\ enabledBy' = {}
  /\ removed' = FALSE /\ failed' = FALSE

\* What a query for each of these units reports: none, when it fails.
Reported(us) == IF QueriesFail THEN SUBSET us ELSE {us}

\* validate_initial_state; it also looks at fstab, docker, the parent mount
\* and the K21D destinations, and may raise for any of them.
InitialState ==
  /\ pc = "initial"
  /\ \/ /\ unitFile = {}
        /\ {} \in Reported(enabled) /\ {} \in Reported(mounted)
        /\ pc' = "backup"
        /\ UNCHANGED <<holder, tx, at, runVars>>
     \/ Unlocked
  /\ UNCHANGED <<recordVars, unitVars, lateVars, copies, checked>>

-----------------------------------------------------------------------------
(* The attempt.                                                            *)

Goto(o, next, i) == IF o = "done" THEN pc' = next /\ at' = i ELSE pc' = "failed" /\ at' = at

\* The command a step is at, once it goes on without the run.
Leaves(c) == late' = late \cup {[of |-> tx, does |-> c, at |-> at]}

\* Units that came up or stayed up behind a rollback's back, as long as they are.
Slips(us) == slipped' = (slipped \cup us) \cap (enabled' \cup mounted')

\* create_verified_backup: the directory, then everything in it.
OpenBackup(o) ==
  /\ pc = "backup"
  /\ backup[tx] = "none" \/ o = "before"
  /\ backup' = [backup EXCEPT ![tx] = IF o = "before" THEN @ ELSE "partial"]
  /\ Goto(o, "bind", 0)
  /\ UNCHANGED <<consumed, receipt, unitVars, lateVars, copies, checked, holder, tx, runVars>>

\* Mutant: the verified backup is taken for the consumption.
BindAndGo(o) ==
  /\ pc = "bind"
  /\ backup' = [backup EXCEPT ![tx] = IF o = "before" THEN @ ELSE "bound"]
  /\ backed' = (o = "done")
  /\ Goto(o, "copy", 1)
  /\ UNCHANGED <<consumed, receipt, unitVars, lateVars, copies, checked, holder, tx,
                 installed, enabledBy, removed, failed>>

BindBackup(o) ==
  /\ pc = "bind"
  /\ backup' = [backup EXCEPT ![tx] = IF o = "before" THEN @ ELSE "bound"]
  /\ backed' = (o = "done")
  /\ Goto(o, "consume", 0)
  /\ UNCHANGED <<consumed, receipt, unitVars, lateVars, copies, checked, holder, tx,
                 installed, enabledBy, removed, failed>>

\* validate_backup_readback, then the exclusive consumption record.
Consume(o) ==
  /\ pc = "consume"
  /\ consumed' = IF o = "before" THEN consumed ELSE consumed \cup {tx}
  /\ Goto(o, "copy", 1)
  /\ UNCHANGED <<backup, receipt, unitVars, lateVars, copies, checked, holder, tx, runVars>>

\* Mutant: an object that is there already is written again.
CopyOver(o) ==
  /\ pc = "copy"
  /\ copies' = [copies EXCEPT ![at] = IF o = "before" THEN @ ELSE tx]
  /\ IF at < NObjects THEN Goto(o, "copy", at + 1) ELSE Goto(o, "install", 1)
  /\ UNCHANGED <<recordVars, unitVars, lateVars, checked, holder, tx, runVars>>

\* create_nfs_object is exclusive: whatever is there already makes it raise.
CopyObject(o) ==
  /\ pc = "copy"
  /\ copies[at] = None \/ o = "before"
  /\ copies' = [copies EXCEPT ![at] = IF o = "before" THEN @ ELSE tx]
  /\ IF at < NObjects THEN Goto(o, "copy", at + 1) ELSE Goto(o, "install", 1)
  /\ UNCHANGED <<recordVars, unitVars, lateVars, checked, holder, tx, runVars>>

\* Mutant: the loop over the units goes one too far.
InstallPast(o) ==
  /\ pc = "install"
  /\ at \notin unitFile \/ o = "before"
  /\ unitFile' = IF o = "before" THEN unitFile ELSE unitFile \cup {at}
  /\ installed' = IF o = "done" THEN installed \cup {at} ELSE installed
  /\ IF at <= NUnits THEN Goto(o, "install", at + 1) ELSE Goto(o, "reload", 0)
  /\ UNCHANGED <<recordVars, enabled, mounted, lateVars, copies, checked, holder, tx,
                 backed, enabledBy, removed, failed>>

\* install_units: all the files, one daemon-reload, all enabled, all started.
\* The runtime lists name a unit when its step is done.
InstallUnit(o) ==
  /\ pc = "install"
  /\ at \notin unitFile \/ o = "before"
  /\ unitFile' = IF o = "before" THEN unitFile ELSE unitFile \cup {at}
  /\ installed' = IF o = "done" THEN installed \cup {at} ELSE installed
  /\ IF at < NUnits THEN Goto(o, "install", at + 1) ELSE Goto(o, "reload", 0)
  /\ UNCHANGED <<recordVars, enabled, mounted, lateVars, copies, checked, holder, tx,
                 backed, enabledBy, removed, failed>>

Reload(o) ==
  /\ pc = "reload"
  /\ Goto(o, "enable", 1)
  /\ UNCHANGED <<recordVars, unitVars, lateVars, copies, checked, holder, tx, runVars>>

EnableUnit(o) ==
  /\ pc = "enable"
  /\ enabled' = IF o \in {"done", "after"} THEN enabled \cup {at} ELSE enabled
  /\ enabledBy' = IF o = "done" THEN enabledBy \cup {at} ELSE enabledBy
  /\ IF o = "late" THEN Leaves("enable") ELSE late' = late
  /\ IF at < NUnits THEN Goto(o, "enable", at + 1) ELSE Goto(o, "start", 1)
  /\ UNCHANGED <<recordVars, unitFile, mounted, slipped, copies, checked, holder, tx,
                 backed, installed, removed, failed>>

StartUnit(o) ==
  /\ pc = "start"
  /\ mounted' = IF o \in {"done", "after"} THEN mounted \cup {at} ELSE mounted
  /\ IF o = "late" THEN Leaves("start") ELSE late' = late
  /\ IF at < NUnits THEN Goto(o, "start", at + 1) ELSE Goto(o, "verify", 0)
  /\ UNCHANGED <<recordVars, unitFile, enabled, slipped, copies, checked, holder, tx, runVars>>

\* verify_post_state, the backup and the consumption once more; a query that
\* fails makes it raise.
VerifyPost(o) ==
  /\ pc = "verify"
  /\ o = "done" => unitFile = Units /\ enabled = Units /\ mounted = Units
  /\ Goto(o, "receipt", 0)
  /\ UNCHANGED <<recordVars, unitVars, lateVars, copies, checked, holder, tx, runVars>>

WriteReceipt(o) ==
  /\ pc = "receipt"
  /\ receipt' = [receipt EXCEPT ![tx] = IF o = "before" THEN @ ELSE "active"]
  /\ IF o = "done" THEN Unlocked
     ELSE Goto(o, "idle", 0) /\ UNCHANGED <<holder, tx, runVars>>
  /\ UNCHANGED <<consumed, backup, unitVars, lateVars, copies, checked>>

-----------------------------------------------------------------------------
(* The handler of BaseException.                                           *)

HandleFailure ==
  /\ pc = "failed"
  /\ pc' = IF tx \in consumed THEN "stop" ELSE "journal"
  /\ at' = NUnits
  /\ UNCHANGED <<recordVars, unitVars, lateVars, copies, checked, holder, tx, runVars>>

\* A unit the first two loops of rollback_units look at.
Concerns(u) == u \in installed \/ u \in unitFile

Downward(here, next) ==
  IF at > 1 THEN pc' = here /\ at' = at - 1 ELSE pc' = next /\ at' = NUnits

\* systemctl stop of a unit that is reported active or mounted; a failure is
\* noted.  A mount still under way is neither.
StopUnit(o) ==
  /\ pc = "stop"
  /\ \E up \in Reported(mounted \cap {at}) :
       LET applies == Concerns(at) /\ at \in up IN
       /\ mounted' = IF applies /\ o \in {"done", "after"} THEN mounted \ {at} ELSE mounted
       /\ failed' = (failed \/ (applies /\ o # "done"))
       /\ IF applies /\ o = "late" THEN Leaves("stop") ELSE late' = late
       /\ enabled' = enabled /\ Slips((mounted \cap {at}) \ up)
  /\ Downward("stop", "disable")
  /\ UNCHANGED <<recordVars, unitFile, copies, checked, holder, tx,
                 backed, installed, enabledBy, removed>>

DisableUnit(o) ==
  /\ pc = "disable"
  /\ \E on \in Reported(enabled \cap {at}) :
       LET applies == Concerns(at) /\ (at \in on \/ at \in enabledBy) IN
       /\ enabled' = IF applies /\ o \in {"done", "after"} THEN enabled \ {at} ELSE enabled
       /\ failed' = (failed \/ (applies /\ o # "done"))
       /\ IF applies /\ o = "late" THEN Leaves("disable") ELSE late' = late
       /\ mounted' = mounted /\ Slips((enabled \cap {at}) \ on)
  /\ Downward("disable", "remove")
  /\ UNCHANGED <<recordVars, unitFile, copies, checked, holder, tx,
                 backed, installed, enabledBy, removed>>

\* Mutant: an unlink that fails is not noted.
RemoveQuietly(o) ==
  /\ pc = "remove"
  /\ \E up \in Reported(mounted \cap {at}), on \in Reported(enabled \cap {at}) :
       LET free == at \notin up /\ at \notin on
           goes == free /\ at \in unitFile /\ o # "before" IN
       /\ unitFile' = IF goes THEN unitFile \ {at} ELSE unitFile
       /\ removed' = (removed \/ (goes /\ o = "done"))
       /\ failed' = (failed \/ ~free)
       /\ UNCHANGED <<enabled, mounted>> /\ Slips(((mounted \cup enabled) \cap {at}) \ (up \cup on))
  /\ Downward("remove", "unload")
  /\ UNCHANGED <<recordVars, late, copies, checked, holder, tx, backed, installed, enabledBy>>

\* The unit file goes only when the unit is reported down and disabled.
RemoveUnit(o) ==
  /\ pc = "remove"
  /\ \E up \in Reported(mounted \cap {at}), on \in Reported(enabled \cap {at}) :
       LET free == at \notin up /\ at \notin on
           goes == free /\ at \in unitFile /\ o # "before" IN
       /\ unitFile' = IF goes THEN unitFile \ {at} ELSE unitFile
       /\ removed' = (removed \/ (goes /\ o = "done"))
       /\ failed' = (failed \/ ~free \/ (at \in unitFile /\ o # "done"))
       /\ UNCHANGED <<enabled, mounted>> /\ Slips(((mounted \cup enabled) \cap {at}) \ (up \cup on))
  /\ Downward("remove", "unload")
  /\ UNCHANGED <<recordVars, late, copies, checked, holder, tx, backed, installed, enabledBy>>

Unload(o) ==
  /\ pc = "unload"
  /\ failed' = (failed \/ (removed /\ o # "done"))
  /\ pc' = "confirm" /\ at' = 0
  /\ UNCHANGED <<recordVars, unitVars, lateVars, copies, checked, holder, tx,
                 backed, installed, enabledBy, removed>>

\* The targets are not reported mounted, the original records, fstab, docker
\* and the parent mount are as they were.
Confirm(o) ==
  /\ pc = "confirm"
  /\ \E up \in Reported(mounted) :
       /\ failed' = (failed \/ up # {} \/ o # "done")
       /\ UNCHANGED <<enabled, mounted>> /\ Slips(mounted \ up)
  /\ pc' = "journal" /\ at' = 0
  /\ UNCHANGED <<recordVars, unitFile, late, copies, checked, holder, tx,
                 backed, installed, enabledBy, removed>>

\* The command of the step a run is at, if it has one running.
AtHand ==
  {c \in Commands \cap {pc} : /\ c = "stop" => Concerns(at) /\ at \in mounted
                              /\ c = "disable" => Concerns(at) /\ at \in enabled \cup enabledBy}

\* An exception the loops of rollback_units do not catch, an interrupt,
\* ends the rollback where it is; it has not succeeded.
AbandonRollback ==
  /\ pc \in {"stop", "disable", "remove", "unload", "confirm"}
  /\ late' = late \/ \E c \in AtHand : Leaves(c)
  /\ failed' = TRUE
  /\ pc' = "journal" /\ at' = 0
  /\ UNCHANGED <<recordVars, unitVars, slipped, copies, checked, holder, tx,
                 backed, installed, enabledBy, removed>>

FailureOutcome == IF tx \notin consumed THEN "premutation"
                  ELSE IF failed THEN "incomplete" ELSE "rolled_back"

\* The failure receipt is for runs that got a backup record, and exclusive.
Journal(o) ==
  /\ pc = "journal"
  /\ receipt' = IF backed /\ receipt[tx] = "none" /\ o # "before"
                THEN [receipt EXCEPT ![tx] = FailureOutcome] ELSE receipt
  /\ Unlocked
  /\ UNCHANGED <<consumed, backup, unitVars, lateVars, copies, checked>>

-----------------------------------------------------------------------------
(* The process is killed; its child is not, and goes on without the lock.  *)

Cut == Unlocked /\ UNCHANGED <<recordVars, unitFile, enabled, copies>>

Kill ==
  /\ holder # None
  /\ Cut
  /\ late' = late \/ \E c \in AtHand : Leaves(c)
  /\ UNCHANGED <<mounted, slipped, checked>>

\* The host loses power: then the enabled units that mount at boot are those
\* whose server answers, and nothing is under way.
PowerLoss ==
  /\ Cut
  /\ \E m \in SUBSET (enabled \cap unitFile) : mounted' = m
  /\ late' = {} /\ Slips({})
  /\ checked' = [r \in Runs |-> None]

\* A late systemctl: enable needs the unit's file, start has it loaded.
LateUnit(c) ==
  /\ c.does # "copy"
  /\ enabled' = IF c.does = "enable" /\ c.at \in unitFile THEN enabled \cup {c.at}
                ELSE IF c.does = "disable" THEN enabled \ {c.at} ELSE enabled
  /\ mounted' = IF c.does = "start" THEN mounted \cup {c.at}
                ELSE IF c.does = "stop" THEN mounted \ {c.at} ELSE mounted
  /\ Slips(IF c.does \in {"enable", "start"} THEN {c.at} ELSE {})
  /\ late' = late \ {c}
  /\ UNCHANGED <<recordVars, unitFile, copies, checked, holder, tx, pc, at, runVars>>

\* A preparer without its run copies on, as exclusively as before.
LateCopy(c) ==
  /\ c.does = "copy"
  /\ copies[c.at] = None
  /\ copies' = [copies EXCEPT ![c.at] = c.of]
  /\ late' = (late \ {c}) \cup IF c.at < NObjects THEN {[c EXCEPT !.at = @ + 1]} ELSE {}
  /\ UNCHANGED <<recordVars, unitVars, slipped, checked, holder, tx, pc, at, runVars>>

LateFails(c) ==
  /\ late' = late \ {c}
  /\ UNCHANGED <<recordVars, unitVars, slipped, copies, checked, holder, tx, pc, at, runVars>>

Step(o) ==
  \/ OpenBackup(o) \/ BindBackup(o) \/ Consume(o) \/ CopyObject(o)
  \/ InstallUnit(o) \/ Reload(o) \/ VerifyPost(o) \/ WriteReceipt(o)
  \/ RemoveUnit(o) \/ Unload(o) \/ Confirm(o) \/ Journal(o)

CommandStep(o) == EnableUnit(o) \/ StartUnit(o) \/ StopUnit(o) \/ DisableUnit(o)

Late(c) == LateUnit(c) \/ LateCopy(c) \/ LateFails(c)

Next ==
  \/ \E r \in Runs, t \in Transactions : Check(r, t)
  \/ \E r \in Runs : Lock(r)
  \/ InitialState
  \/ \E o \in Outcomes : Step(o)
  \/ \E o \in CommandOutcomes : CommandStep(o)
  \/ HandleFailure
  \/ AbandonRollback
  \/ Kill
  \/ PowerLoss
  \/ \E c \in late : Late(c)

Spec == Init /\ [][Next]_vars

-----------------------------------------------------------------------------
(* Properties.                                                             *)

\* Whatever units the host holds are somebody's: an authorization was
\* consumed for them over a bound backup, and its receipt does not say that
\* they were rolled back or never touched.  For unit files this is so without
\* exception; of the enabled and mounted units it leaves out those that
\* slipped by a rollback: a query did not report them, or they came up or
\* were enabled after the step that asked for it.  Of these the code does not
\* keep post239-k21d-scoped-nfs-storage-rollback.md's "Never claim rollback
\* success while either scoped target remains mounted."  (rollback_units and
\* the receipt it is reported in, across failing commands, kills, power losses.)
LeftoversAreOwned ==
  unitFile \cup ((enabled \cup mounted) \ slipped) # {} =>
    \E t \in consumed : backup[t] = "bound" /\ receipt[t] \notin {"rolled_back", "premutation"}

\* A success receipt is about the transaction's own NFS copies.  Copies are
\* kept for ever and created exclusively, so after a first attempt that got
\* as far as copying no other transaction succeeds.
CopiesOfSuccess ==
  \A t \in Transactions : receipt[t] = "active" => \A o \in Objects : copies[o] = t

\* Every transaction is attempted at most once, and unit files, enablement
\* and copies change inside an attempt only, which lasts until the last of
\* its commands is over.  Two attempts may overlap: the lock goes with the
\* run, not with what it left under way.
Attempt == INSTANCE SingleUseAttempt WITH
  Alone <- FALSE,
  phase <- [t \in Transactions |-> IF t \notin consumed THEN "unused"
                                   ELSE IF t = tx \/ \E c \in late : c.of = t
                                        THEN "open" ELSE "closed"],
  world <- <<unitFile, enabled, copies>>

StorageIsSingleUse == Attempt!Spec
=============================================================================
