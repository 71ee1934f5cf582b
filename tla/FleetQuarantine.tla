-------------------------- MODULE FleetQuarantine --------------------------
(***************************************************************************)
(* The quarantine of workers: two files and three writers.                 *)
(* remediation-state.json says who is in quarantine and until when;        *)
(* fleet-status.json is what routing reads.  Spot Core changes both on an  *)
(* operator's call (src/spot-core/spotcore/app.py), the remediation pass   *)
(* (src/watch/fleet-remediate.sh) reads the first, calls Spot Core, and    *)
(* overwrites the first with its own copy, the watch pass                  *)
(* (src/watch/fleet-watch.sh) rebuilds the second from the first, one host *)
(* at a time.  Nobody takes a lock.                                        *)
(*                                                                         *)
(* Files are replaced whole by rename, with two exceptions: the rollback   *)
(* of a failed call copies in place, so that for a while there is an empty *)
(* file, which every reader takes for {}; and the remediation pass and     *)
(* Spot Core write remediation-state.json under one temporary name.  Time  *)
(* is counted in quarantine periods.                                       *)
(***************************************************************************)
EXTENDS Integers, FiniteSets

CONSTANTS Workers,        \* of cluster_config.json
          Listed,         \* those of them that fleet-watch.sh lists
          AllowHighRisk,  \* AUTONOMY_ALLOW_HIGH_RISK
          MaxClock,
          MaxCalls,       \* bound on operator calls, breaks, routing
                          \* violations and cleared degradations together
          None

ASSUME FleetAssumption ==
  /\ IsFiniteSet(Workers)
  /\ Listed \subseteq Workers
  /\ AllowHighRisk \in BOOLEAN
  /\ MaxClock \in Nat /\ MaxCalls \in Nat
  /\ None \notin BOOLEAN

VARIABLES rem,       \* remediation-state.json: quarantined and until_ts (0: none)
          status,    \* fleet-status.json: quarantined (None: no such host)
          api,       \* the call Spot Core executes
          pass,      \* the remediation pass under way
          sample,    \* what the watch pass has read of each host (None: not yet)
          clock, calls,
          held       \* history: workers an operator holds

vars == <<rem, status, api, pass, sample, clock, calls, held>>

Entries   == [quarantined : BOOLEAN, until : 0 .. MaxClock]
Free      == [quarantined |-> FALSE, until |-> 0]
Published == BOOLEAN \cup {None}

\* What is read of a file that is empty.
EmptyRem    == [w \in Workers |-> Free]
EmptyStatus == [w \in Listed |-> None]

NoCall == [step |-> "idle"]
NoPass == [step |-> "idle"]
\* Steps of a call, and who waits for it: "nobody" once its pass is gone.
Calls  == [step : {"load", "save", "publish", "verify", "restore", "restored", "republish"},
           worker : Workers, hold : BOOLEAN, by : {"operator", "pass", "nobody"},
           rem : [Workers -> Entries], status : [Listed -> Published],
           remBackup : [Workers -> Entries], statusBackup : [Listed -> Published]]
Passes == [step : {"hold", "free", "write"}, plan : [Workers -> Entries],
           toHold : SUBSET Workers, toFree : SUBSET Workers]

FleetTypeOK ==
  /\ rem \in [Workers -> Entries]
  /\ status \in [Listed -> Published]
  /\ api = NoCall \/ api \in Calls
  /\ pass = NoPass \/ pass \in Passes
  /\ sample \in [Listed -> Published]
  /\ clock \in 0 .. MaxClock
  /\ calls \in 0 .. MaxCalls
  /\ held \subseteq Workers

Init ==
  /\ rem = EmptyRem
  /\ status = [w \in Listed |-> FALSE]
  /\ api = NoCall /\ pass = NoPass
  /\ sample = EmptyStatus
  /\ clock = 0 /\ calls = 0
  /\ held = {}

Spend(n) == calls + n <= MaxCalls /\ calls' = calls + n

Tick == /\ clock < MaxClock
        /\ clock' = clock + 1
        /\ UNCHANGED <<rem, status, api, pass, sample, calls, held>>

-----------------------------------------------------------------------------
(* Spot Core: execute_quarantine_worker and execute_unquarantine_worker    *)
(* under execute_with_enforcement.  One event loop, and nothing in a call  *)
(* gives it up once the backup is taken: one call at a time.               *)

At(step) == api # NoCall /\ api.step = step

\* create_verified_backup of both files.  A copy the call no longer or not yet
\* has is given as empty.
Begin(w, hold, by) ==
  /\ api = NoCall
  /\ api' = [step |-> "load", worker |-> w, hold |-> hold, by |-> by,
             rem |-> EmptyRem, status |-> EmptyStatus, remBackup |-> rem, statusBackup |-> status]

\* What an operator releases he no longer holds.
OperatorCalls(w, hold) ==
  /\ Begin(w, hold, "operator")
  /\ Spend(1)
  /\ held' = IF hold THEN held ELSE held \ {w}
  /\ UNCHANGED <<rem, status, pass, sample, clock>>

\* update_remediation_quarantine: load_remediation_state,
Load ==
  /\ At("load")
  /\ api' = [api EXCEPT !.step = "save", !.rem = rem]
  /\ UNCHANGED <<rem, status, pass, sample, clock, calls, held>>

\* the worker's entry in that copy, its until_ts as it is,
Saved == [api.rem EXCEPT ![api.worker].quarantined = api.hold]

\* and save_remediation_state; then load_watch_state.
SaveRemediation ==
  /\ At("save")
  /\ rem' = Saved
  /\ api' = [api EXCEPT !.step = "publish", !.rem = EmptyRem, !.status = status]
  /\ UNCHANGED <<status, pass, sample, clock, calls, held>>

\* Mutant: a host that is not listed gets an entry.
SaveStatusAnyway ==
  /\ At("publish")
  /\ status' = [w \in Listed \cup {api.worker} |->
                  IF w = api.worker THEN api.hold ELSE api.status[w]]
  /\ api' = [api EXCEPT !.step = "verify", !.status = EmptyStatus]
  /\ UNCHANGED <<rem, pass, sample, clock, calls, held>>

\* update_watch_state_quarantine, which does nothing for a host that the
\* watch state does not list.
SaveStatus ==
  /\ At("publish")
  /\ status' = IF api.worker \in Listed /\ api.status[api.worker] # None
               THEN [api.status EXCEPT ![api.worker] = api.hold]
               ELSE status
  /\ api' = [api EXCEPT !.step = "verify", !.status = EmptyStatus]
  /\ UNCHANGED <<rem, pass, sample, clock, calls, held>>

Verified == /\ api.worker \in Listed
            /\ status[api.worker] = api.hold
            /\ rem[api.worker].quarantined = api.hold

\* do_verify reads both files again.  A hold of an operator counts from here,
\* unless a pass is under way, which may write back what it read before, or the
\* entry has the until_ts of an earlier quarantine and is timed by it.
CallSucceeds ==
  /\ At("verify")
  /\ Verified
  /\ held' = IF /\ api.by = "operator" /\ api.hold /\ pass = NoPass
                /\ rem[api.worker].until = 0
             THEN held \cup {api.worker} ELSE held
  /\ api' = NoCall
  /\ UNCHANGED <<rem, status, pass, sample, clock, calls>>

\* There is no rollback of a call of high risk, which a pass's quarantine
\* always is (classify_action_risk finds "routing" in its reason) and an
\* operator's may be; and it raises when the backup went to the buffer host.
CallFails ==
  /\ At("verify")
  /\ ~Verified
  /\ \/ api' = NoCall /\ UNCHANGED rem
     \/ /\ api.by = "operator" \/ ~api.hold
        /\ rem' = EmptyRem
        /\ api' = [api EXCEPT !.step = "restore"]
  /\ UNCHANGED <<status, pass, sample, clock, calls, held>>

\* do_rollback: shutil.copy2 opens each file for writing and then fills it.
RestoreRemediation ==
  /\ At("restore")
  /\ rem' = api.remBackup
  /\ api' = [api EXCEPT !.step = "restored", !.remBackup = EmptyRem]
  /\ UNCHANGED <<status, pass, sample, clock, calls, held>>

RestoreStatus ==
  /\ \/ At("restored") /\ status' = EmptyStatus /\ api' = [api EXCEPT !.step = "republish"]
     \/ At("republish") /\ status' = api.statusBackup /\ api' = NoCall
  /\ UNCHANGED <<rem, pass, sample, clock, calls, held>>

\* A write fails, or the process ends: what is done is done, and a file that
\* was being copied stays empty, with everybody's hold.
CallBreaks ==
  /\ api # NoCall
  /\ Spend(1)
  /\ api' = NoCall
  /\ held' = IF At("restore") THEN {} ELSE held
  /\ UNCHANGED <<rem, status, pass, sample, clock>>

-----------------------------------------------------------------------------
(* fleet-remediate.sh                                                      *)

\* Mutant: a quarantine without a deadline counts as expired.
ExpiredAlways(w) == rem[w].quarantined /\ clock >= rem[w].until

Expired(w) == rem[w].quarantined /\ rem[w].until > 0 /\ clock >= rem[w].until

\* Mutant: the release of an expired quarantine is left to the API call.
PlannedAsRead(w, violating) ==
  IF w \in violating THEN [quarantined |-> TRUE, until |-> clock + 1] ELSE rem[w]

\* The entry of a worker in the state the pass will write.
Planned(w, violating) ==
  IF w \in violating THEN [quarantined |-> TRUE, until |-> clock + 1]
  ELSE IF Expired(w) THEN [rem[w] EXCEPT !.quarantined = FALSE]
  ELSE rem[w]

\* The first script of the pass: it reads the remediation state and the
\* audit, with fresh violations of some workers, and with others whose
\* degradation is cleared after clean runs.  These it releases as well,
\* whoever holds them, although the state it will write keeps their entry.
PassReads(violating, cleared) ==
  /\ pass = NoPass
  /\ Spend(Cardinality(violating) + Cardinality(cleared))
  /\ violating # {} => clock < MaxClock
  /\ pass' = [step |-> "hold",
              plan |-> [w \in Workers |-> Planned(w, violating)],
              toHold |-> {w \in violating : ~rem[w].quarantined},
              toFree |-> {w \in Workers \ violating : Expired(w)} \cup cleared]
  /\ held' = IF At("restore") THEN {} ELSE held \ (violating \cup cleared)
  /\ UNCHANGED <<rem, status, api, sample, clock>>

\* A call the pass has to make, quarantines first.
Due(w, hold) ==
  /\ pass # NoPass
  /\ IF hold THEN pass.step = "hold" /\ w \in pass.toHold
             ELSE pass.step = "free" /\ w \in pass.toFree

CrossOff(w, hold) ==
  pass' = IF hold THEN [pass EXCEPT !.toHold = @ \ {w}] ELSE [pass EXCEPT !.toFree = @ \ {w}]

\* curl waits for its answer and the pass goes on whatever it is; a quarantine
\* with the reason routing_violation is of high risk and answered 403 unless
\* AllowHighRisk.
PassCalls(w, hold) ==
  /\ Due(w, hold)
  /\ hold => AllowHighRisk
  /\ Begin(w, hold, "pass")
  /\ CrossOff(w, hold)
  /\ UNCHANGED <<rem, status, sample, clock, calls, held>>

Answered == api # NoCall => api.by # "pass"

\* A refusal, or no answer.
PassIsRefused(w, hold) ==
  /\ Due(w, hold)
  /\ Answered
  /\ CrossOff(w, hold)
  /\ UNCHANGED <<rem, status, api, sample, clock, calls, held>>

PassGoesOn ==
  /\ pass # NoPass
  /\ Answered
  /\ \/ pass.step = "hold" /\ pass.toHold = {} /\ pass' = [pass EXCEPT !.step = "free"]
     \/ pass.step = "free" /\ pass.toFree = {} /\ pass' = [pass EXCEPT !.step = "write"]
  /\ UNCHANGED <<rem, status, api, sample, clock, calls, held>>

\* jq .state into the temporary file, mv over the remediation state.
PassWrites ==
  /\ pass # NoPass /\ pass.step = "write"
  /\ rem' = pass.plan
  /\ pass' = NoPass
  /\ UNCHANGED <<status, api, sample, clock, calls, held>>

\* The pass ends without having written (set -e, or it is killed), whatever it
\* has asked for; Spot Core goes on with the call it is at.
PassIsCut ==
  /\ pass # NoPass
  /\ Spend(1)
  /\ pass' = NoPass
  /\ api' = IF Answered THEN api ELSE [api EXCEPT !.by = "nobody"]
  /\ UNCHANGED <<rem, status, sample, clock, held>>

\* The call and the pass have remediation-state.json.tmp open at once: either
\* content, or a mixture that nobody can parse, ends up in place, and whoever
\* renames second fails and stops there.
WritesCollide(file) ==
  /\ At("save") /\ pass # NoPass /\ pass.step = "write"
  /\ Spend(1)
  /\ file \in {Saved, pass.plan, EmptyRem}
  /\ rem' = file
  /\ pass' = NoPass
  /\ api' \in {NoCall, [api EXCEPT !.step = "publish", !.rem = EmptyRem, !.status = status]}
  /\ held' = IF file = EmptyRem THEN {} ELSE held
  /\ UNCHANGED <<status, sample, clock>>

-----------------------------------------------------------------------------
(* fleet-watch.sh                                                          *)

\* Mutant: a host that is in quarantine in the status stays so.
WatchLatches(w) ==
  /\ sample[w] = None
  /\ sample' = [sample EXCEPT ![w] = rem[w].quarantined \/ status[w] = TRUE]
  /\ UNCHANGED <<rem, status, api, pass, clock, calls, held>>

\* The host's turn: the remediation state is read for every host anew.
WatchSamples(w) ==
  /\ sample[w] = None
  /\ sample' = [sample EXCEPT ![w] = rem[w].quarantined]
  /\ UNCHANGED <<rem, status, api, pass, clock, calls, held>>

WatchWrites ==
  /\ \A w \in Listed : sample[w] # None
  /\ status' = sample
  /\ sample' = EmptyStatus
  /\ UNCHANGED <<rem, api, pass, clock, calls, held>>

-----------------------------------------------------------------------------
ApiStep   == \/ Load \/ SaveRemediation \/ SaveStatus \/ CallSucceeds \/ CallFails
             \/ RestoreRemediation \/ RestoreStatus
PassStep  == \/ \E w \in Workers, hold \in BOOLEAN : PassCalls(w, hold) \/ PassIsRefused(w, hold)
             \/ PassGoesOn
             \/ PassWrites
WatchStep == (\E w \in Listed : WatchSamples(w)) \/ WatchWrites

Next ==
  \/ Tick
  \/ \E w \in Workers, hold \in BOOLEAN : OperatorCalls(w, hold)
  \/ ApiStep \/ CallBreaks
  \/ \E violating, cleared \in SUBSET Workers : PassReads(violating, cleared)
  \/ PassStep \/ PassIsCut
  \/ \E file \in [Workers -> Entries] : WritesCollide(file)
  \/ WatchStep

Spec == Init /\ [][Next]_vars

\* Time goes on, Spot Core serves, and the watch pass runs in cycles
\* (spot-role-revert.py: "Run by fleet-watch on every cycle").  Nothing in the
\* repository starts the remediation pass, so none is assumed to begin or end.
FairSpec == /\ Spec
            /\ WF_vars(Tick)
            /\ WF_vars(ApiStep)
            /\ WF_vars(WatchStep)

-----------------------------------------------------------------------------
(* Properties.                                                             *)

\* A hold an operator was told is in place stays in the remediation state
\* until he releases it, a violation turns it into a timed quarantine or a pass
\* releases it because the worker's degradation is cleared: during passes and
\* between them, whether they write or are cut, whatever calls for other
\* workers do, fail at or roll back, and whoever overlaps whom.  What the code
\* does not keep is left out where it happens: a hold confirmed while a pass is
\* under way or over an old until_ts does not count (CallSucceeds), and all end
\* if the file itself is lost: a pass reads it while a rollback copies it
\* (PassReads), the copy is cut (CallBreaks), two writers mix (WritesCollide).
HoldStands ==
  \A w \in held : rem[w].quarantined \/ At("restore")

\* Whatever the races, routing sees in the end what the remediation state
\* says: when a worker's quarantine settles there, it settles in the status.
StatusFollows ==
  \A w \in Listed :
    /\ <>[](rem[w].quarantined) => <>[](status[w] = TRUE)
    /\ <>[](~rem[w].quarantined) => <>[](status[w] = FALSE)

\* As long as somebody goes on running remediation passes that reach their
\* write, a quarantine with a deadline ends, whether or not Spot Core accepts
\* the calls they make; or the deadline goes: a call that overlaps a pass may
\* write back an entry from before it was set, and then nothing ends it.
TimedHoldsEnd ==
  []<><<PassWrites>>_vars =>
    \A w \in Workers :
      rem[w].quarantined /\ rem[w].until > 0 ~> ~rem[w].quarantined \/ rem[w].until = 0
=============================================================================
