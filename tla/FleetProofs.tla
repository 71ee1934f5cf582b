---------------------------- MODULE FleetProofs ----------------------------
(***************************************************************************)
(* Proofs about FleetQuarantine, for any number of workers, calls and      *)
(* periods: the types of the two files and of what their writers carry,    *)
(* and that an operator's hold stands.                                     *)
(***************************************************************************)
EXTENDS FleetQuarantine, FiniteSetTheorems, TLAPS

USE FleetAssumption DEF Entries, Free, Published, Calls, Passes, NoCall, NoPass

LEMMA EmptyFiles == EmptyRem \in [Workers -> Entries] /\ EmptyStatus \in [Listed -> Published]
BY DEF EmptyRem, EmptyStatus

\* The steps of a call and of a pass find it in a state that is one.
LEMMA CallUnderWay == FleetTypeOK /\ api # NoCall => api \in Calls
BY DEF FleetTypeOK

LEMMA PassUnderWay == FleetTypeOK /\ pass # NoPass => pass \in Passes
BY DEF FleetTypeOK

LEMMA BeginIsCall ==
  ASSUME FleetTypeOK, NEW w \in Workers, NEW hold \in BOOLEAN,
         NEW by \in {"operator", "pass"}, Begin(w, hold, by)
  PROVE  /\ api = NoCall /\ api' \in Calls /\ api' # NoCall
         /\ api'.step = "load" /\ api'.worker = w /\ api'.hold = hold /\ api'.remBackup = rem
BY EmptyFiles DEF Begin, FleetTypeOK

\* What the steps of a call make of it.
LEMMA SavedIsFile ==
  ASSUME api \in Calls
  PROVE  /\ Saved \in [Workers -> Entries]
         /\ \A w \in Workers : /\ Saved[w].until = api.rem[w].until
                               /\ w = api.worker => Saved[w].quarantined = api.hold
                               /\ w # api.worker => Saved[w] = api.rem[w]
<1>1. api.rem \in [Workers -> Entries] /\ api.worker \in Workers /\ api.hold \in BOOLEAN
  OBVIOUS
<1>2. [api.rem[api.worker] EXCEPT !.quarantined = api.hold] \in Entries
  BY <1>1
<1> QED
  BY <1>1, <1>2 DEF Saved

LEMMA Moved ==
  ASSUME NEW c \in Calls, NEW step \in {"restore", "republish"}, NEW d,
         d = [c EXCEPT !.step = step]
  PROVE  /\ d \in Calls /\ d # NoCall /\ d.step = step
         /\ d.worker = c.worker /\ d.hold = c.hold /\ d.remBackup = c.remBackup
OBVIOUS

LEMMA Loaded ==
  ASSUME NEW c \in Calls, NEW file \in [Workers -> Entries], NEW d,
         d = [c EXCEPT !.step = "save", !.rem = file]
  PROVE  /\ d \in Calls /\ d # NoCall /\ d.step = "save" /\ d.rem = file
         /\ d.worker = c.worker /\ d.hold = c.hold /\ d.remBackup = c.remBackup
OBVIOUS

LEMMA SavedOne ==
  ASSUME NEW c \in Calls, NEW published \in [Listed -> Published], NEW d,
         d = [c EXCEPT !.step = "publish", !.rem = EmptyRem, !.status = published]
  PROVE  /\ d \in Calls /\ d # NoCall /\ d.step = "publish"
         /\ d.worker = c.worker /\ d.hold = c.hold /\ d.remBackup = c.remBackup
BY EmptyFiles

LEMMA PublishedOne ==
  ASSUME NEW c \in Calls, NEW d, d = [c EXCEPT !.step = "verify", !.status = EmptyStatus]
  PROVE  /\ d \in Calls /\ d # NoCall /\ d.step = "verify"
         /\ d.worker = c.worker /\ d.hold = c.hold /\ d.remBackup = c.remBackup
BY EmptyFiles

LEMMA Emptied ==
  ASSUME NEW c \in Calls, NEW d, d = [c EXCEPT !.step = "restored", !.remBackup = EmptyRem]
  PROVE  /\ d \in Calls /\ d # NoCall /\ d.step = "restored"
         /\ d.worker = c.worker /\ d.hold = c.hold
BY EmptyFiles

LEMMA CallGoesOn ==
  ASSUME FleetTypeOK, Load \/ SaveRemediation \/ SaveStatus
  PROVE  /\ api \in Calls /\ api' \in Calls /\ api' # NoCall /\ api'.step # "restore"
         /\ api'.worker = api.worker /\ api'.hold = api.hold /\ api'.remBackup = api.remBackup
         /\ api'.step = "save" => Load /\ api'.rem = rem
         /\ api.step # "restore" /\ UNCHANGED <<pass, held>>
<1>1. api \in Calls
  BY CallUnderWay DEF Load, SaveRemediation, SaveStatus, At
<1>2. /\ rem \in [Workers -> Entries] /\ status \in [Listed -> Published]
  BY DEF FleetTypeOK
<1>3. CASE Load
  <2>1. api' = [api EXCEPT !.step = "save", !.rem = rem]
    BY <1>3 DEF Load
  <2>2. /\ api' \in Calls /\ api' # NoCall /\ api'.step = "save"
        /\ api'.worker = api.worker /\ api'.hold = api.hold /\ api'.remBackup = api.remBackup
    BY <1>1, <1>2, <2>1, Loaded
  <2>3. api'.rem = rem
    BY <1>1, <2>1
  <2>4. api.step = "load" /\ UNCHANGED <<pass, held>>
    BY <1>3 DEF Load, At
  <2> QED
    BY <1>1, <1>3, <2>2, <2>3, <2>4
<1>4. CASE SaveRemediation
  <2>1. api' = [api EXCEPT !.step = "publish", !.rem = EmptyRem, !.status = status]
    BY <1>4 DEF SaveRemediation
  <2>2. /\ api' \in Calls /\ api' # NoCall /\ api'.step = "publish"
        /\ api'.worker = api.worker /\ api'.hold = api.hold /\ api'.remBackup = api.remBackup
    BY <1>1, <1>2, <2>1, SavedOne
  <2>3. api.step = "save" /\ UNCHANGED <<pass, held>>
    BY <1>4 DEF SaveRemediation, At
  <2> QED
    BY <1>1, <2>2, <2>3
<1>5. CASE SaveStatus
  <2>1. api' = [api EXCEPT !.step = "verify", !.status = EmptyStatus]
    BY <1>5 DEF SaveStatus
  <2>2. /\ api' \in Calls /\ api' # NoCall /\ api'.step = "verify"
        /\ api'.worker = api.worker /\ api'.hold = api.hold /\ api'.remBackup = api.remBackup
    BY <1>1, <1>2, <2>1, PublishedOne
  <2>3. api.step = "publish" /\ UNCHANGED <<pass, held>>
    BY <1>5 DEF SaveStatus, At
  <2> QED
    BY <1>1, <2>2, <2>3
<1> QED
  BY <1>3, <1>4, <1>5

LEMMA FleetTypeInit == Init => FleetTypeOK
BY EmptyFiles DEF Init, EmptyRem, FleetTypeOK

LEMMA FleetTypeStep == FleetTypeOK /\ [Next]_vars => FleetTypeOK'
<1> SUFFICES ASSUME FleetTypeOK, [Next]_vars
             PROVE  FleetTypeOK'
  OBVIOUS
<1>1. CASE Tick
  BY <1>1 DEF Tick, FleetTypeOK
<1>2. ASSUME NEW w \in Workers, NEW hold \in BOOLEAN, OperatorCalls(w, hold)
      PROVE  FleetTypeOK'
  <2>1. api' \in Calls
    BY <1>2, BeginIsCall DEF OperatorCalls
  <2>2. held' \subseteq Workers /\ calls' \in 0 .. MaxCalls
    BY <1>2 DEF OperatorCalls, Spend, FleetTypeOK
  <2> QED
    BY <1>2, <2>1, <2>2 DEF OperatorCalls, FleetTypeOK
<1>3. CASE Load
  BY <1>3, CallGoesOn DEF Load, FleetTypeOK
<1>4. CASE SaveRemediation
  BY <1>4, CallGoesOn, SavedIsFile DEF SaveRemediation, FleetTypeOK
<1>5. CASE SaveStatus
  <2>1. api \in Calls /\ api' \in Calls
    BY <1>5, CallGoesOn
  <2>2. status' \in [Listed -> Published]
    BY <1>5, <2>1 DEF SaveStatus, FleetTypeOK
  <2> QED
    BY <1>5, <2>1, <2>2 DEF SaveStatus, FleetTypeOK
<1>6. CASE CallSucceeds
  <2>1. api \in Calls
    BY <1>6, CallUnderWay DEF CallSucceeds, At
  <2>2. held' \subseteq Workers
    BY <1>6, <2>1 DEF CallSucceeds, FleetTypeOK
  <2> QED
    BY <1>6, <2>2 DEF CallSucceeds, FleetTypeOK
<1>7. CASE CallFails
  <2>1. api \in Calls
    BY <1>7, CallUnderWay DEF CallFails, At
  <2>2. rem' \in [Workers -> Entries]
    BY <1>7, EmptyFiles DEF CallFails, FleetTypeOK
  <2>3. api' = NoCall \/ api' = [api EXCEPT !.step = "restore"]
    BY <1>7 DEF CallFails
  <2>4. api' = NoCall \/ api' \in Calls
    BY <2>1, <2>3, Moved
  <2> QED
    BY <1>7, <2>2, <2>4 DEF CallFails, FleetTypeOK
<1>8. CASE RestoreRemediation
  <2>1. api \in Calls
    BY <1>8, CallUnderWay DEF RestoreRemediation, At
  <2>2. rem' = api.remBackup /\ api' = [api EXCEPT !.step = "restored", !.remBackup = EmptyRem]
    BY <1>8 DEF RestoreRemediation
  <2>3. rem' \in [Workers -> Entries] /\ api' \in Calls
    BY <2>1, <2>2, Emptied
  <2> QED
    BY <1>8, <2>3 DEF RestoreRemediation, FleetTypeOK
<1>9. CASE RestoreStatus
  <2>1. api \in Calls
    BY <1>9, CallUnderWay DEF RestoreStatus, At
  <2>2. /\ status' \in {EmptyStatus, api.statusBackup}
        /\ api' = NoCall \/ api' = [api EXCEPT !.step = "republish"]
    BY <1>9 DEF RestoreStatus
  <2>3. status' \in [Listed -> Published]
    BY <2>1, <2>2, EmptyFiles
  <2>4. api' = NoCall \/ api' \in Calls
    BY <2>1, <2>2, Moved
  <2> QED
    BY <1>9, <2>3, <2>4 DEF RestoreStatus, FleetTypeOK
<1>10. CASE CallBreaks
  BY <1>10 DEF CallBreaks, Spend, FleetTypeOK
<1>11. ASSUME NEW violating \in SUBSET Workers, NEW cleared \in SUBSET Workers,
              PassReads(violating, cleared)
       PROVE  FleetTypeOK'
  <2>1. Cardinality(violating) \in Nat /\ Cardinality(cleared) \in Nat
    BY FS_Subset, FS_CardinalityType
  <2>2. calls' \in 0 .. MaxCalls
    BY <1>11, <2>1 DEF PassReads, Spend, FleetTypeOK
  <2>3. ASSUME NEW w \in Workers
        PROVE  Planned(w, violating) \in Entries
    <3>0. rem[w] \in Entries
      BY DEF FleetTypeOK
    <3>1. [rem[w] EXCEPT !.quarantined = FALSE] \in Entries
      BY <3>0
    <3>2. violating # {} => clock + 1 \in 0 .. MaxClock
      BY <1>11 DEF PassReads, FleetTypeOK
    <3> QED
      BY <3>0, <3>1, <3>2 DEF Planned
  <2>4. pass' \in Passes
    BY <1>11, <2>3 DEF PassReads
  <2>5. held' \subseteq Workers
    BY <1>11 DEF PassReads, FleetTypeOK
  <2> QED
    BY <1>11, <2>2, <2>4, <2>5 DEF PassReads, FleetTypeOK
<1>12. ASSUME NEW w \in Workers, NEW hold \in BOOLEAN, Due(w, hold), CrossOff(w, hold)
       PROVE  pass' \in Passes
  BY <1>12, PassUnderWay DEF Due, CrossOff
<1>13. ASSUME NEW w \in Workers, NEW hold \in BOOLEAN, PassCalls(w, hold)
       PROVE  FleetTypeOK'
  BY <1>12, <1>13, BeginIsCall DEF PassCalls, FleetTypeOK
<1>14. ASSUME NEW w \in Workers, NEW hold \in BOOLEAN, PassIsRefused(w, hold)
       PROVE  FleetTypeOK'
  BY <1>12, <1>14 DEF PassIsRefused, FleetTypeOK
<1>15. CASE PassGoesOn
  <2>1. pass \in Passes
    BY <1>15, PassUnderWay DEF PassGoesOn
  <2>2. pass' \in Passes
    BY <1>15, <2>1 DEF PassGoesOn
  <2> QED
    BY <1>15, <2>2 DEF PassGoesOn, FleetTypeOK
<1>16. CASE PassWrites
  BY <1>16, PassUnderWay DEF PassWrites, FleetTypeOK
<1>17. CASE PassIsCut
  <2>1. api' = api \/ (api \in Calls /\ api' = [api EXCEPT !.by = "nobody"])
    BY <1>17, CallUnderWay DEF PassIsCut, Answered
  <2>2. api' = NoCall \/ api' \in Calls
    BY <2>1 DEF FleetTypeOK
  <2>3. calls' \in 0 .. MaxCalls
    BY <1>17 DEF PassIsCut, Spend, FleetTypeOK
  <2> QED
    BY <1>17, <2>2, <2>3 DEF PassIsCut, FleetTypeOK
<1>18. ASSUME NEW file \in [Workers -> Entries], WritesCollide(file)
       PROVE  FleetTypeOK'
  <2>1. api \in Calls
    BY <1>18, CallUnderWay DEF WritesCollide, At
  <2>2. \/ api' = NoCall
        \/ api' = [api EXCEPT !.step = "publish", !.rem = EmptyRem, !.status = status]
    BY <1>18 DEF WritesCollide
  <2>3. api' = NoCall \/ api' \in Calls
    <3>1. status \in [Listed -> Published]
      BY DEF FleetTypeOK
    <3> QED
      BY <2>1, <2>2, <3>1, SavedOne
  <2>4. calls' \in 0 .. MaxCalls /\ held' \subseteq Workers
    BY <1>18 DEF WritesCollide, Spend, FleetTypeOK
  <2> QED
    BY <1>18, <2>3, <2>4 DEF WritesCollide, FleetTypeOK
<1>19. ASSUME NEW w \in Listed, WatchSamples(w)
       PROVE  FleetTypeOK'
  BY <1>19 DEF WatchSamples, FleetTypeOK
<1>20. CASE WatchWrites
  BY <1>20, EmptyFiles DEF WatchWrites, FleetTypeOK
<1>21. CASE UNCHANGED vars
  BY <1>21 DEF vars, FleetTypeOK
<1> QED
  BY <1>1, <1>2, <1>3, <1>4, <1>5, <1>6, <1>7, <1>8, <1>9, <1>10, <1>11, <1>13, <1>14, <1>15,
     <1>16, <1>17, <1>18, <1>19, <1>20, <1>21
  DEF Next, ApiStep, PassStep, WatchStep

\* The types of both state files, of the call, the pass and the watch pass.
THEOREM FleetTypes == Spec => []FleetTypeOK
BY FleetTypeInit, FleetTypeStep, PTL DEF Spec

-----------------------------------------------------------------------------
\* An entry that neither expiry nor a call of somebody else releases.
HeldIn(file, w) == file[w].quarantined /\ file[w].until = 0

\* What keeps a hold: it is in the file, unless that is being copied, and in
\* every copy somebody may write back, and nobody is about to release it.
FileKeepsHolds == ~At("restore") => \A w \in held : HeldIn(rem, w)

CallKeepsHolds ==
  api # NoCall =>
    /\ api.worker \in held => api.hold
    /\ api.step \notin {"restored", "republish"} => \A w \in held : HeldIn(api.remBackup, w)
    /\ api.step = "save" => \A w \in held : HeldIn(api.rem, w)

PassKeepsHolds ==
  pass # NoPass => \A w \in held : HeldIn(pass.plan, w) /\ w \notin pass.toFree

HoldsInv == FileKeepsHolds /\ CallKeepsHolds /\ PassKeepsHolds

LEMMA HoldsStep == FleetTypeOK /\ HoldsInv /\ [Next]_vars => HoldsInv'
<1> SUFFICES ASSUME FleetTypeOK, HoldsInv, [Next]_vars
             PROVE  HoldsInv'
  OBVIOUS
<1> USE DEF HoldsInv, FileKeepsHolds, CallKeepsHolds, PassKeepsHolds, HeldIn, At
<1>0. held \subseteq Workers /\ rem \in [Workers -> Entries]
  BY DEF FleetTypeOK
<1>1. ASSUME NEW w \in Workers, NEW hold \in BOOLEAN, OperatorCalls(w, hold)
      PROVE  HoldsInv'
  <2>1. /\ api = NoCall /\ api' # NoCall /\ api'.step = "load" /\ api'.worker = w
        /\ api'.hold = hold /\ api'.remBackup = rem
        /\ held' \subseteq held /\ (~hold => w \notin held') /\ rem' = rem /\ pass' = pass
    BY <1>1, BeginIsCall DEF OperatorCalls
  <2> QED
    BY <2>1
<1>2. CASE Load
  BY <1>2, CallGoesOn DEF Load
<1>3. CASE SaveRemediation
  <2>0. api \in Calls /\ api # NoCall /\ api.step = "save"
    BY <1>3, CallUnderWay DEF SaveRemediation
  <2>1. \A w \in held : HeldIn(Saved, w)
    BY <1>0, <2>0, SavedIsFile
  <2> QED
    BY <1>3, <2>1, CallGoesOn DEF SaveRemediation, Load
<1>4. CASE SaveStatus
  BY <1>4, CallGoesOn DEF SaveStatus, Load
<1>5. CASE CallSucceeds
  <2>1. api \in Calls
    BY <1>5, CallUnderWay DEF CallSucceeds
  <2>2. UNCHANGED <<rem, pass>> /\ api' = NoCall /\ api.step = "verify"
    BY <1>5 DEF CallSucceeds
  <2>3. held' = held \/ (held' = held \cup {api.worker} /\ pass = NoPass /\ HeldIn(rem, api.worker))
    BY <1>5, <2>1 DEF CallSucceeds, Verified
  <2> QED
    BY <2>2, <2>3
<1>6. CASE CallFails
  <2>1. api \in Calls /\ api.step = "verify" /\ UNCHANGED <<pass, held>>
    BY <1>6, CallUnderWay DEF CallFails
  <2>2. \/ api' = NoCall /\ rem' = rem
        \/ api' = [api EXCEPT !.step = "restore"]
    BY <1>6 DEF CallFails
  <2>3. CASE api' = NoCall /\ rem' = rem
    BY <2>1, <2>3
  <2>4. CASE api' = [api EXCEPT !.step = "restore"]
    <3>1. /\ api # NoCall /\ api' # NoCall /\ api'.step = "restore" /\ api'.worker = api.worker
          /\ api'.hold = api.hold /\ api'.remBackup = api.remBackup
      BY <2>1, <2>4, Moved
    <3> QED
      BY <2>1, <3>1
  <2> QED
    BY <2>2, <2>3, <2>4
<1>7. CASE RestoreRemediation
  <2>1. /\ api \in Calls /\ api.step = "restore" /\ UNCHANGED <<pass, held>>
        /\ rem' = api.remBackup /\ api' = [api EXCEPT !.step = "restored", !.remBackup = EmptyRem]
    BY <1>7, CallUnderWay DEF RestoreRemediation
  <2>2. api'.step = "restored" /\ api'.worker = api.worker /\ api'.hold = api.hold
    BY <2>1, Emptied
  <2> QED
    BY <2>1, <2>2
<1>8. CASE RestoreStatus
  <2>1. /\ api \in Calls /\ api.step \in {"restored", "republish"} /\ UNCHANGED <<rem, pass, held>>
        /\ api' = NoCall \/ api' = [api EXCEPT !.step = "republish"]
    BY <1>8, CallUnderWay DEF RestoreStatus
  <2>2. CASE api' = NoCall
    BY <2>1, <2>2
  <2>3. CASE api' = [api EXCEPT !.step = "republish"]
    <3>1. api # NoCall /\ api'.step = "republish" /\ api'.worker = api.worker /\ api'.hold = api.hold
      BY <2>1, <2>3, Moved
    <3> QED
      BY <2>1, <3>1
  <2> QED
    BY <2>1, <2>2, <2>3
<1>9. CASE CallBreaks
  BY <1>9 DEF CallBreaks
<1>10. ASSUME NEW violating \in SUBSET Workers, NEW cleared \in SUBSET Workers,
              PassReads(violating, cleared)
       PROVE  HoldsInv'
  <2>1. UNCHANGED <<rem, api>> /\ held' \subseteq held /\ (At("restore") => held' = {})
    BY <1>10 DEF PassReads
  <2>2. \A w \in held' : w \notin violating /\ w \notin cleared /\ HeldIn(rem, w)
    BY <1>10, <2>1 DEF PassReads
  <2>3. /\ pass'.plan = [w \in Workers |-> Planned(w, violating)]
        /\ pass'.toFree = {w \in Workers \ violating : Expired(w)} \cup cleared
    BY <1>10 DEF PassReads
  <2>4. \A w \in held' : HeldIn(pass'.plan, w) /\ w \notin pass'.toFree
    BY <1>0, <2>1, <2>2, <2>3 DEF Planned, Expired
  <2> QED
    BY <2>1, <2>4
<1>11. ASSUME NEW w \in Workers, NEW hold \in BOOLEAN, Due(w, hold), CrossOff(w, hold)
       PROVE  /\ pass # NoPass /\ pass'.plan = pass.plan /\ pass'.toFree \subseteq pass.toFree
              /\ ~hold => w \in pass.toFree
  BY <1>11, PassUnderWay DEF Due, CrossOff
<1>12. ASSUME NEW w \in Workers, NEW hold \in BOOLEAN, PassCalls(w, hold)
       PROVE  HoldsInv'
  <2>1. /\ api = NoCall /\ api' # NoCall /\ api'.step = "load" /\ api'.worker = w
        /\ api'.hold = hold /\ api'.remBackup = rem /\ UNCHANGED <<rem, held>>
    BY <1>12, BeginIsCall DEF PassCalls
  <2> QED
    BY <1>11, <1>12, <2>1 DEF PassCalls
<1>13. ASSUME NEW w \in Workers, NEW hold \in BOOLEAN, PassIsRefused(w, hold)
       PROVE  HoldsInv'
  BY <1>11, <1>13 DEF PassIsRefused
<1>14. CASE PassGoesOn
  <2>1. pass \in Passes /\ pass # NoPass /\ UNCHANGED <<rem, api, held>>
    BY <1>14, PassUnderWay DEF PassGoesOn
  <2>2. pass'.plan = pass.plan /\ pass'.toFree = pass.toFree
    BY <1>14, <2>1 DEF PassGoesOn
  <2> QED
    BY <2>1, <2>2
<1>15. CASE PassWrites
  BY <1>15 DEF PassWrites
<1>16. CASE PassIsCut
  <2>1. api' = api \/ (api \in Calls /\ api' = [api EXCEPT !.by = "nobody"])
    BY <1>16, CallUnderWay DEF PassIsCut, Answered
  <2>2. pass' = NoPass /\ UNCHANGED <<rem, held>>
    BY <1>16 DEF PassIsCut
  <2> QED
    BY <2>1, <2>2
<1>17. ASSUME NEW file \in [Workers -> Entries], WritesCollide(file)
       PROVE  HoldsInv'
  <2>1. api \in Calls /\ api.step = "save" /\ pass # NoPass /\ pass' = NoPass /\ held' \subseteq held
    BY <1>17, CallUnderWay DEF WritesCollide
  <2>2. \A w \in held : HeldIn(Saved, w) /\ HeldIn(pass.plan, w)
    <3>1. api # NoCall
      BY <2>1
    <3>2. \A w \in held : HeldIn(pass.plan, w) /\ HeldIn(api.rem, w) /\ (api.worker = w => api.hold)
      BY <2>1, <3>1
    <3> QED
      BY <1>0, <2>1, <3>2, SavedIsFile
  <2>3. \A w \in held' : HeldIn(rem', w)
    BY <1>17, <2>1, <2>2 DEF WritesCollide
  <2>4. \/ api' = NoCall
        \/ api' = [api EXCEPT !.step = "publish", !.rem = EmptyRem, !.status = status]
    BY <1>17 DEF WritesCollide
  <2>5. CASE api' = NoCall
    BY <2>1, <2>3, <2>5
  <2>6. CASE api' = [api EXCEPT !.step = "publish", !.rem = EmptyRem, !.status = status]
    <3>1. /\ api # NoCall /\ api' # NoCall /\ api'.step = "publish" /\ api'.worker = api.worker
          /\ api'.hold = api.hold /\ api'.remBackup = api.remBackup
      <4>1. status \in [Listed -> Published]
        BY DEF FleetTypeOK
      <4>2. /\ api' # NoCall /\ api'.step = "publish" /\ api'.worker = api.worker
            /\ api'.hold = api.hold /\ api'.remBackup = api.remBackup
        BY <2>1, <2>6, <4>1, SavedOne
      <4> QED
        BY <2>1, <4>2
    <3> QED
      BY <2>1, <2>3, <3>1
  <2> QED
    BY <2>4, <2>5, <2>6
<1>18. CASE Tick \/ UNCHANGED vars \/ WatchStep
  BY <1>18 DEF Tick, vars, WatchStep, WatchSamples, WatchWrites
<1> QED
  BY <1>1, <1>2, <1>3, <1>4, <1>5, <1>6, <1>7, <1>8, <1>9, <1>10, <1>12, <1>13, <1>14, <1>15,
     <1>16, <1>17, <1>18
  DEF Next, ApiStep, PassStep

\* An operator's hold stands in the remediation state, during passes that write
\* or are cut and beside calls that fail or are rolled back
\* (update_remediation_quarantine against fleet-remediate.sh).
THEOREM HoldsStand == Spec => []HoldStands
<1>1. Init => HoldsInv
  BY DEF Init, HoldsInv, FileKeepsHolds, CallKeepsHolds, PassKeepsHolds
<1>2. HoldsInv => HoldStands
  BY DEF HoldsInv, FileKeepsHolds, HeldIn, HoldStands
<1> QED
  BY <1>1, <1>2, FleetTypes, HoldsStep, PTL DEF Spec
=============================================================================
