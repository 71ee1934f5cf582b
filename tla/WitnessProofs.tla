--------------------------- MODULE WitnessProofs ---------------------------
(***************************************************************************)
(* Proofs about WitnessAuthority, for every lease length, clock bound and  *)
(* epoch bound: the type invariant, and the refinement of AuthorityTenure. *)
(***************************************************************************)
EXTENDS WitnessAuthority, TLAPS

USE DEF Hosts, NoLease, LeaseRecord, Observation

\* renew_holder always writes a lease that is in force, keeps the tenure of
\* the same holder and opens the next one for another.
LEMMA RenewHolderEffect ==
  ASSUME WitnessTypeOK, NEW h \in Hosts, RenewHolder(h), now' = now
  PROVE  /\ lease' \in LeaseRecord
         /\ lease'.holder = h /\ h # None
         /\ lease'.expires > now /\ lease'.expires # 0
         /\ lease'.epoch = IF lease.holder = h THEN lease.epoch ELSE lease.epoch + 1
BY WitnessAssumption DEF WitnessTypeOK, RenewHolder

\* Every step of the witness preserves the types.
LEMMA WitnessTypeStep == WitnessTypeOK /\ [WitnessNext]_<<now, witnessVars>> => WitnessTypeOK'
<1> SUFFICES ASSUME WitnessTypeOK, [WitnessNext]_<<now, witnessVars>>
             PROVE  WitnessTypeOK'
  OBVIOUS
<1>1. CASE RenewPrimary
  <2>1. WitnessTypeOK /\ RenewHolder(Primary) /\ UNCHANGED <<now, observer>>
    BY <1>1 DEF RenewPrimary
  <2> QED
    BY <2>1, RenewHolderEffect DEF WitnessTypeOK
<1>2. CASE GrantBackup
  <2>1. WitnessTypeOK /\ RenewHolder(Backup) /\ UNCHANGED <<now, observer>>
    BY <1>2 DEF GrantBackup
  <2> QED
    BY <2>1, RenewHolderEffect DEF WitnessTypeOK
<1>3. CASE RenewBackup
  <2>1. WitnessTypeOK /\ RenewHolder(Backup) /\ UNCHANGED <<now, observer>>
    BY <1>3 DEF RenewBackup
  <2> QED
    BY <2>1, RenewHolderEffect DEF WitnessTypeOK
<1>4. CASE RevokeBackup
  BY <1>4 DEF RevokeBackup, WitnessTypeOK
<1>5. CASE ExpireLease
  BY <1>5 DEF ExpireLease, WitnessTypeOK
<1>6. CASE Observe
  BY <1>6 DEF Observe, WitnessTypeOK
<1>7. CASE Tick
  BY <1>7 DEF Tick, witnessVars, WitnessTypeOK
<1>8. CASE UNCHANGED <<now, witnessVars>>
  BY <1>8 DEF witnessVars, WitnessTypeOK
<1> QED
  BY <1>1, <1>2, <1>3, <1>4, <1>5, <1>6, <1>7, <1>8 DEF WitnessNext, WitnessCommand

\* What a witness command does to the lease, seen from a host that remembers
\* an earlier one: the clock stands, the epoch does not fall, and under the
\* same epoch a host's lease stays that host's and does not shrink.
LEMMA WitnessMovesForward ==
  ASSUME WitnessTypeOK, WitnessCommand
  PROVE  /\ WitnessTypeOK'
         /\ now' = now /\ observer' = observer
         /\ lease'.epoch >= lease.epoch
         /\ lease'.epoch = lease.epoch /\ lease.holder # None => lease'.holder = lease.holder
         /\ lease.expires <= now + LEASE_TTL =>
              /\ lease'.expires <= now + LEASE_TTL
              /\ lease'.epoch = lease.epoch /\ lease.holder # None =>
                   lease'.expires >= lease.expires
<1>1. lease \in LeaseRecord /\ now \in Nat /\ observer \in Observation /\ LEASE_TTL \in Nat
  BY WitnessAssumption DEF WitnessTypeOK
<1>2. CASE \E h \in Hosts : RenewHolder(h) /\ UNCHANGED <<now, observer>>
  <2>1. PICK h \in Hosts : RenewHolder(h) /\ UNCHANGED <<now, observer>>
    BY <1>2
  <2>2. WitnessTypeOK'
    BY <2>1, RenewHolderEffect DEF WitnessTypeOK
  <2>3. /\ lease'.holder = h /\ lease'.expires = now + LEASE_TTL
        /\ lease'.epoch = IF lease.holder = h THEN lease.epoch ELSE lease.epoch + 1
    BY <2>1 DEF RenewHolder
  <2> QED
    BY <1>1, <2>1, <2>2, <2>3
<1>3. CASE RevokeBackup
  BY <1>1, <1>3 DEF RevokeBackup, WitnessTypeOK
<1>4. CASE ExpireLease
  BY <1>1, <1>4 DEF ExpireLease, WitnessTypeOK
<1>5. RenewPrimary \/ GrantBackup \/ RenewBackup =>
        \E h \in Hosts : RenewHolder(h) /\ UNCHANGED <<now, observer>>
  BY DEF RenewPrimary, GrantBackup, RenewBackup
<1> QED
  BY <1>2, <1>3, <1>4, <1>5 DEF WitnessCommand

\* The lease file always holds a well-formed record and the clock a number.
THEOREM WitnessTypes == WitnessSpec => []WitnessTypeOK
<1>1. WitnessInit => WitnessTypeOK
  BY DEF WitnessInit, WitnessTypeOK
<1> QED
  BY <1>1, WitnessTypeStep, PTL DEF WitnessSpec

-----------------------------------------------------------------------------
\* A renewal for h by the current holder extends its tenure, and for another
\* host begins one.
LEMMA RenewalIsTenureStep ==
  ASSUME WitnessTypeOK, NEW h \in Hosts, RenewHolder(h), now' = now,
         ~ (h = Primary /\ HeldBy(Backup))
  PROVE  Tenure!Next
<1>1. /\ lease'.holder = h
      /\ lease'.expires > now
      /\ lease'.epoch = IF lease.holder = h THEN lease.epoch ELSE lease.epoch + 1
  BY RenewHolderEffect
<1>2. h # None
  BY WitnessAssumption
<1>3. Live(lease)'
  BY <1>1, <1>2 DEF Live
<1>4. CASE lease.holder = h
  BY <1>1, <1>2, <1>3, <1>4 DEF Tenure!Next, Tenure!Extend
<1>5. CASE lease.holder # h
  <2>1. Tenure!Begin(h)
    BY <1>1, <1>3, <1>5 DEF Tenure!Begin, HeldBy
  <2> QED
    BY <2>1 DEF Tenure!Next
<1> QED
  BY <1>4, <1>5

\* Withdrawing authority ends the tenure; it is a stutter if nobody had it.
LEMMA RevokeIsTenureStep ==
  ASSUME WitnessTypeOK, RevokeBackup
  PROVE  [Tenure!Next]_Tenure!vars
<1>1. ~ Live(lease)'
  BY DEF RevokeBackup, Live
<1>2. CASE lease.holder = Backup
  BY <1>1, <1>2, WitnessAssumption
  DEF RevokeBackup, Tenure!Next, Tenure!End, WitnessTypeOK
<1>3. CASE lease.holder = None
  <2>1. ~ Live(lease)
    BY <1>3 DEF Live
  <2>2. Live(lease)' = Live(lease)
    BY <1>1, <2>1 DEF Live
  <2>3. lease'.holder = lease.holder /\ lease'.epoch = lease.epoch
    BY <1>3, WitnessAssumption DEF RevokeBackup, WitnessTypeOK
  <2> QED
    BY <2>2, <2>3 DEF Tenure!vars
<1> QED
  BY <1>2, <1>3 DEF RevokeBackup, WitnessTypeOK

\* The witness implements the abstract tenures: whatever the commands, their
\* order and the time between them, an epoch names one holder and a primary
\* never takes authority from a backup whose lease is in force.
THEOREM WitnessImplementsTenure == WitnessSpec => WitnessKeepsTenures
<1>1. WitnessInit => Tenure!Init
  BY DEF WitnessInit, Tenure!Init, Live
<1>2. WitnessTypeOK /\ [WitnessNext]_<<now, witnessVars>> => [Tenure!Next]_Tenure!vars
  <2> SUFFICES ASSUME WitnessTypeOK, [WitnessNext]_<<now, witnessVars>>
               PROVE  [Tenure!Next]_Tenure!vars
    OBVIOUS
  <2>1. CASE RenewPrimary
    BY <2>1, RenewalIsTenureStep DEF RenewPrimary
  <2>2. CASE GrantBackup
    BY <2>2, RenewalIsTenureStep, WitnessAssumption DEF GrantBackup
  <2>3. CASE RenewBackup
    BY <2>3, RenewalIsTenureStep, WitnessAssumption DEF RenewBackup
  <2>4. CASE RevokeBackup
    BY <2>4, RevokeIsTenureStep
  <2>5. CASE ExpireLease
    <3>1. ~ Live(lease) /\ ~ Live(lease)'
      BY <2>5 DEF ExpireLease, Live, WitnessTypeOK
    <3> QED
      BY <2>5, <3>1 DEF ExpireLease, Tenure!Next, Tenure!End
  <2>6. CASE Observe
    BY <2>6 DEF Observe, Live, Tenure!vars
  <2>7. CASE Tick
    <3>1. Live(lease)' => Live(lease)
      BY <2>7 DEF Tick, witnessVars, Live, WitnessTypeOK
    <3>2. CASE Live(lease) /\ ~ Live(lease)'
      BY <2>7, <3>2 DEF Tick, witnessVars, Tenure!Next, Tenure!Lapse, Live
    <3>3. CASE Live(lease)' <=> Live(lease)
      BY <2>7, <3>3 DEF Tick, witnessVars, Tenure!vars, Live
    <3> QED
      BY <3>1, <3>2, <3>3
  <2>8. CASE UNCHANGED <<now, witnessVars>>
    BY <2>8 DEF witnessVars, Tenure!vars, Live
  <2> QED
    BY <2>1, <2>2, <2>3, <2>4, <2>5, <2>6, <2>7, <2>8 DEF WitnessNext, WitnessCommand
<1> QED
  BY <1>1, <1>2, WitnessTypes, PTL DEF WitnessSpec, WitnessKeepsTenures, Tenure!Spec
=============================================================================
