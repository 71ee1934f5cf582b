--------------------------- MODULE SharedEndpoint ---------------------------
(***************************************************************************)
(* The service address the two hosts share                                 *)
(* (src/watch/recovery/spot-failover-endpoint.sh, run on both by a timer   *)
(* and by hand) and the witness that says whose it is.  A flock excludes   *)
(* the script from itself on each host; a run that finds it taken exits.   *)
(***************************************************************************)
EXTENDS WitnessAuthority

CONSTANT ProbeTime   \* arping -D ends within 4 s: one tick

ASSUME EndpointAssumption == ProbeTime \in Nat

VARIABLES address,    \* the hosts that have the address on their interface
          allowed,    \* the hosts whose own files allow it: no fence on the primary;
                      \* on the backup, where bash ignores errexit in a condition,
                      \* the last line looked for in the authority file
          pass,       \* the run of the script that holds the lock of a host
          acquired    \* aux: when a host last added the address

endpointVars == <<address, allowed, pass, acquired>>

Other(h) == IF h = Primary THEN Backup ELSE Primary

\* enforce and acquire each ask the witness; reply: what it said of this host.
Steps   == {"idle", "enforce", "acquire", "probe"}
Replies == {"none", "valid", "refused"}
Passes  == [step : Steps, reply : Replies, since : Nat]

Asking(step) == [step |-> step, reply |-> "none", since |-> 0]
NoPass       == Asking("idle")

EndpointTypeOK ==
  /\ WitnessTypeOK
  /\ address \subseteq Hosts
  /\ allowed \subseteq Hosts
  /\ pass \in [Hosts -> Passes]
  /\ acquired \in [Hosts -> Nat]

EndpointInit ==
  /\ WitnessInit
  /\ address = {}
  /\ allowed \in SUBSET Hosts
  /\ pass = [h \in Hosts |-> NoPass]
  /\ acquired = [h \in Hosts |-> 0]

Goto(h, next) == pass' = [pass EXCEPT ![h] = next]

\* The timer runs enforce, the operator acquire.
PassStarts(h, action) ==
  /\ pass[h] = NoPass
  /\ Goto(h, Asking(action))
  /\ UNCHANGED <<now, witnessVars, address, allowed, acquired>>

\* lease_allows_endpoint: the clock was read before the request, so a reply
\* that was valid when the witness gave it is taken for valid whenever it comes.
WitnessAnswers(h) ==
  /\ pass[h].step \in {"enforce", "acquire"}
  /\ pass[h].reply = "none"
  /\ \E r \in {"refused"} \cup (IF HeldBy(h) THEN {"valid"} ELSE {}) :
       Goto(h, [pass[h] EXCEPT !.reply = r])
  /\ UNCHANGED <<now, witnessVars, address, allowed, acquired>>

Authorized(h) == pass[h].reply = "valid" /\ h \in allowed

\* Mutant: a pass that is not authorized ends, and the address stays.
EnforceOnlyAcquires(h) ==
  /\ pass[h].step = "enforce"
  /\ pass[h].reply # "none"
  /\ Goto(h, IF Authorized(h) THEN Asking("acquire") ELSE NoPass)
  /\ UNCHANGED <<now, witnessVars, address, allowed, acquired>>

\* enforce: acquire asks the witness again, and release takes the address away.
EnforceDecides(h) ==
  /\ pass[h].step = "enforce"
  /\ pass[h].reply # "none"
  /\ Goto(h, IF Authorized(h) THEN Asking("acquire") ELSE NoPass)
  /\ address' = IF Authorized(h) THEN address ELSE address \ {h}
  /\ UNCHANGED <<now, witnessVars, allowed, acquired>>

\* Mutant: the probe's verdict is ignored.
AcquireUnprobed(h) ==
  /\ pass[h].step = "acquire"
  /\ pass[h].reply # "none"
  /\ Goto(h, IF Authorized(h) /\ h \notin address
               THEN [step |-> "probe", reply |-> "none", since |-> now] ELSE NoPass)
  /\ UNCHANGED <<now, witnessVars, address, allowed, acquired>>

\* acquire: a host that may not have the address, has it already, or whose
\* first probe is answered, leaves everything as it is.
AcquireDecides(h) ==
  /\ pass[h].step = "acquire"
  /\ pass[h].reply # "none"
  /\ Goto(h, IF Authorized(h) /\ address = {}
               THEN [step |-> "probe", reply |-> "none", since |-> now] ELSE NoPass)
  /\ UNCHANGED <<now, witnessVars, address, allowed, acquired>>

\* A later probe is answered, or arping or ip address add fails.
AcquireFails(h) ==
  /\ pass[h].step = "probe"
  /\ Goto(h, NoPass)
  /\ UNCHANGED <<now, witnessVars, address, allowed, acquired>>

\* No probe was answered; another host may have the address since the last.
AddAddress(h) ==
  /\ pass[h].step = "probe"
  /\ address' = address \cup {h}
  /\ acquired' = [acquired EXCEPT ![h] = now]
  /\ Goto(h, NoPass)
  /\ UNCHANGED <<now, witnessVars, allowed>>

\* The operator's release.
Release(h) ==
  /\ pass[h] = NoPass
  /\ address' = address \ {h}
  /\ UNCHANGED <<now, witnessVars, allowed, pass, acquired>>

\* The scripts of the host change the files local_state_allows_endpoint reads.
LocalStateChanges(h) ==
  /\ allowed' = IF h \in allowed THEN allowed \ {h} ELSE allowed \cup {h}
  /\ UNCHANGED <<now, witnessVars, address, pass, acquired>>

\* The address is not configured at boot.
Reboots(h) ==
  /\ address' = address \ {h}
  /\ Goto(h, NoPass)
  /\ UNCHANGED <<now, witnessVars, allowed, acquired>>

PassStep(h) == \/ WitnessAnswers(h) \/ EnforceDecides(h) \/ AcquireDecides(h)
               \/ AcquireFails(h) \/ AddAddress(h)

EndpointStep(h) == \/ \E action \in {"enforce", "acquire"} : PassStarts(h, action)
                   \/ PassStep(h)
                   \/ Release(h) \/ LocalStateChanges(h) \/ Reboots(h)

ProbesEnd == \A h \in Hosts : pass[h].step = "probe" => now < pass[h].since + ProbeTime

Elsewhere == WitnessNext /\ (now' > now => ProbesEnd) /\ UNCHANGED endpointVars

EndpointNext == (\E h \in Hosts : EndpointStep(h)) \/ Elsewhere

endVars == <<now, witnessVars, endpointVars>>

\* The timer fires again until its run finds the lock free, and a run that has
\* the lock goes on.
EndpointFairness == \A h \in Hosts : SF_endVars(PassStarts(h, "enforce")) /\ WF_endVars(PassStep(h))

EndpointSpec == EndpointInit /\ [][EndpointNext]_endVars
EndpointFairSpec == EndpointSpec /\ EndpointFairness

-----------------------------------------------------------------------------
\* The address is on both hosts only when their probes overlapped: each added it
\* within one probe of the other, whatever the witness said to whom and however
\* old its replies were (acquire: arping -D before ip address add).
HeldAlone ==
  Hosts \subseteq address => \A h \in Hosts : acquired[h] <= acquired[Other(h)] + ProbeTime

\* What lease_allows_endpoint and local_state_allows_endpoint ask for.
Entitled(h) == HeldBy(h) /\ h \in allowed

\* A host that has the address and may not loses it, or may have it again: no reply
\* that was true when it left the witness keeps the address for good (enforce).
AddressFollowsLease ==
  \A h \in Hosts : h \in address /\ ~Entitled(h) ~> h \notin address \/ Entitled(h)
=============================================================================
