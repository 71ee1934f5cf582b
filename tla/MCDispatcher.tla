---------------------------- MODULE MCDispatcher ----------------------------
(***************************************************************************)
(* TLC instance of Dispatcher, cut from cluster_config.json: a worker of   *)
(* one lane that owns a role and one of two lanes that can serve it.  Two  *)
(* requests are of the owned role, and one of them may not fall back; the  *)
(* third is of a role without owner and names its worker.                  *)
(***************************************************************************)
EXTENDS Dispatcher

CONSTANTS r1, r2, r3, owner, second

Lane(w, l) == <<w, l, "model">>

MCRequests   == {r1, r2, r3}
MCCandidates == {Lane(owner, "gpu0"), Lane(second, "gpu0"), Lane(second, "gpu1")}
MCWorkerOf   == [c \in MCCandidates |-> c[1]]
MCPlacesOf   == [c \in MCCandidates |-> {<<c[1]>>, <<c[1], c[2]>>, c}]
MCLimit      == [p \in UNION {MCPlacesOf[c] : c \in MCCandidates} |->
                   IF p = <<second>> THEN 2 ELSE 1]
MCSuits      == [r \in MCRequests |-> MCCandidates]
MCOwnerOf    == [r \in MCRequests |-> IF r = r2 THEN None ELSE owner]
MCFallback   == {r1, r2}
MCPin        == [r \in MCRequests |-> IF r = r2 THEN second ELSE None]
=============================================================================
