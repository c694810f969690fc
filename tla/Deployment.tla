------------------------------- MODULE Deployment -------------------------------
(***************************************************************************)
(* What a rolling deployment promises, whatever the strategy: the fleet is  *)
(* changed in waves of at most "limit" replicas, a wave opens only when the *)
(* replicas of the earlier ones are confirmed, success means that the whole *)
(* fleet is confirmed, and after a failure replicas are only taken back.    *)
(* Rollout implements it.                                                   *)
(***************************************************************************)
EXTENDS Naturals, FiniteSets

VARIABLES
  fleet,      \* the replicas of the service
  limit,      \* the largest wave
  wave,       \* the replicas being changed now
  changed,    \* the replicas that run the new image
  confirmed,  \* the replicas found healthy on it
  phase       \* "running", "failed" (taking back), "succeeded" or "settled"

vars == <<fleet, limit, wave, changed, confirmed, phase>>

Init ==
  /\ wave = {} /\ changed = {} /\ confirmed = {}
  /\ phase = "running"

OpenWave ==
  /\ phase = "running" /\ wave = {}
  /\ wave' \in (SUBSET (fleet \ changed)) \ {{}}
  /\ Cardinality(wave') <= limit
  /\ UNCHANGED <<fleet, limit, changed, confirmed, phase>>

Change ==
  /\ phase = "running"
  /\ \E r \in wave \ changed : changed' = changed \union {r}
  /\ UNCHANGED <<fleet, limit, wave, confirmed, phase>>

\* The wave closes with its last confirmation.
Confirm ==
  /\ phase = "running" /\ wave \subseteq changed
  /\ \E r \in wave \ confirmed : confirmed' = confirmed \union {r}
  /\ wave' = IF wave \subseteq confirmed' THEN {} ELSE wave
  /\ UNCHANGED <<fleet, limit, changed, phase>>

Succeed ==
  /\ phase = "running" /\ confirmed = fleet /\ changed = fleet
  /\ phase' = "succeeded"
  /\ UNCHANGED <<fleet, limit, wave, changed, confirmed>>

\* Giving up: the replica at hand may or may not have been changed, and
\* there may be nothing to take back.
GiveUp ==
  /\ phase = "running"
  /\ phase' \in {"failed", "settled"} /\ wave' = {}
  /\ \/ UNCHANGED changed
     \/ \E r \in wave : changed' = changed \union {r}
  /\ UNCHANGED <<fleet, limit, confirmed>>

TakeBack ==
  /\ phase = "failed"
  /\ \E r \in changed : changed' = changed \ {r}
  /\ UNCHANGED <<fleet, limit, wave, confirmed, phase>>

Settle ==
  /\ phase = "failed" /\ phase' = "settled"
  /\ UNCHANGED <<fleet, limit, wave, changed, confirmed>>

Next == OpenWave \/ Change \/ Confirm \/ Succeed \/ GiveUp \/ TakeBack \/ Settle

Safety == Init /\ [][Next]_vars
Spec   == Safety /\ <>(phase \in {"succeeded", "settled"})
================================================================================
