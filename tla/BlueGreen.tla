-------------------------------- MODULE BlueGreen --------------------------------
(***************************************************************************)
(* One call of Execute of the blue/green strategy                          *)
(* (internal/strategy/blue_green.go).  The green replicas are copies of    *)
(* the blue ones with another ContainerID; Execute waits for the health of *)
(* each, announces the switch of the traffic, sits out the verification    *)
(* period and announces the removal of the blue replicas.  It never calls  *)
(* UpdateReplica or RollbackReplica: switching and removing are prints, so  *)
(* "traffic" and "blueRemoved" are what Execute says it has done.          *)
(***************************************************************************)
EXTENDS StrategyPlan

CONSTANT Configs   \* the configurations a deployment may be started with

ConfigType ==
  [kind: {BlueGreen}, n: Nat, percentage: Int, success: Int, failure: Int,
   rollback: BOOLEAN, pre: BOOLEAN, post: BOOLEAN]

ASSUME ConfigsAssumption == Configs \subseteq ConfigType

VARIABLES
  cfg, pc, check,
  ok, bad,       \* successCount and failureCount of waitForHealth
  expired,       \* ctx.Err() # nil
  verified,      \* green replicas waitForHealth has returned healthy for
  traffic,       \* the environment Execute has announced as serving
  blueRemoved,   \* Execute has announced the removal of the blue replicas
  outcome        \* what Execute returns

vars == <<cfg, pc, check, ok, bad, expired, verified, traffic, blueRemoved, outcome>>

Replicas == 1 .. cfg.n
Failures == {"rejected", "replicas", "pre", "health", "timeout"}

TypeOK ==
  /\ cfg \in Configs
  /\ pc \in {"configure", "list", "pre", "health", "verify", "done"}
  /\ check \in Nat /\ ok \in Nat /\ bad \in Nat
  /\ expired \in BOOLEAN /\ blueRemoved \in BOOLEAN
  /\ verified \subseteq Replicas
  /\ traffic \in {"blue", "green"}
  /\ outcome \in Failures \union {"none", "success"}

Init ==
  /\ cfg \in Configs
  /\ pc = "configure" /\ check = 1 /\ ok = 0 /\ bad = 0
  /\ expired = FALSE /\ verified = {}
  /\ traffic = "blue" /\ blueRemoved = FALSE
  /\ outcome = "none"

\* Every error return; the rollback closure only prints.
Fail(why) == outcome' = why /\ pc' = "done"

\* NewUpdateStrategy and Configure.
Configure ==
  /\ pc = "configure"
  /\ \/ ValidConfig(cfg) /\ pc' = "list" /\ UNCHANGED outcome
     \/ ~ValidConfig(cfg) /\ Fail("rejected")
  /\ UNCHANGED <<cfg, check, ok, bad, expired, verified, traffic, blueRemoved>>

\* GetServiceReplicas, then the green copies.
ListReplicas ==
  /\ pc = "list"
  /\ \/ Fail("replicas")
     \/ cfg.n > 0 /\ pc' = "pre" /\ UNCHANGED outcome
  /\ UNCHANGED <<cfg, check, ok, bad, expired, verified, traffic, blueRemoved>>

\* executeCommand is a placeholder that always returns an error.
PreCommand ==
  /\ pc = "pre"
  /\ IF cfg.pre THEN Fail("pre") ELSE pc' = "health" /\ UNCHANGED outcome
  /\ UNCHANGED <<cfg, check, ok, bad, expired, verified, traffic, blueRemoved>>

\* waitForHealth, the branch of the select that finds the context done.
ContextDone ==
  /\ pc = "health" /\ expired
  /\ Fail("health")
  /\ UNCHANGED <<cfg, check, ok, bad, expired, verified, traffic, blueRemoved>>

\* Slip: blue is removed together with the switch.
SwitchAndRemove == pc' = "verify" /\ traffic' = "green" /\ blueRemoved' = TRUE

\* The last green replica is healthy: announce the switch.  Errors of the
\* post-update command are only printed.
Switch == pc' = "verify" /\ traffic' = "green" /\ UNCHANGED blueRemoved

\* Slip: the loop over the green replicas ends one early.
LastGreenEarly == check + 1 >= cfg.n

LastGreen == check = cfg.n

HealthyCheck ==
  /\ pc = "health"
  /\ IF ok + 1 >= RequiredSuccesses(cfg)
     THEN /\ verified' = verified \union {check}
          /\ check' = check + 1 /\ ok' = 0 /\ bad' = 0
          /\ IF LastGreen THEN Switch
             ELSE UNCHANGED <<pc, traffic, blueRemoved>>
     ELSE /\ ok' = ok + 1 /\ bad' = 0
          /\ UNCHANGED <<pc, check, verified, traffic, blueRemoved>>
  /\ UNCHANGED <<cfg, expired, outcome>>

UnhealthyCheck ==
  /\ pc = "health"
  /\ bad' = bad + 1 /\ ok' = 0
  /\ IF bad + 1 >= AllowedFailures(cfg)
     THEN Fail("health") ELSE UNCHANGED <<pc, outcome>>
  /\ UNCHANGED <<cfg, check, expired, verified, traffic, blueRemoved>>

\* The verification period: a select between the context and the timer.  The
\* error of the context is returned without calling the rollback closure.
VerificationTimedOut ==
  /\ pc = "verify" /\ expired
  /\ Fail("timeout")
  /\ UNCHANGED <<cfg, check, ok, bad, expired, verified, traffic, blueRemoved>>

RemoveBlue ==
  /\ pc = "verify"
  /\ blueRemoved' = TRUE
  /\ outcome' = "success" /\ pc' = "done"
  /\ UNCHANGED <<cfg, check, ok, bad, expired, verified, traffic>>

Expire ==
  /\ pc \notin {"configure", "done"} /\ ~expired
  /\ expired' = TRUE
  /\ UNCHANGED <<cfg, pc, check, ok, bad, verified, traffic, blueRemoved, outcome>>

Returned == pc = "done" /\ UNCHANGED vars

Execute ==
  \/ Configure \/ ListReplicas \/ PreCommand
  \/ ContextDone \/ HealthyCheck \/ UnhealthyCheck
  \/ VerificationTimedOut \/ RemoveBlue

Next == Execute \/ Expire \/ Returned

Spec == Init /\ [][Next]_vars

-----------------------------------------------------------------------------
(***************************************************************************)
(* Properties                                                              *)
(***************************************************************************)
\* "It creates a new set of instances, verifies their health, and then
\* switches traffic": green is announced only when every green replica has
\* passed its health wait, and blue is given up only once green is announced.
SwitchOnlyWhenHealthy ==
  /\ traffic = "green" => verified = Replicas
  /\ blueRemoved => traffic = "green"

\* A deployment that fails, the timeout of the verification period included,
\* leaves the blue replicas in place.
FailureKeepsBlue == outcome \in Failures => ~blueRemoved
================================================================================
