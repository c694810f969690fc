-------------------------------- MODULE Rollout --------------------------------
(***************************************************************************)
(* One call of Execute of the one-at-a-time, percentage and canary         *)
(* strategies (internal/strategy), together with the health-check loop     *)
(* waitForHealth, the context deadline that runs beside them and the       *)
(* rollback closure every error path calls.                                *)
(*                                                                         *)
(* Replicas are the positions 1..n of the list the loop ranges over (sorted *)
(* by ReplicaID for one-at-a-time, in cache order for the others).         *)
(*                                                                         *)
(* PerReplica says what the ReplicaManager behind the interface does:      *)
(* TRUE is the interface the strategies are written for (and their tests   *)
(* mock): a call changes the replica it names.  FALSE is                   *)
(* replica.ReplicaManager: UpdateReplica rewrites the compose file and     *)
(* recreates every container of the service, RollbackReplica only fails.   *)
(***************************************************************************)
EXTENDS StrategyPlan

CONSTANTS Configs,     \* the configurations a deployment may be started with
          PerReplica   \* see above

ConfigType ==
  [kind: BatchKinds, n: Nat, percentage: Int, success: Int, failure: Int,
   rollback: BOOLEAN, pre: BOOLEAN, post: BOOLEAN]

ASSUME ConfigsAssumption == Configs \subseteq ConfigType
ASSUME PerReplicaAssumption == PerReplica \in BOOLEAN

VARIABLES
  cfg,        \* the configuration and the number of replicas
  pc,         \* where Execute stands
  base,       \* i, the replicas of the batches already finished
  next,       \* the replica the update loop is at
  check,      \* the replica the health loop is at
  ok, bad,    \* successCount and failureCount of waitForHealth
  expired,    \* ctx.Err() # nil
  updated,    \* updatedReplicas
  verified,   \* replicas waitForHealth has returned healthy for
  version,    \* the image each replica really runs
  undone,     \* replicas RollbackReplica has been called for
  outcome,    \* what Execute returns
  \* history, read by the properties only
  culprit,    \* replicas whose UpdateReplica returned an error
  undoFailed, \* some RollbackReplica returned an error
  dummyUndo,  \* RollbackReplica was called for the dummy replica
  run,        \* for each replica, the length of the current run of equal checks
              \* made for it, < 0 for failures
  late        \* UpdateReplica calls issued after the deadline

control == <<cfg, pc, base, next, check, ok, bad, expired>>
history == <<culprit, undoFailed, dummyUndo, run, late>>
vars == <<control, updated, verified, version, undone, outcome, history>>

Replicas == 1 .. cfg.n
BatchStop == BatchEnd(cfg, base)

Failures == {"rejected", "replicas", "timeout", "pre", "update", "health", "post"}

TypeOK ==
  /\ cfg \in Configs
  /\ pc \in {"configure", "list", "batch", "update", "health", "hook",
             "delay", "finish", "rollback", "done"}
  /\ base \in Nat /\ next \in Nat /\ check \in Nat
  /\ ok \in Nat /\ bad \in Nat
  /\ expired \in BOOLEAN
  /\ updated \subseteq Replicas /\ verified \subseteq Replicas
  /\ undone \subseteq Replicas /\ culprit \subseteq Replicas
  /\ version \in [Replicas -> {"old", "new"}]
  /\ outcome \in Failures \union {"none", "success"}
  /\ undoFailed \in BOOLEAN /\ dummyUndo \in BOOLEAN
  /\ run \in [Replicas -> Int] /\ late \in Nat

Init ==
  /\ cfg \in Configs
  /\ pc = "configure"
  /\ base = 0 /\ next = 1 /\ check = 1 /\ ok = 0 /\ bad = 0
  /\ expired = FALSE
  /\ updated = {} /\ verified = {} /\ undone = {}
  /\ version = [r \in Replicas |-> "old"]
  /\ outcome = "none"
  /\ culprit = {} /\ undoFailed = FALSE /\ dummyUndo = FALSE
  /\ run = [r \in Replicas |-> 0] /\ late = 0

-----------------------------------------------------------------------------
\* An error return that runs the rollback closure first; the closure returns
\* at once when RollbackOnFailure is not set.
Fail(why) ==
  /\ outcome' = why
  /\ pc' = IF cfg.rollback THEN "rollback" ELSE "done"

\* An error return that does not.
Abort(why) == outcome' = why /\ pc' = "done"

\* NewUpdateStrategy and Configure: defaults, then Validate.
Configure ==
  /\ pc = "configure"
  /\ \/ ValidConfig(cfg) /\ pc' = "list" /\ UNCHANGED outcome
     \/ ~ValidConfig(cfg) /\ Abort("rejected")
  /\ UNCHANGED <<cfg, base, next, check, ok, bad, expired, updated, verified,
                 version, undone, history>>

\* GetServiceReplicas: an error, an empty list, or the replicas.
ListReplicas ==
  /\ pc = "list"
  /\ \/ Abort("replicas")
     \/ cfg.n > 0 /\ pc' = "batch" /\ UNCHANGED outcome
  /\ UNCHANGED <<cfg, base, next, check, ok, bad, expired, updated, verified,
                 version, undone, history>>

\* The head of the batch loop looks at the context, except that canary
\* starts its first batch without looking.
\* Slip: the head of the loop never looks.
NeverChecksContext == FALSE

ChecksContext == ~(cfg.kind = Canary /\ base = 0)

BatchTimedOut ==
  /\ pc = "batch"
  /\ ChecksContext /\ expired
  /\ Fail("timeout")
  /\ UNCHANGED <<cfg, base, next, check, ok, bad, expired, updated, verified,
                 version, undone, history>>

StartBatch ==
  /\ pc = "batch"
  /\ ~(ChecksContext /\ expired)
  /\ pc' = "update" /\ next' = base + 1
  /\ UNCHANGED <<cfg, base, check, ok, bad, expired, updated, verified,
                 version, undone, outcome, history>>

-----------------------------------------------------------------------------
\* executeCommand is a placeholder that always returns an error.  Canary runs
\* the pre-update command for its first batch only.
RunsPreCommand == cfg.pre /\ (cfg.kind = Canary => base = 0)

PreCommand ==
  /\ pc = "update" /\ RunsPreCommand
  /\ Fail("pre")
  /\ UNCHANGED <<cfg, base, next, check, ok, bad, expired, updated, verified,
                 version, undone, history>>

\* What UpdateReplica(r) can leave behind when it returns nil, and when it
\* returns an error: the file may be rewritten and some of the containers
\* recreated before "docker compose up" fails.
UpdateEffects(r) ==
  IF PerReplica THEN {[version EXCEPT ![r] = "new"]}
  ELSE {[s \in Replicas |-> "new"]}

UpdateErrorEffects(r) ==
  IF PerReplica THEN {version, [version EXCEPT ![r] = "new"]}
  ELSE {v \in [Replicas -> {"old", "new"}] :
          \A s \in Replicas : version[s] = "new" => v[s] = "new"}

\* Slip: updatedReplicas is assigned instead of appended to.
RememberLast(r) == updated' = {r}

\* append(updatedReplicas, r)
Remember(r) == updated' = updated \union {r}

\* Slip: only the last replica of the batch is waited for.
WaitForLast ==
  pc' = "health" /\ check' = BatchStop /\ ok' = 0 /\ bad' = 0

\* The first waitForHealth of the batch.
WaitForBatch ==
  pc' = "health" /\ check' = base + 1 /\ ok' = 0 /\ bad' = 0

UpdateReplica ==
  /\ pc = "update" /\ ~RunsPreCommand
  /\ version' \in UpdateEffects(next)
  /\ Remember(next)
  /\ late' = IF expired THEN late + 1 ELSE late
  /\ next' = next + 1
  /\ IF next = BatchStop THEN WaitForBatch
     ELSE UNCHANGED <<pc, check, ok, bad>>
  /\ UNCHANGED <<cfg, base, expired, verified, undone, outcome,
                 culprit, undoFailed, dummyUndo, run>>

UpdateReplicaFails ==
  /\ pc = "update" /\ ~RunsPreCommand
  /\ version' \in UpdateErrorEffects(next)
  /\ culprit' = culprit \union {next}
  /\ late' = IF expired THEN late + 1 ELSE late
  /\ Fail("update")
  /\ UNCHANGED <<cfg, base, next, check, ok, bad, expired, updated, verified,
                 undone, undoFailed, dummyUndo, run>>

-----------------------------------------------------------------------------
\* waitForHealth: the select takes the context or the ticker, whichever is
\* ready, at random when both are.
ContextDone ==
  /\ pc = "health" /\ expired
  /\ Fail("health")
  /\ UNCHANGED <<cfg, base, next, check, ok, bad, expired, updated, verified,
                 version, undone, history>>

\* The batch is over: the next one, after the delay unless canary, or the end.
AfterBatch ==
  IF BatchStop = cfg.n THEN pc' = "finish" /\ UNCHANGED base
  ELSE IF cfg.kind = Canary THEN pc' = "batch" /\ base' = BatchStop
  ELSE pc' = "delay" /\ UNCHANGED base

\* Slip: the health loop stops one replica short.
NextCheckShort ==
  /\ check' = check + 1 /\ ok' = 0 /\ bad' = 0
  /\ IF check + 1 >= BatchStop THEN AfterBatch
     ELSE pc' = "health" /\ UNCHANGED base

\* Slip: the counts go on from one replica to the next.
NextCheckKeepsCounts ==
  /\ check' = check + 1 /\ UNCHANGED <<ok, bad>>
  /\ IF check = BatchStop THEN AfterBatch ELSE pc' = "health" /\ UNCHANGED base

\* The health loop moves on to the next replica of the batch: the next call of
\* waitForHealth starts its own counts.
NextCheck ==
  /\ check' = check + 1 /\ ok' = 0 /\ bad' = 0
  /\ IF check = BatchStop THEN AfterBatch ELSE pc' = "health" /\ UNCHANGED base

\* Check returned true.
HealthyCheck ==
  /\ pc = "health"
  /\ run' = [run EXCEPT ![check] = IF @ > 0 THEN @ + 1 ELSE 1]
  /\ IF ok + 1 >= RequiredSuccesses(cfg)
     THEN /\ verified' = verified \union {check}
          /\ IF cfg.post /\ cfg.kind # Canary
             THEN pc' = "hook" /\ UNCHANGED <<base, check, ok, bad>>
             ELSE NextCheck
     ELSE /\ ok' = ok + 1 /\ bad' = 0
          /\ UNCHANGED <<pc, base, check, verified>>
  /\ UNCHANGED <<cfg, next, expired, updated, version, undone, outcome,
                 culprit, undoFailed, dummyUndo, late>>

\* Check returned false, or an error.
UnhealthyCheck ==
  /\ pc = "health"
  /\ run' = [run EXCEPT ![check] = IF @ < 0 THEN @ - 1 ELSE 0 - 1]
  /\ bad' = bad + 1 /\ ok' = 0
  /\ IF bad + 1 >= AllowedFailures(cfg)
     THEN Fail("health") ELSE UNCHANGED <<pc, outcome>>
  /\ UNCHANGED <<cfg, base, next, check, expired, updated, verified, version,
                 undone, culprit, undoFailed, dummyUndo, late>>

\* The post-update command of a replica: always an error, see PreCommand.
PostCommand ==
  /\ pc = "hook"
  /\ Fail("post")
  /\ UNCHANGED <<cfg, base, next, check, ok, bad, expired, updated, verified,
                 version, undone, history>>

\* DelayBetweenUpdates: a select between the context and the timer.
DelayTimedOut ==
  /\ pc = "delay" /\ expired
  /\ Fail("timeout")
  /\ UNCHANGED <<cfg, base, next, check, ok, bad, expired, updated, verified,
                 version, undone, history>>

DelayOver ==
  /\ pc = "delay"
  /\ pc' = "batch" /\ base' = BatchStop
  /\ UNCHANGED <<cfg, next, check, ok, bad, expired, updated, verified,
                 version, undone, outcome, history>>

\* After the last batch.  Canary runs the post-update command here, and
\* returns its error without calling the rollback closure.
Finish ==
  /\ pc = "finish"
  /\ Abort(IF cfg.kind = Canary /\ cfg.post THEN "post" ELSE "success")
  /\ UNCHANGED <<cfg, base, next, check, ok, bad, expired, updated, verified,
                 version, undone, history>>

-----------------------------------------------------------------------------
\* The rollback closure.  With nothing updated it calls RollbackReplica for a
\* dummy replica; otherwise it walks updatedReplicas in order and goes on when
\* a call fails.
RollbackNothing ==
  /\ pc = "rollback" /\ updated = {}
  /\ dummyUndo' = TRUE /\ pc' = "done"
  /\ UNCHANGED <<cfg, base, next, check, ok, bad, expired, updated, verified,
                 version, undone, outcome, culprit, undoFailed, run, late>>

\* Slip: the closure returns at the first call that fails.
RollbackReplicaOrStop ==
  /\ pc = "rollback"
  /\ \E r \in updated \ undone :
       /\ \A s \in updated \ undone : r <= s
       /\ undone' = undone \union {r}
       /\ \/ /\ version' = [version EXCEPT ![r] = "old"]
             /\ UNCHANGED <<undoFailed, pc>>
          \/ undoFailed' = TRUE /\ pc' = "done" /\ UNCHANGED version
  /\ UNCHANGED <<cfg, base, next, check, ok, bad, expired, updated, verified,
                 outcome, culprit, dummyUndo, run, late>>

RollbackReplica ==
  /\ pc = "rollback"
  /\ \E r \in updated \ undone :
       /\ \A s \in updated \ undone : r <= s
       /\ undone' = undone \union {r}
       /\ \/ /\ PerReplica
             /\ version' = [version EXCEPT ![r] = "old"]
             /\ UNCHANGED undoFailed
          \/ undoFailed' = TRUE /\ UNCHANGED version
  /\ UNCHANGED <<control, updated, verified, outcome, culprit, dummyUndo, run,
                 late>>

RollbackOver ==
  /\ pc = "rollback" /\ updated # {} /\ updated \subseteq undone
  /\ pc' = "done"
  /\ UNCHANGED <<cfg, base, next, check, ok, bad, expired, updated, verified,
                 version, undone, outcome, history>>

\* context.WithTimeout fires.
Expire ==
  /\ pc \notin {"configure", "done"} /\ ~expired
  /\ expired' = TRUE
  /\ UNCHANGED <<cfg, pc, base, next, check, ok, bad, updated, verified,
                 version, undone, outcome, history>>

\* Execute has returned.
Returned == pc = "done" /\ UNCHANGED vars

Execute ==
  \/ Configure \/ ListReplicas \/ BatchTimedOut \/ StartBatch
  \/ PreCommand \/ UpdateReplica \/ UpdateReplicaFails
  \/ ContextDone \/ HealthyCheck \/ UnhealthyCheck \/ PostCommand
  \/ DelayTimedOut \/ DelayOver \/ Finish
  \/ RollbackNothing \/ RollbackReplica \/ RollbackOver

Next == Execute \/ Expire \/ Returned

\* The goroutine keeps running (every call it makes returns), the timer of the
\* context fires, and a select that finds the context done again and again
\* takes that branch in the end: Go picks among ready cases at random.
Fairness == WF_vars(Execute) /\ WF_vars(Expire) /\ WF_vars(ContextDone)

Spec == Init /\ [][Next]_vars /\ Fairness

-----------------------------------------------------------------------------
(***************************************************************************)
(* Properties                                                              *)
(***************************************************************************)
\* Execute returns nil only when every replica of the service runs the new
\* image and has passed its health wait after the update.
SuccessMeansVerified ==
  outcome = "success" =>
    /\ verified = Replicas /\ updated = Replicas
    /\ \A r \in Replicas : version[r] = "new"

\* "It updates all replicas one by one, waiting for health checks to pass
\* between updates" (one_at_a_time.go), and the same batch by batch: until the
\* rollback starts, a replica that runs the new image and has not been found
\* healthy belongs to the current batch.
BlastRadius ==
  pc \notin {"rollback", "done"} =>
    \A r \in Replicas :
      version[r] = "new" /\ r \notin verified => r \in base + 1 .. BatchStop

\* The one error return behind the updates that calls no rollback closure.
UnrolledBack == cfg.kind = Canary /\ outcome = "post"

\* Once a deployment has failed, RollbackReplica was called for exactly the
\* replicas that had been updated, or for the dummy when there were none.  The
\* failure of canary's last command is the exception: nothing is rolled back,
\* and what the error leaves behind is the whole service on the new image, every
\* replica of it found healthy.
RollbackCoversUpdated ==
  pc = "done" /\ cfg.rollback
    /\ outcome \in Failures \ {"rejected", "replicas"} =>
      IF UnrolledBack
      THEN /\ undone = {} /\ ~dummyUndo
           /\ verified = Replicas /\ \A r \in Replicas : version[r] = "new"
      ELSE undone = updated /\ (dummyUndo <=> updated = {})

\* RollbackOnFailure "determines whether to rollback to the previous version
\* if an update fails".  When its calls all work, a rollback can leave a single
\* replica on the new image: the one whose own UpdateReplica call failed, which
\* is not in updatedReplicas.  Canary's last command is the exception: its
\* failure rolls nothing back.
FailureLeavesOnlyCulprit ==
  pc = "done" /\ outcome \in Failures /\ cfg.rollback /\ ~undoFailed
    /\ ~UnrolledBack =>
      /\ \A r \in Replicas : version[r] = "new" => r \in culprit
      /\ \A r, s \in culprit : r = s

\* "Timeout is the maximum duration to wait for a deployment to complete": the
\* context is only looked at between batches, so after the deadline at most
\* one more batch of UpdateReplica calls goes out (one call, one-at-a-time).
LateUpdatesBounded == late <= LargestBatch(cfg)

\* The verdict of waitForHealth rests on consecutive checks made for the replica
\* itself, whatever the replicas of the batch before it were found to be: it
\* counts as healthy after RequiredSuccesses checks of its own in a row, and the
\* deployment is given up for its health only by the deadline or after
\* AllowedFailures in a row of the replica at hand.
VerdictsAreEarned ==
  [][ /\ \A r \in verified' \ verified : run'[r] >= RequiredSuccesses(cfg)
      /\ outcome' = "health" /\ outcome # "health" =>
           expired \/ 0 - run'[check] >= AllowedFailures(cfg) ]_vars
-----------------------------------------------------------------------------
(***************************************************************************)
(* The inductive invariant behind the safety properties: how far the two    *)
(* loops have come at each point of Execute, what the rollback closure has  *)
(* done, which images run, and how many calls can have gone out late.       *)
(***************************************************************************)
InLoop == pc \in {"batch", "update", "health", "hook", "delay"}
Running == pc \notin {"rollback", "done"}

LoopPosition ==
  /\ pc \in {"configure", "list"} => base = 0 /\ updated = {} /\ verified = {}
  /\ InLoop => base < cfg.n
  /\ pc = "batch" => updated = 1 .. base /\ verified = 1 .. base
  /\ pc = "update" =>
       /\ base < next /\ next <= BatchStop
       /\ updated = 1 .. next - 1 /\ verified = 1 .. base
  /\ pc = "health" =>
       /\ base < check /\ check <= BatchStop
       /\ updated = 1 .. BatchStop /\ verified = 1 .. check - 1
  /\ pc = "hook" =>
       /\ cfg.kind # Canary
       /\ updated = 1 .. BatchStop /\ 1 .. base \subseteq verified
  /\ pc = "delay" =>
       /\ BatchStop < cfg.n
       /\ updated = 1 .. BatchStop /\ verified = 1 .. BatchStop
  /\ pc = "finish" => updated = Replicas /\ verified = Replicas

ImagesFollowUpdates ==
  /\ Running \/ outcome = "success" => \A r \in updated : version[r] = "new"
  /\ PerReplica /\ Running => \A r \in Replicas : version[r] = "new" => r \in updated

RollbackPosition ==
  /\ Running => outcome = "none" /\ undone = {} /\ ~dummyUndo
  /\ pc = "rollback" =>
       outcome \in Failures /\ cfg.rollback /\ undone \subseteq updated /\ ~dummyUndo
  /\ outcome = "post" /\ pc = "rollback" => cfg.kind # Canary

LatePosition ==
  /\ ~expired => late = 0
  /\ pc \in {"configure", "list"} \/ (pc = "batch" /\ base = 0) => late = 0
  /\ pc = "update" => late <= next - 1 - base

RunPosition ==
  pc = "health" =>
    (ok > 0 => run[check] >= ok) /\ (bad > 0 => 0 - run[check] >= bad)

\* What is still on the new image while the closure walks updatedReplicas.
RestorePosition ==
  /\ Running => culprit = {} /\ ~undoFailed
  /\ \A r, s \in culprit : r = s
  /\ PerReplica /\ pc = "rollback" /\ ~undoFailed =>
       \A r \in Replicas :
         version[r] = "new" => r \in (updated \ undone) \union culprit
  /\ PerReplica => FailureLeavesOnlyCulprit

InductiveInvariant ==
  /\ LoopPosition /\ ImagesFollowUpdates /\ RollbackPosition /\ LatePosition
  /\ RunPosition /\ RestorePosition
  /\ SuccessMeansVerified /\ RollbackCoversUpdated /\ LateUpdatesBounded

-----------------------------------------------------------------------------
\* The refinement: a wave is the current batch until its last replica has been
\* found healthy.
CurrentWave ==
  IF pc \in {"update", "health", "hook", "delay", "finish"}
     /\ ~(base + 1 .. BatchStop \subseteq verified)
  THEN base + 1 .. BatchStop ELSE {}

Phase ==
  IF Running THEN "running"
  ELSE IF pc = "rollback" THEN "failed"
  ELSE IF outcome = "success" THEN "succeeded" ELSE "settled"

Promise == INSTANCE Deployment WITH
  fleet <- Replicas, limit <- LargestBatch(cfg), wave <- CurrentWave,
  changed <- {r \in Replicas : version[r] = "new"},
  confirmed <- verified, phase <- Phase

\* Every execution of a strategy is a deployment in waves, and it settles.
KeepsPromise == Promise!Spec
================================================================================
