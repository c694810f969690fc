----------------------------- MODULE RolloutProofs -----------------------------
(***************************************************************************)
(* Proofs about Rollout, for every set of configurations and for both      *)
(* readings of the ReplicaManager interface: the safety properties of one  *)
(* deployment follow from TypeOK and InductiveInvariant, which every step  *)
(* preserves.                                                              *)
(***************************************************************************)
EXTENDS Rollout, FiniteSetTheorems, TLAPS

-----------------------------------------------------------------------------
(***************************************************************************)
(* The batches: never empty, and never past the end of the list.           *)
(***************************************************************************)
\* A batch of any of the strategies holds at least one replica.
LEMMA BatchSizePositive ==
  ASSUME NEW c \in ConfigType, NEW lo \in Nat
  PROVE  BatchSize(c, lo) \in Nat /\ BatchSize(c, lo) >= 1
<1>1. EffectivePercentage(c) \in Int
  BY DEF ConfigType, EffectivePercentage, DefaultPercentage, Kinds, BatchKinds
<1>2. c.n * EffectivePercentage(c) \in Int
  BY <1>1 DEF ConfigType
<1>3. (c.n * EffectivePercentage(c)) \div 100 \in Int
  BY <1>2
<1>4. Share(c) \in Nat /\ Share(c) >= 1
  BY <1>3 DEF Share, AtLeastOne
<1>5. StepSize(c) \in Nat /\ StepSize(c) >= 1
  BY <1>4 DEF StepSize, AtLeastOne, ProgressionSteps, ConfigType
<1>. QED
  BY <1>4, <1>5 DEF BatchSize

\* A batch that starts inside the list ends after its start and inside it.
LEMMA BatchEndInside ==
  ASSUME NEW c \in ConfigType, NEW lo \in Nat, lo < c.n
  PROVE  /\ BatchEnd(c, lo) \in Nat
         /\ lo < BatchEnd(c, lo) /\ BatchEnd(c, lo) <= c.n
         /\ BatchEnd(c, lo) - lo <= BatchSize(c, lo)
BY BatchSizePositive DEF BatchEnd, AtMost, ConfigType

\* No batch is larger than the largest, and the largest holds a replica.
LEMMA BatchSizeBounded ==
  ASSUME NEW c \in ConfigType, NEW lo \in Nat
  PROVE  /\ LargestBatch(c) \in Nat /\ LargestBatch(c) >= 1
         /\ BatchSize(c, lo) <= LargestBatch(c)
<1>1. /\ BatchSize([c EXCEPT !.kind = Percentage], 0) \in Nat
      /\ BatchSize(c, 0) \in Nat /\ BatchSize(c, 0) >= 1
      /\ BatchSize(c, 1) \in Nat /\ BatchSize(c, 1) >= 1
  BY BatchSizePositive DEF ConfigType, BatchKinds, Percentage
<1>. QED
  BY <1>1 DEF BatchSize, LargestBatch, ConfigType, BatchKinds

\* What the steps of the batch loop need to know of the batch they are in.
LEMMA BatchBounds ==
  ASSUME NEW c \in ConfigType, NEW lo \in Nat, lo < c.n
  PROVE  /\ BatchEnd(c, lo) \in Nat
         /\ lo < BatchEnd(c, lo) /\ BatchEnd(c, lo) <= c.n
         /\ BatchEnd(c, lo) - lo <= LargestBatch(c)
<1>1. BatchSize(c, lo) \in Nat /\ LargestBatch(c) \in Nat
      /\ BatchSize(c, lo) <= LargestBatch(c)
  BY BatchSizePositive, BatchSizeBounded
<1>2. /\ BatchEnd(c, lo) \in Nat
      /\ lo < BatchEnd(c, lo) /\ BatchEnd(c, lo) <= c.n
      /\ BatchEnd(c, lo) - lo <= BatchSize(c, lo)
  BY BatchEndInside
<1>. QED
  BY <1>1, <1>2

-----------------------------------------------------------------------------
(***************************************************************************)
(* The invariant.                                                          *)
(***************************************************************************)
IInv == TypeOK /\ InductiveInvariant

\* The initial states satisfy the invariant.
LEMMA InitInvariant == Init => IInv
<1>. SUFFICES ASSUME Init PROVE IInv
  OBVIOUS
<1>1. cfg \in ConfigType /\ cfg.n \in Nat
  BY ConfigsAssumption DEF Init, ConfigType
<1>2. LargestBatch(cfg) \in Nat
  BY <1>1, BatchSizeBounded
<1>3. TypeOK
  <2>1. version \in [Replicas -> {"old", "new"}]
    BY DEF Init
  <2>2. undoFailed \in BOOLEAN /\ dummyUndo \in BOOLEAN /\ expired \in BOOLEAN
    BY DEF Init
  <2>. QED
    BY <2>1, <2>2 DEF Init, TypeOK
<1>4. LoopPosition /\ ImagesFollowUpdates /\ RollbackPosition /\ LatePosition
      /\ RunPosition /\ RestorePosition
  BY <1>1 DEF Init, LoopPosition, InLoop, ImagesFollowUpdates, Running,
     RollbackPosition, LatePosition, RunPosition, RestorePosition,
     FailureLeavesOnlyCulprit, UnrolledBack, Failures, Replicas
<1>5. SuccessMeansVerified /\ RollbackCoversUpdated /\ LateUpdatesBounded
  BY <1>1, <1>2 DEF Init, SuccessMeansVerified, RollbackCoversUpdated,
     LateUpdatesBounded, Failures
<1>. QED
  BY <1>3, <1>4, <1>5 DEF IInv, InductiveInvariant

\* Every step of Execute and of the deadline keeps the invariant.
LEMMA StepInvariant == IInv /\ [Next]_vars => IInv'
<1>. SUFFICES ASSUME IInv, [Next]_vars PROVE IInv'
  OBVIOUS
<1>. USE DEF IInv, TypeOK, InductiveInvariant, LoopPosition, InLoop,
     ImagesFollowUpdates, Running, RollbackPosition, LatePosition,
     RunPosition, RestorePosition, FailureLeavesOnlyCulprit,
     SuccessMeansVerified, RollbackCoversUpdated, UnrolledBack,
     LateUpdatesBounded, Replicas, Failures, BatchStop, vars, control, history
<1>a. cfg \in ConfigType /\ cfg.n \in Nat
  BY ConfigsAssumption DEF ConfigType
<1>b. LargestBatch(cfg) \in Nat /\ LargestBatch(cfg) >= 1
  BY <1>a, BatchSizeBounded
<1>c. base < cfg.n =>
        /\ BatchEnd(cfg, base) \in Nat
        /\ base < BatchEnd(cfg, base) /\ BatchEnd(cfg, base) <= cfg.n
        /\ BatchEnd(cfg, base) - base <= LargestBatch(cfg)
  <2>1. base \in Nat
    OBVIOUS
  <2>. QED
    BY ONLY <2>1, <1>a, BatchBounds
<1>. USE <1>a, <1>b, <1>c
<1>1. CASE Configure
  BY <1>1 DEF Configure, Abort
<1>2. CASE ListReplicas
  BY <1>2 DEF ListReplicas, Abort
<1>3. CASE BatchTimedOut
  BY <1>3 DEF BatchTimedOut, Fail, ChecksContext
<1>4. CASE StartBatch
  BY <1>4 DEF StartBatch, ChecksContext
<1>5. CASE PreCommand
  BY <1>5 DEF PreCommand, Fail
<1>6. CASE UpdateReplica
  <2>. USE <1>6 DEF UpdateReplica
  <2>1. next \in Replicas /\ updated' = updated \union {next}
    BY DEF Remember
  <2>2. updated' = 1 .. next
    BY <2>1
  <2>3. /\ version' \in [Replicas -> {"old", "new"}]
        /\ \A r \in Replicas : version[r] = "new" => version'[r] = "new"
        /\ version'[next] = "new"
        /\ PerReplica => \A r \in Replicas : r # next => version'[r] = version[r]
    BY <2>1 DEF UpdateEffects
  <2>4. CASE next = BatchStop
    <3>1. TypeOK'
      <4>1. /\ check' = base + 1 /\ ok' = 0 /\ bad' = 0 /\ pc' = "health"
            /\ late' \in Nat /\ next' \in Nat /\ base' = base
        BY <2>4 DEF WaitForBatch
      <4>2. UNCHANGED <<cfg, expired, verified, undone, outcome, culprit,
                        undoFailed, dummyUndo, run>>
        OBVIOUS
      <4>. HIDE DEF UpdateReplica, InductiveInvariant
      <4>. QED
        BY <2>1, <2>3, <4>1, <4>2
    <3>2. LoopPosition'
      BY <2>2, <2>4 DEF WaitForBatch
    <3>3. ImagesFollowUpdates'
      BY <2>1, <2>2, <2>3, <2>4 DEF WaitForBatch
    <3>4. RollbackPosition' /\ LatePosition' /\ SuccessMeansVerified'
          /\ RollbackCoversUpdated' /\ LateUpdatesBounded'
      BY <2>4 DEF WaitForBatch
    <3>5. RunPosition' /\ RestorePosition'
      BY <2>4 DEF WaitForBatch
    <3>. QED
      BY <3>1, <3>2, <3>3, <3>4, <3>5
  <2>5. CASE next # BatchStop
    <3>1. TypeOK'
      BY <2>1, <2>3, <2>5
    <3>2. LoopPosition'
      BY <2>2, <2>5
    <3>3. ImagesFollowUpdates'
      BY <2>1, <2>2, <2>3, <2>5
    <3>4. RollbackPosition' /\ LatePosition' /\ SuccessMeansVerified'
          /\ RollbackCoversUpdated' /\ LateUpdatesBounded'
      BY <2>5
    <3>5. RunPosition' /\ RestorePosition'
      BY <2>5
    <3>. QED
      BY <3>1, <3>2, <3>3, <3>4, <3>5
  <2>. QED
    BY <2>4, <2>5
<1>7. CASE UpdateReplicaFails
  <2>. USE <1>7 DEF UpdateReplicaFails
  <2>1. /\ pc' = (IF cfg.rollback THEN "rollback" ELSE "done")
        /\ outcome' = "update" /\ culprit' = culprit \union {next}
    BY DEF Fail
  <2>2. next \in Replicas /\ culprit = {}
    OBVIOUS
  <2>3. /\ version' \in [Replicas -> {"old", "new"}]
        /\ PerReplica => \A r \in Replicas : r # next => version'[r] = version[r]
    BY <2>2 DEF UpdateErrorEffects
  <2>4. TypeOK'
    BY <2>1, <2>2, <2>3
  <2>5. LoopPosition' /\ ImagesFollowUpdates' /\ RollbackPosition'
        /\ LatePosition'
    BY <2>1
  <2>6. SuccessMeansVerified' /\ RollbackCoversUpdated' /\ LateUpdatesBounded'
        /\ RunPosition'
    BY <2>1
  <2>7. RestorePosition'
    BY <2>1, <2>2, <2>3
  <2>. QED
    BY <2>4, <2>5, <2>6, <2>7
<1>8. CASE ContextDone
  BY <1>8 DEF ContextDone, Fail
<1>9. CASE HealthyCheck
  <2>a. /\ check \in Replicas
        /\ run' = [run EXCEPT ![check] = IF run[check] > 0 THEN run[check] + 1 ELSE 1]
    BY <1>9 DEF HealthyCheck
  <2>b. run' \in [Replicas -> Int]
    BY ONLY <2>a, run \in [Replicas -> Int]
  <2>. USE <1>9 DEF HealthyCheck
  <2>1. CASE ok + 1 < RequiredSuccesses(cfg)
    <3>1. ok' = ok + 1 /\ UNCHANGED <<pc, base, check, verified>>
      BY <2>1 DEF RequiredSuccesses, AtLeastOne, ConfigType
    <3>2. UNCHANGED <<cfg, next, expired, updated, version, undone, outcome,
                       culprit, undoFailed, dummyUndo, late>>
          /\ bad' = 0
      BY <2>1 DEF RequiredSuccesses, AtLeastOne, ConfigType
    <3>. HIDE DEF HealthyCheck
    <3>3. TypeOK'
      BY <2>b, <3>1, <3>2
    <3>4. LoopPosition' /\ ImagesFollowUpdates' /\ RollbackPosition'
      BY <3>1, <3>2
    <3>5. LatePosition' /\ SuccessMeansVerified' /\ RollbackCoversUpdated'
          /\ LateUpdatesBounded'
      BY <3>1, <3>2
    <3>6. RunPosition' /\ RestorePosition'
      <4>1. run'[check] = IF run[check] > 0 THEN run[check] + 1 ELSE 1
        BY <2>a
      <4>2. RunPosition'
        <5>1. ok > 0 => run[check] >= ok
          BY DEF HealthyCheck
        <5>2. run[check] \in Int /\ ok \in Nat
          BY <2>a
        <5>3. run'[check] >= ok + 1
          BY ONLY <4>1, <5>1, <5>2
        <5>. QED
          BY <3>1, <3>2, <5>3
      <4>3. RestorePosition'
        BY <3>1, <3>2
      <4>. QED
        BY <4>2, <4>3
    <3>. QED
      BY <3>3, <3>4, <3>5, <3>6
  <2>2. CASE ok + 1 >= RequiredSuccesses(cfg)
    <3>1. verified' = verified \union {check} /\ check \in Replicas
      BY <2>2
    <3>2. verified' = 1 .. check
      BY <3>1
    <3>3. CASE cfg.post /\ cfg.kind # Canary
      <4>1. pc' = "hook" /\ UNCHANGED <<base, check, ok, bad>>
        BY <2>2, <3>3
      <4>2. TypeOK'
        BY <2>b, <3>1, <4>1
      <4>3. LoopPosition' /\ ImagesFollowUpdates' /\ RollbackPosition'
        BY <3>2, <3>3, <4>1
      <4>4. LatePosition' /\ RunPosition' /\ RestorePosition'
        BY <4>1
      <4>5. SuccessMeansVerified' /\ RollbackCoversUpdated'
            /\ LateUpdatesBounded'
        BY <4>1
      <4>. QED
        BY <4>2, <4>3, <4>4, <4>5
    <3>4. CASE ~(cfg.post /\ cfg.kind # Canary) /\ check # BatchStop
      <4>1. pc' = "health" /\ check' = check + 1 /\ ok' = 0 /\ bad' = 0
            /\ base' = base
        BY <2>2, <3>4 DEF NextCheck
      <4>2. check + 1 <= BatchStop
        BY <3>4
      <4>3. TypeOK'
        BY <2>b, <3>1, <4>1
      <4>4. LoopPosition'
        BY <3>2, <4>1, <4>2
      <4>5. ImagesFollowUpdates' /\ RollbackPosition' /\ LatePosition'
            /\ SuccessMeansVerified' /\ RollbackCoversUpdated'
            /\ LateUpdatesBounded'
        BY <4>1
      <4>6. RunPosition' /\ RestorePosition'
        BY <4>1
      <4>. QED
        BY <4>3, <4>4, <4>5, <4>6
    <3>5. CASE ~(cfg.post /\ cfg.kind # Canary) /\ check = BatchStop
      <4>1. NextCheck /\ AfterBatch
        BY <2>2, <3>5 DEF NextCheck
      <4>2. verified' = 1 .. BatchStop
        BY <3>2, <3>5
      <4>3. /\ pc' \in {"finish", "batch", "delay"}
            /\ pc' = "finish" => BatchStop = cfg.n
            /\ pc' = "batch" => BatchStop < cfg.n /\ base' = BatchStop
            /\ pc' = "delay" => BatchStop < cfg.n /\ base' = base
            /\ base' \in Nat /\ check' \in Nat /\ ok' = 0 /\ bad' = 0
        BY <4>1 DEF NextCheck, AfterBatch
      <4>4. TypeOK'
        BY <2>b, <3>1, <4>3
      <4>5. LoopPosition'
        <5>1. CASE pc' = "finish"
          BY <4>2, <4>3, <5>1
        <5>2. CASE pc' = "batch"
          BY <4>2, <4>3, <5>2
        <5>3. CASE pc' = "delay"
          BY <4>2, <4>3, <5>3
        <5>. QED
          BY <4>3, <5>1, <5>2, <5>3
      <4>6. ImagesFollowUpdates' /\ RollbackPosition'
        BY <4>3
      <4>7. LatePosition'
        <5>1. pc' # "update" /\ pc' \notin {"configure", "list"}
              /\ (pc' = "batch" => base' > 0)
          BY <4>3
        <5>. QED
          BY <5>1
      <4>8. RestorePosition' /\ RunPosition'
        BY <4>3
      <4>9. SuccessMeansVerified' /\ RollbackCoversUpdated'
            /\ LateUpdatesBounded'
        BY <4>3
      <4>. QED
        BY <4>4, <4>5, <4>6, <4>7, <4>8, <4>9
    <3>. QED
      BY <3>3, <3>4, <3>5
  <2>. QED
    <3>1. RequiredSuccesses(cfg) \in Int /\ ok \in Nat
      BY DEF RequiredSuccesses, AtLeastOne, ConfigType
    <3>. HIDE DEF HealthyCheck, IInv
    <3>. QED
      BY <2>1, <2>2, <3>1
<1>10. CASE UnhealthyCheck
  <2>. USE <1>10 DEF UnhealthyCheck
  <2>1. pc = "health" /\ outcome = "none" /\ ok' = 0 /\ bad' = bad + 1
    OBVIOUS
  <2>2. /\ check \in Replicas
        /\ run' = [run EXCEPT ![check] = IF run[check] < 0 THEN run[check] - 1 ELSE 0 - 1]
        /\ UNCHANGED <<cfg, base, next, check, expired, updated, verified,
                       version, undone, culprit, undoFailed, dummyUndo, late>>
    OBVIOUS
  <2>3. run' \in [Replicas -> Int]
    BY ONLY <2>2, run \in [Replicas -> Int]
  <2>4. \/ outcome' = "health" /\ pc' = (IF cfg.rollback THEN "rollback" ELSE "done")
        \/ UNCHANGED <<pc, outcome>>
    BY DEF Fail
  <2>. HIDE DEF UnhealthyCheck
  <2>5. TypeOK'
    BY <2>1, <2>2, <2>3, <2>4
  <2>6. LoopPosition' /\ ImagesFollowUpdates' /\ RollbackPosition'
        /\ LatePosition'
    BY <2>1, <2>2, <2>4
  <2>7. RunPosition'
    <3>1. run'[check] = IF run[check] < 0 THEN run[check] - 1 ELSE 0 - 1
      BY <2>2
    <3>2. run'[check] \in Int /\ 0 - run'[check] >= bad + 1
      <4>1. run[check] \in Int /\ bad \in Nat /\ (bad > 0 => 0 - run[check] >= bad)
        BY <2>1, <2>2
      <4>. QED
        BY ONLY <3>1, <4>1
    <3>. QED
      BY <2>1, <2>2, <2>4, <3>2
  <2>8. RestorePosition'
    <3>1. culprit = {} /\ ~undoFailed /\ undone = {}
          /\ (PerReplica => \A r \in Replicas : version[r] = "new" => r \in updated)
      BY <2>1
    <3>2. UNCHANGED <<cfg, updated, version, undone, culprit, undoFailed>>
      BY <2>2
    <3>3. CASE outcome' = "health" /\ pc' = (IF cfg.rollback THEN "rollback" ELSE "done")
      BY ONLY <3>1, <3>2, <3>3 DEF RestorePosition, Running,
         FailureLeavesOnlyCulprit, Replicas
    <3>4. CASE UNCHANGED <<pc, outcome>>
      BY <2>1, <3>1, <3>2, <3>4
    <3>. QED
      BY <2>4, <3>3, <3>4
  <2>9. SuccessMeansVerified' /\ RollbackCoversUpdated' /\ LateUpdatesBounded'
    BY <2>2, <2>4
  <2>. QED
    BY <2>5, <2>6, <2>7, <2>8, <2>9
<1>11. CASE PostCommand
  <2>1. pc = "hook" /\ outcome' = "post" /\ cfg.kind # Canary
    BY <1>11 DEF PostCommand, Fail
  <2>. QED
    BY <1>11, <2>1 DEF PostCommand, Fail
<1>12. CASE DelayTimedOut
  BY <1>12 DEF DelayTimedOut, Fail
<1>13. CASE DelayOver
  BY <1>13 DEF DelayOver
<1>14. CASE Finish
  BY <1>14 DEF Finish, Abort
<1>15. CASE RollbackNothing
  BY <1>15 DEF RollbackNothing
<1>16. CASE RollbackReplica
  <2>. USE <1>16 DEF RollbackReplica
  <2>1. PICK r \in updated \ undone :
          /\ undone' = undone \union {r}
          /\ \/ /\ PerReplica
                /\ version' = [version EXCEPT ![r] = "old"]
                /\ UNCHANGED undoFailed
             \/ undoFailed' = TRUE /\ UNCHANGED version
    OBVIOUS
  <2>2. TypeOK'
    BY <2>1
  <2>3. LoopPosition' /\ ImagesFollowUpdates' /\ LatePosition' /\ RunPosition'
        /\ SuccessMeansVerified' /\ RollbackCoversUpdated'
        /\ LateUpdatesBounded'
    BY <2>1
  <2>4. RollbackPosition'
    BY <2>1
  <2>5. RestorePosition'
    BY <2>1
  <2>. QED
    BY <2>2, <2>3, <2>4, <2>5
<1>17. CASE RollbackOver
  <2>. USE <1>17 DEF RollbackOver
  <2>1. undone = updated /\ outcome \in Failures /\ ~UnrolledBack
    OBVIOUS
  <2>2. RollbackCoversUpdated'
    BY <2>1
  <2>3. RestorePosition'
    BY <2>1
  <2>. QED
    BY <2>2, <2>3
<1>18. CASE Expire
  BY <1>18 DEF Expire
<1>19. CASE Returned
  BY <1>19 DEF Returned
<1>20. CASE UNCHANGED vars
  BY <1>20
<1>. QED
  BY <1>1, <1>2, <1>3, <1>4, <1>5, <1>6, <1>7, <1>8, <1>9, <1>10, <1>11,
     <1>12, <1>13, <1>14, <1>15, <1>16, <1>17, <1>18, <1>19, <1>20
     DEF Next, Execute

-----------------------------------------------------------------------------
(***************************************************************************)
(* The theorems.                                                           *)
(***************************************************************************)
\* Every reachable state of a deployment satisfies the type invariant and the
\* inductive invariant.
THEOREM Invariant == Spec => []IInv
BY InitInvariant, StepInvariant, PTL DEF Spec

\* The variables of Execute keep their types, whatever configurations it is
\* started with; the updated and verified replicas are replicas of the list.
THEOREM TypeCorrect == Spec => []TypeOK
<1>1. IInv => TypeOK
  BY DEF IInv
<1>. QED
  BY <1>1, Invariant, PTL

\* Execute returns nil only when every replica was updated and found healthy,
\* under either reading of the ReplicaManager interface.
THEOREM SuccessIsEarned == Spec => []SuccessMeansVerified
<1>1. IInv => SuccessMeansVerified
  BY DEF IInv, InductiveInvariant
<1>. QED
  BY <1>1, Invariant, PTL

\* The rollback closure calls RollbackReplica for exactly the replicas that
\* were updated.
THEOREM RollbackIsComplete == Spec => []RollbackCoversUpdated
<1>1. IInv => RollbackCoversUpdated
  BY DEF IInv, InductiveInvariant
<1>. QED
  BY <1>1, Invariant, PTL

\* At most one batch of UpdateReplica calls goes out after the deadline.
THEOREM LatenessIsBounded == Spec => []LateUpdatesBounded
<1>1. IInv => LateUpdatesBounded
  BY DEF IInv, InductiveInvariant
<1>. QED
  BY <1>1, Invariant, PTL

\* When UpdateReplica changes only the replica it names, an unverified replica
\* on the new image is one of the current batch.
THEOREM BlastRadiusIsOneBatch == PerReplica => (Spec => []BlastRadius)
<1>. SUFFICES ASSUME PerReplica PROVE Spec => []BlastRadius
  OBVIOUS
<1>1. IInv => BlastRadius
  <2>. SUFFICES ASSUME IInv, Running,
                       NEW r \in Replicas, version[r] = "new", r \notin verified
                PROVE  r \in base + 1 .. BatchStop
    BY DEF BlastRadius, Running
  <2>1. r \in updated
    BY DEF IInv, InductiveInvariant, ImagesFollowUpdates
  <2>2. base \in Nat /\ next \in Nat /\ check \in Nat /\ cfg.n \in Nat
        /\ cfg \in ConfigType /\ r \in Nat
    BY ConfigsAssumption DEF IInv, TypeOK, ConfigType, Replicas
  <2>3. base < cfg.n => BatchStop \in Nat /\ BatchStop <= cfg.n
    BY ONLY <2>2, BatchBounds DEF BatchStop
  <2>. QED
    BY <2>1, <2>2, <2>3 DEF IInv, InductiveInvariant, LoopPosition, InLoop,
       TypeOK, Running, Replicas
<1>. QED
  BY <1>1, Invariant, PTL

\* When RollbackReplica restores the replica it names, a failed deployment
\* leaves at most the replica whose own update failed on the new image.
THEOREM OnlyTheCulpritIsLeft == PerReplica => (Spec => []FailureLeavesOnlyCulprit)
<1>. SUFFICES ASSUME PerReplica PROVE Spec => []FailureLeavesOnlyCulprit
  OBVIOUS
<1>1. IInv => FailureLeavesOnlyCulprit
  BY DEF IInv, InductiveInvariant, RestorePosition
<1>. QED
  BY <1>1, Invariant, PTL

\* A healthy verdict rests on RequiredSuccesses checks of the replica itself in a
\* row, an unhealthy one on the deadline or on AllowedFailures of its own in a
\* row: no replica inherits the checks of another.
THEOREM VerdictsRestOnRuns == Spec => VerdictsAreEarned
<1>1. IInv /\ [Next]_vars =>
        [/\ \A r \in verified' \ verified : run'[r] >= RequiredSuccesses(cfg)
         /\ outcome' = "health" /\ outcome # "health" =>
              expired \/ 0 - run'[check] >= AllowedFailures(cfg)]_vars
  <2>. SUFFICES ASSUME IInv, Next
                PROVE  /\ \A r \in verified' \ verified : run'[r] >= RequiredSuccesses(cfg)
                       /\ outcome' = "health" /\ outcome # "health" =>
                            expired \/ 0 - run'[check] >= AllowedFailures(cfg)
    OBVIOUS
  <2>1. /\ ok \in Nat /\ bad \in Nat /\ run \in [Replicas -> Int]
        /\ cfg \in ConfigType /\ RunPosition
        /\ pc = "health" => check \in Replicas
    <3>1. cfg \in ConfigType
      BY ConfigsAssumption DEF IInv, TypeOK
    <3>2. pc = "health" => check \in Replicas
      <4>1. pc = "health" =>
              base \in Nat /\ check \in Nat /\ base < cfg.n
              /\ base < check /\ check <= BatchStop
        BY DEF IInv, TypeOK, InductiveInvariant, LoopPosition, InLoop
      <4>. QED
        BY <3>1, <4>1, BatchBounds DEF BatchStop, Replicas, ConfigType
    <3>. QED
      BY <3>1, <3>2 DEF IInv, TypeOK, InductiveInvariant
  <2>2. RequiredSuccesses(cfg) \in Int /\ AllowedFailures(cfg) \in Int
        /\ AllowedFailures(cfg) >= 1
    BY <2>1 DEF RequiredSuccesses, AllowedFailures, AtLeastOne, ConfigType
  <2>3. CASE HealthyCheck
    <3>1. outcome' = outcome
      BY <2>3 DEF HealthyCheck
    <3>2. ASSUME NEW r \in verified' \ verified
          PROVE  run'[r] >= RequiredSuccesses(cfg)
      <4>1. /\ r = check /\ check \in Replicas
            /\ ok + 1 >= RequiredSuccesses(cfg)
            /\ ok > 0 => run[check] >= ok
        BY <2>1, <2>3, <3>2 DEF HealthyCheck, RunPosition
      <4>2. run'[check] = IF run[check] > 0 THEN run[check] + 1 ELSE 1
        BY <2>1, <2>3, <4>1 DEF HealthyCheck
      <4>. QED
        BY <2>1, <2>2, <4>1, <4>2
    <3>. QED
      BY <3>1, <3>2
  <2>4. CASE UnhealthyCheck
    <3>1. verified' = verified
      BY <2>4 DEF UnhealthyCheck
    <3>2. ASSUME outcome' # outcome PROVE 0 - run'[check] >= AllowedFailures(cfg)
      <4>1. /\ check \in Replicas
            /\ bad + 1 >= AllowedFailures(cfg)
            /\ bad > 0 => 0 - run[check] >= bad
        BY <2>1, <2>4, <3>2 DEF UnhealthyCheck, RunPosition
      <4>2. run'[check] = IF run[check] < 0 THEN run[check] - 1 ELSE 0 - 1
        BY <2>1, <2>4, <4>1 DEF UnhealthyCheck
      <4>. QED
        BY <2>1, <2>2, <4>1, <4>2
    <3>. QED
      BY <3>1, <3>2
  <2>5. CASE ContextDone
    BY <2>5 DEF ContextDone
  <2>6. CASE ~(HealthyCheck \/ UnhealthyCheck \/ ContextDone)
    BY <2>6 DEF Next, Execute, Configure, ListReplicas, BatchTimedOut,
       StartBatch, PreCommand, UpdateReplica, UpdateReplicaFails, PostCommand,
       DelayTimedOut, DelayOver, Finish, RollbackNothing, RollbackReplica,
       RollbackOver, Expire, Returned, Fail, Abort, vars, control
  <2>. QED
    BY <2>3, <2>4, <2>5, <2>6
<1>. QED
  BY <1>1, Invariant, PTL DEF Spec, VerdictsAreEarned

-----------------------------------------------------------------------------
(***************************************************************************)
(* The refinement, step by step: under the interface the strategies are     *)
(* written for, every step of Execute is a step of Deployment or none.      *)
(***************************************************************************)
Changed == {r \in Replicas : version[r] = "new"}

\* Deployment counts as this module does.
LEMMA SameCardinality == \A S : Promise!Cardinality(S) = Cardinality(S)
  BY DEF Promise!Cardinality, Cardinality

\* What the refinement mapping reads of a state.
LEMMA MappingFacts ==
  ASSUME IInv
  PROVE  /\ cfg \in ConfigType /\ cfg.n \in Nat /\ base \in Nat
         /\ BatchStop \in Int /\ BatchStop <= cfg.n
         /\ CurrentWave \subseteq Replicas
         /\ pc \in {"configure", "list", "batch", "delay", "finish"} => CurrentWave = {}
         /\ pc \in {"update", "health"} => CurrentWave = base + 1 .. BatchStop
  <1>1. cfg \in ConfigType /\ cfg.n \in Nat /\ base \in Nat
    BY ConfigsAssumption DEF IInv, TypeOK, ConfigType
  <1>2. BatchSize(cfg, base) \in Nat
    BY <1>1, BatchSizePositive
  <1>3. BatchStop \in Int /\ BatchStop <= cfg.n
    BY <1>1, <1>2 DEF BatchStop, BatchEnd, AtMost
  <1>4. CurrentWave \subseteq Replicas
    BY <1>1, <1>3 DEF CurrentWave, Replicas
  <1>5. pc = "update" => base + 1 \in base + 1 .. BatchStop /\ verified = 1 .. base
    BY <1>1, <1>3 DEF IInv, InductiveInvariant, LoopPosition, TypeOK
  <1>6. pc = "health" => /\ check \in base + 1 .. BatchStop
                         /\ verified = 1 .. check - 1
    BY <1>1, <1>3 DEF IInv, InductiveInvariant, LoopPosition, TypeOK
  <1>7. pc \in {"update", "health"} => CurrentWave = base + 1 .. BatchStop
    <2>1. CASE pc = "update"
      <3>1. base + 1 \notin verified
        BY <1>1, <1>5, <2>1
      <3> QED BY <1>5, <2>1, <3>1 DEF CurrentWave
    <2>2. CASE pc = "health"
      <3>1. check \notin verified
        BY <1>1, <1>6, <2>2 DEF IInv, TypeOK
      <3> QED BY <1>6, <2>2, <3>1 DEF CurrentWave
    <2> QED BY <2>1, <2>2
  <1>8. pc \in {"delay", "finish"} => CurrentWave = {}
    <2>1. pc = "delay" => base + 1 .. BatchStop \subseteq verified
      BY <1>1, <1>3 DEF IInv, InductiveInvariant, LoopPosition
    <2>2. pc = "finish" => base + 1 .. BatchStop \subseteq verified
      BY <1>1, <1>3 DEF IInv, InductiveInvariant, LoopPosition, Replicas
    <2> QED BY <2>1, <2>2 DEF CurrentWave
  <1>9. pc \in {"configure", "list", "batch"} => CurrentWave = {}
    BY DEF CurrentWave
  <1> QED BY <1>1, <1>3, <1>4, <1>7, <1>8, <1>9

\* An error return gives the deployment up, whether or not the replica whose
\* update failed was changed.
LEMMA FailureGivesUp ==
  ASSUME Running, pc' \in {"rollback", "done"}, outcome' \in Failures,
         UNCHANGED <<cfg, verified>>,
         version' = version \/ \E r \in CurrentWave : Changed' = Changed \union {r}
  PROVE  Promise!GiveUp
  <1>1. Phase = "running" /\ Phase' \in {"failed", "settled"} /\ CurrentWave' = {}
    BY DEF Phase, Running, Failures, CurrentWave
  <1>2. Replicas' = Replicas /\ LargestBatch(cfg)' = LargestBatch(cfg)
    BY DEF Replicas, LargestBatch, Share, StepSize
  <1> QED BY <1>1, <1>2 DEF Promise!GiveUp, Changed

\* A step that changes none of what the mapping reads is no step.
LEMMA NoStep ==
  ASSUME UNCHANGED <<cfg, verified, version>>, CurrentWave' = CurrentWave, Phase' = Phase
  PROVE  UNCHANGED Promise!vars
  BY DEF Promise!vars, Replicas, LargestBatch

\* The head of a batch opens a wave of replicas that have not been touched.
LEMMA BatchOpensWave ==
  ASSUME IInv, PerReplica, StartBatch
  PROVE  Promise!OpenWave
  <1>1. /\ pc = "batch" /\ pc' = "update"
        /\ UNCHANGED <<cfg, base, verified, version, outcome>>
    BY DEF StartBatch
  <1>2. base < cfg.n /\ updated = 1 .. base /\ verified = 1 .. base
    BY <1>1 DEF IInv, InductiveInvariant, LoopPosition, InLoop
  <1>3. cfg \in ConfigType /\ cfg.n \in Nat /\ base \in Nat /\ CurrentWave = {}
    BY <1>1, MappingFacts
  <1>4. /\ BatchStop \in Nat /\ base < BatchStop /\ BatchStop <= cfg.n
        /\ BatchStop - base <= LargestBatch(cfg)
    BY <1>2, <1>3, BatchBounds DEF BatchStop
  <1>5. CurrentWave' = base + 1 .. BatchStop /\ BatchStop' = BatchStop
    <2>1. base + 1 \in base + 1 .. BatchStop /\ base + 1 \notin verified
      BY <1>2, <1>3, <1>4
    <2>2. BatchStop' = BatchStop
      BY <1>1 DEF BatchStop
    <2> QED BY <1>1, <2>1, <2>2 DEF CurrentWave
  <1>6. CurrentWave' \in (SUBSET (Replicas \ Changed)) \ {{}}
    <2>1. \A r \in Changed : r \in 1 .. base
      BY <1>1, <1>2 DEF Changed, IInv, InductiveInvariant, ImagesFollowUpdates, Running
    <2>2. base + 1 .. BatchStop \subseteq Replicas \ Changed
      BY <1>3, <1>4, <2>1 DEF Replicas
    <2>3. base + 1 \in base + 1 .. BatchStop
      BY <1>3, <1>4
    <2> QED BY <1>5, <2>2, <2>3
  <1>7. Cardinality(CurrentWave') <= LargestBatch(cfg)
    <2>1. Cardinality(base + 1 .. BatchStop) = BatchStop - (base + 1) + 1
      BY <1>3, <1>4, FS_Interval
    <2> QED BY <1>3, <1>4, <1>5, <2>1
  <1>8. Phase = "running" /\ Phase' = Phase
    BY <1>1 DEF Phase, Running
  <1>9. Replicas' = Replicas /\ LargestBatch(cfg)' = LargestBatch(cfg) /\ Changed' = Changed
    BY <1>1 DEF Replicas, Changed
  <1> QED BY <1>1, <1>3, <1>6, <1>7, <1>8, <1>9, SameCardinality
          DEF Promise!OpenWave, Changed

\* An update changes a replica of the wave.
LEMMA UpdateChanges ==
  ASSUME IInv, PerReplica, UpdateReplica
  PROVE  Promise!Change
  <1>1. /\ pc = "update" /\ pc' \in {"update", "health"}
        /\ UNCHANGED <<cfg, base, verified, outcome>>
        /\ version' = [version EXCEPT ![next] = "new"]
    BY DEF UpdateReplica, UpdateEffects, WaitForBatch
  <1>2. /\ updated = 1 .. next - 1 /\ base < next /\ next <= BatchStop
        /\ version \in [Replicas -> {"old", "new"}] /\ next \in Nat
    BY <1>1 DEF IInv, InductiveInvariant, LoopPosition, TypeOK
  <1>3. CurrentWave = base + 1 .. BatchStop /\ base \in Nat /\ BatchStop \in Int
        /\ CurrentWave \subseteq Replicas
    BY <1>1, MappingFacts
  <1>4. CurrentWave' = CurrentWave
    <2>1. BatchStop' = BatchStop
      BY <1>1 DEF BatchStop
    <2> QED BY <1>1, <2>1 DEF CurrentWave
  <1>5. next \in CurrentWave \ Changed
    <2>1. next \in CurrentWave /\ next \notin updated
      BY <1>2, <1>3
    <2>2. \A r \in Changed : r \in updated
      BY <1>1 DEF Changed, IInv, InductiveInvariant, ImagesFollowUpdates, Running
    <2> QED BY <2>1, <2>2
  <1>6. Changed' = Changed \union {next} /\ Replicas' = Replicas
    BY <1>1, <1>2, <1>3, <1>5 DEF Changed, Replicas
  <1>7. Phase = "running" /\ Phase' = Phase
    BY <1>1 DEF Phase, Running
  <1> QED BY <1>1, <1>4, <1>5, <1>6, <1>7 DEF Promise!Change, Changed

\* An update that fails may have changed its replica all the same.
LEMMA FailedUpdateGivesUp ==
  ASSUME IInv, PerReplica, UpdateReplicaFails
  PROVE  Promise!GiveUp
  <1>1. /\ pc = "update" /\ pc' \in {"rollback", "done"} /\ outcome' = "update"
        /\ UNCHANGED <<cfg, verified>>
        /\ version' = version \/ version' = [version EXCEPT ![next] = "new"]
    BY DEF UpdateReplicaFails, UpdateErrorEffects, Fail
  <1>2. /\ base < next /\ next <= BatchStop
        /\ version \in [Replicas -> {"old", "new"}] /\ next \in Nat
    BY <1>1 DEF IInv, InductiveInvariant, LoopPosition, TypeOK
  <1>3. next \in CurrentWave /\ next \in Replicas
    BY <1>1, <1>2, MappingFacts
  <1>4. version' = [version EXCEPT ![next] = "new"] => Changed' = Changed \union {next}
    BY <1>1, <1>2, <1>3 DEF Changed, Replicas
  <1> QED BY <1>1, <1>3, <1>4, FailureGivesUp DEF Running, Failures

\* A check that is not yet enough changes nothing; the one that is confirms a
\* replica of the wave, and closes the wave with the last.
LEMMA CheckConfirms ==
  ASSUME IInv, PerReplica, HealthyCheck
  PROVE  Promise!Confirm \/ UNCHANGED Promise!vars
  <1>1. /\ pc = "health"
        /\ UNCHANGED <<cfg, version, outcome>>
        /\ \/ /\ verified' = verified \union {check}
              /\ \/ pc' = "hook" /\ UNCHANGED base
                 \/ NextCheck
           \/ UNCHANGED <<pc, base, verified>>
    BY DEF HealthyCheck
  <1>2. /\ base < check /\ check <= BatchStop /\ check \in Nat
        /\ updated = 1 .. BatchStop /\ verified = 1 .. check - 1
        /\ updated \subseteq Changed
    BY <1>1 DEF IInv, InductiveInvariant, LoopPosition, ImagesFollowUpdates, Running,
                TypeOK, Changed
  <1>3. /\ CurrentWave = base + 1 .. BatchStop /\ base \in Nat /\ BatchStop \in Int
        /\ BatchStop <= cfg.n /\ cfg.n \in Nat
    BY <1>1, MappingFacts
  <1>4. Replicas' = Replicas /\ LargestBatch(cfg)' = LargestBatch(cfg) /\ Changed' = Changed
    BY <1>1 DEF Replicas, Changed
  <1>5. CASE UNCHANGED <<pc, base, verified>>
    <2>1. CurrentWave' = CurrentWave /\ Phase' = Phase
      BY <1>1, <1>5 DEF CurrentWave, BatchStop, Phase, Running
    <2> QED BY <1>1, <1>5, <2>1, NoStep
  <1>6. CASE /\ verified' = verified \union {check}
             /\ (pc' = "hook" /\ UNCHANGED base) \/ NextCheck
    <2>1. check \in CurrentWave \ verified /\ CurrentWave \subseteq Changed
      BY <1>2, <1>3
    <2>2. \/ pc' \in {"hook", "health", "delay", "finish"} /\ base' = base
          \/ pc' = "batch" /\ check = BatchStop
      BY <1>6 DEF NextCheck, AfterBatch
    <2>3. CurrentWave' = IF CurrentWave \subseteq verified' THEN {} ELSE CurrentWave
      <3>1. CASE pc' \in {"hook", "health", "delay", "finish"} /\ base' = base
        <4>1. BatchStop' = BatchStop
          BY <1>1, <3>1 DEF BatchStop
        <4> QED BY <1>3, <3>1, <4>1 DEF CurrentWave
      <3>2. CASE pc' = "batch" /\ check = BatchStop
        <4>1. CurrentWave \subseteq verified'
          BY <1>2, <1>3, <1>6, <3>2
        <4> QED BY <3>2, <4>1 DEF CurrentWave
      <3> QED BY <2>2, <3>1, <3>2
    <2>4. Phase = "running" /\ Phase' = Phase
      BY <1>1, <2>2 DEF Phase, Running
    <2>5. Promise!Confirm
      BY <1>4, <1>6, <2>1, <2>3, <2>4 DEF Promise!Confirm, Changed
    <2> QED BY <2>5
  <1> QED BY <1>1, <1>5, <1>6

\* The end of the last batch: success, or the command of canary that fails.
LEMMA FinishSucceeds ==
  ASSUME IInv, Finish
  PROVE  Promise!Succeed \/ Promise!GiveUp
  <1>1. /\ pc = "finish" /\ pc' = "done" /\ outcome' \in {"post", "success"}
        /\ UNCHANGED <<cfg, base, verified, version>>
    BY DEF Finish, Abort
  <1>2. CASE outcome' = "post"
    BY <1>1, <1>2, FailureGivesUp DEF Running, Failures
  <1>3. CASE outcome' = "success"
    <2>1. updated = Replicas /\ verified = Replicas /\ \A r \in updated : version[r] = "new"
      BY <1>1 DEF IInv, InductiveInvariant, LoopPosition, ImagesFollowUpdates, Running
    <2>2. Changed = Replicas /\ Changed' = Changed /\ Replicas' = Replicas
      BY <1>1, <2>1 DEF Changed, Replicas
    <2>3. CurrentWave = {} /\ CurrentWave' = {}
      BY <1>1, MappingFacts DEF CurrentWave
    <2>4. Phase = "running" /\ Phase' = "succeeded"
      BY <1>1, <1>3 DEF Phase, Running
    <2> QED BY <1>1, <2>1, <2>2, <2>3, <2>4 DEF Promise!Succeed, Changed
  <1> QED BY <1>1, <1>2, <1>3

\* The closure takes changed replicas back, and settles.
LEMMA RollbackSettles ==
  ASSUME IInv, PerReplica, RollbackNothing \/ RollbackOver \/ RollbackReplica
  PROVE  Promise!TakeBack \/ Promise!Settle \/ UNCHANGED Promise!vars
  <1>1. /\ pc = "rollback" /\ outcome \in Failures
        /\ UNCHANGED <<cfg, verified, outcome>>
    BY DEF RollbackNothing, RollbackOver, RollbackReplica, control,
           IInv, InductiveInvariant, RollbackPosition
  <1>2. Phase = "failed" /\ CurrentWave = {} /\ Replicas' = Replicas
    BY <1>1 DEF Phase, Running, CurrentWave, Replicas
  <1>3. CASE RollbackNothing \/ RollbackOver
    <2>1. pc' = "done" /\ version' = version
      BY <1>3 DEF RollbackNothing, RollbackOver
    <2>2. Phase' = "settled" /\ CurrentWave' = {} /\ Changed' = Changed
      BY <1>1, <2>1 DEF Phase, Running, CurrentWave, Failures, Changed, Replicas
    <2> QED BY <1>1, <1>2, <2>2 DEF Promise!Settle, Changed
  <1>4. CASE RollbackReplica
    <2>1. PICK r \in updated :
            version' = [version EXCEPT ![r] = "old"] \/ version' = version
      BY <1>4 DEF RollbackReplica
    <2>2. pc' = pc
      BY <1>4 DEF RollbackReplica, control
    <2>3. Phase' = "failed" /\ CurrentWave' = {}
      BY <1>1, <2>2 DEF Phase, Running, CurrentWave
    <2>4. r \in Replicas /\ version \in [Replicas -> {"old", "new"}]
      BY DEF IInv, TypeOK
    <2>5. CASE version' = version \/ version[r] = "old"
      <3>1. version' = version
        BY <2>1, <2>4, <2>5
      <3> QED BY <1>1, <1>2, <2>3, <3>1, NoStep
    <2>6. CASE version' = [version EXCEPT ![r] = "old"] /\ version[r] = "new"
      <3>1. r \in Changed /\ Changed' = Changed \ {r}
        BY <1>2, <2>4, <2>6 DEF Changed
      <3> QED BY <1>1, <1>2, <2>3, <3>1 DEF Promise!TakeBack, Changed
    <2> QED BY <2>1, <2>4, <2>5, <2>6
  <1> QED BY <1>3, <1>4

\* The steps of the plan that the promise does not see.
LEMMA SilentSteps ==
  ASSUME IInv,
         \/ /\ pc \in {"configure", "list", "delay"} /\ pc' \in {"list", "batch"}
            /\ UNCHANGED <<cfg, verified, version, outcome>>
         \/ Expire \/ UNCHANGED vars
         \/ UnhealthyCheck /\ UNCHANGED <<pc, outcome>>
  PROVE  UNCHANGED Promise!vars
  <1>1. CASE /\ pc \in {"configure", "list", "delay"} /\ pc' \in {"list", "batch"}
             /\ UNCHANGED <<cfg, verified, version, outcome>>
    <2>1. CurrentWave = {} /\ CurrentWave' = {}
      BY <1>1, MappingFacts DEF CurrentWave
    <2>2. Phase' = Phase
      BY <1>1 DEF Phase, Running
    <2> QED BY <1>1, <2>1, <2>2, NoStep
  <1>2. CASE Expire \/ UNCHANGED vars \/ (UnhealthyCheck /\ UNCHANGED <<pc, outcome>>)
    <2>1. UNCHANGED <<cfg, pc, base, verified, version, outcome>>
      BY <1>2 DEF Expire, vars, control, UnhealthyCheck
    <2>2. CurrentWave' = CurrentWave /\ Phase' = Phase
      BY <2>1 DEF CurrentWave, BatchStop, Phase, Running
    <2> QED BY <2>1, <2>2, NoStep
  <1> QED BY <1>1, <1>2

LEMMA StepKeepsPromise ==
  ASSUME IInv, PerReplica, [Next]_vars
  PROVE  [Promise!Next]_Promise!vars
  <1> USE DEF Promise!Next
  <1>1. CASE \/ BatchTimedOut \/ PreCommand \/ ContextDone \/ PostCommand \/ DelayTimedOut
             \/ UnhealthyCheck /\ Fail("health")
             \/ ListReplicas /\ Abort("replicas")
             \/ Configure /\ Abort("rejected")
    <2>1. /\ Running /\ pc' \in {"rollback", "done"} /\ outcome' \in Failures
          /\ UNCHANGED <<cfg, verified, version>>
      BY <1>1 DEF BatchTimedOut, PreCommand, ContextDone, PostCommand, DelayTimedOut,
                  UnhealthyCheck, ListReplicas, Configure, Fail, Abort, Running, Failures
    <2> QED BY <2>1, FailureGivesUp
  <1>2. CASE \/ ListReplicas /\ ~Abort("replicas")
             \/ Configure /\ ~Abort("rejected")
             \/ DelayOver
    BY <1>2, SilentSteps DEF ListReplicas, Configure, DelayOver
  <1>3. CASE StartBatch
    BY <1>3, BatchOpensWave
  <1>4. CASE UpdateReplica
    BY <1>4, UpdateChanges
  <1>5. CASE UpdateReplicaFails
    BY <1>5, FailedUpdateGivesUp
  <1>6. CASE HealthyCheck
    BY <1>6, CheckConfirms
  <1>7. CASE UnhealthyCheck /\ ~Fail("health")
    BY <1>7, SilentSteps DEF UnhealthyCheck
  <1>8. CASE Finish
    BY <1>8, FinishSucceeds
  <1>9. CASE RollbackNothing \/ RollbackReplica \/ RollbackOver
    BY <1>9, RollbackSettles
  <1>10. CASE Expire \/ Returned \/ UNCHANGED vars
    BY <1>10, SilentSteps DEF Returned
  <1> HIDE DEF Promise!Next
  <1>11. CASE Execute
    BY <1>1, <1>2, <1>3, <1>4, <1>5, <1>6, <1>7, <1>8, <1>9, <1>11, Zenon DEF Execute
  <1> QED BY <1>10, <1>11 DEF Next

\* Every execution of a strategy is a deployment in waves, as Deployment states
\* it: the safety part of KeepsPromise, for every configuration.
THEOREM PromiseIsKept == PerReplica => (Spec => Promise!Safety)
  <1> SUFFICES ASSUME PerReplica PROVE Spec => Promise!Safety
    OBVIOUS
  <1>1. Init => Promise!Init
    BY DEF Init, Promise!Init, CurrentWave, Phase, Running
  <1>2. IInv /\ [Next]_vars => [Promise!Next]_Promise!vars
    BY StepKeepsPromise
  <1> QED BY <1>1, <1>2, Invariant, PTL DEF Spec, Promise!Safety
================================================================================
