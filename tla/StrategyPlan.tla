------------------------------ MODULE StrategyPlan ------------------------------
(***************************************************************************)
(* The arithmetic of the deployment strategies (internal/strategy): what   *)
(* StrategyConfig.ApplyDefaults and Validate make of a configuration, how  *)
(* each Execute cuts the list of replicas into batches, and the thresholds *)
(* waitForHealth counts against.                                           *)
(*                                                                         *)
(* A configuration is a record                                             *)
(*   kind        the StrategyType                                          *)
(*   n           len(replicas), what GetServiceReplicas returns            *)
(*   percentage  Percentage as given, before the defaults                  *)
(*   success     HealthCheck.SuccessThreshold as given                     *)
(*   failure     HealthCheck.FailureThreshold as given                     *)
(*   rollback    RollbackOnFailure                                         *)
(*   pre, post   whether PreUpdateCommand / PostUpdateCommand is set       *)
(*                                                                         *)
(* A definition introduced as a "Slip" is a mistake the code could have    *)
(* made and does not make; it stands before the definition it spoils, and  *)
(* the README says which property notices it.                              *)
(***************************************************************************)
EXTENDS Integers

OneAtATime == "one-at-a-time"
Percentage == "percentage"
Canary     == "canary"
BlueGreen  == "blue-green"

\* The strategies that call UpdateReplica.
BatchKinds == {OneAtATime, Percentage, Canary}
Kinds      == BatchKinds \union {BlueGreen}

AtLeastOne(k) == IF k < 1 THEN 1 ELSE k
AtMost(k, m)  == IF k > m THEN m ELSE k

DefaultPercentage == [k \in Kinds |-> IF k = Percentage THEN 20
                                      ELSE IF k = Canary THEN 10 ELSE 0]

\* ApplyDefaults: only the two percentage kinds replace a missing percentage.
EffectivePercentage(c) ==
  IF c.percentage <= 0 /\ c.kind \in {Percentage, Canary}
  THEN DefaultPercentage[c.kind] ELSE c.percentage

\* Validate, after ApplyDefaults.
ValidConfig(c) ==
  /\ c.kind \in Kinds
  /\ c.kind = Percentage => EffectivePercentage(c) \in 1 .. 100
  /\ c.kind = Canary     => EffectivePercentage(c) \in 1 .. 50
  /\ c.success <= 10 /\ c.failure <= 10

-----------------------------------------------------------------------------
\* int(float64(n) * float64(p) / 100) and (n * p) / 100, never below one.
Share(c) == AtLeastOne((c.n * EffectivePercentage(c)) \div 100)

ProgressionSteps == 4
StepSize(c) == AtLeastOne((c.n - Share(c)) \div ProgressionSteps)

\* Slip: canary updates everything that is left after its first batch.
BatchSizeAllTheRest(c, lo) == IF lo = 0 THEN Share(c) ELSE AtLeastOne(c.n - lo)

\* Number of replicas in the batch that starts after position lo.
BatchSize(c, lo) ==
  IF c.kind = OneAtATime THEN 1
  ELSE IF c.kind = Percentage \/ lo = 0 THEN Share(c)
  ELSE StepSize(c)

BatchEnd(c, lo) == AtMost(lo + BatchSize(c, lo), c.n)

\* The largest batch of the whole deployment.
LargestBatch(c) ==
  IF c.kind = OneAtATime THEN 1
  ELSE IF c.kind = Percentage \/ Share(c) >= StepSize(c) THEN Share(c)
  ELSE StepSize(c)

-----------------------------------------------------------------------------
\* waitForHealth: a threshold that is not set counts as 1 success, 3 failures.
RequiredSuccesses(c) == AtLeastOne(c.success)
AllowedFailures(c)   == IF c.failure <= 0 THEN 3 ELSE c.failure
================================================================================
