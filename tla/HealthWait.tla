------------------------------- MODULE HealthWait -------------------------------
(***************************************************************************)
(* The health checker (internal/health) under waitForHealth of a strategy  *)
(* (internal/strategy): one checker, with one status and one pair of        *)
(* counters, asked once a second about one replica after the other.        *)
(*                                                                         *)
(* Check returns the status as it is when the last probe, of whatever      *)
(* replica, is more recent than RetryInterval.  Otherwise it probes, and    *)
(* what it makes of the probe depends on the kind of checker: http and tcp  *)
(* answer with the status the probe leaves behind, docker and command with  *)
(* the probe itself; an error of Check counts as a failure in the wait.     *)
(* Docker and command probe the container of the replica; http and tcp probe *)
(* localhost, whatever replica they are asked about.                        *)
(*                                                                         *)
(* Both sides have the same HealthCheckConfig: the type, the thresholds and *)
(* the retry interval.  Time is in whole seconds, the period of the ticker; *)
(* an interval of zero is one below a second.                              *)
(*                                                                         *)
(* A definition introduced as a "Slip" is a mistake the code could have    *)
(* made and does not make; it stands before the definition it spoils.      *)
(***************************************************************************)
EXTENDS Integers

CONSTANTS
  Configs,   \* the configurations, as ValidateConfig leaves them
  Replicas   \* number of replicas to wait for

HealthCheckConfig ==
  [kind: {"docker", "http", "tcp", "command"},
   success: 1 .. 10, failure: 1 .. 10, retry: Nat]

ASSUME ConfigsAssumption  == Configs \subseteq HealthCheckConfig
ASSUME ReplicasAssumption == Replicas \in Nat \ {0}

VARIABLES
  config,
  status,               \* healthStatus
  successes, failures,  \* successCount and failureCount of the checker
  age,                  \* seconds since lastCheckTime, config.retry at most
  current,              \* the replica waitForHealth is called for
  ok, bad,              \* successCount and failureCount of waitForHealth
  verified,             \* replicas waitForHealth has returned healthy for
  outcome,              \* "none", "healthy" (all of them), "unhealthy", "timeout"
  world,                \* what probes find: "mixed", later "up" or "down"
  \* history
  lastProbe,            \* the last probe made while each replica was waited
                        \* for: what it was of, what it found, and whether it
                        \* or one before it in that wait failed
  run                   \* length of the run of equal probes, < 0 for failures;
                        \* counted up to the largest threshold there is

checker == <<status, successes, failures>>
wait    == <<current, ok, bad, verified, outcome>>
vars    == <<config, checker, age, wait, world, lastProbe, run>>

\* The placeholder http and tcp checkers probe.
Localhost == 0
Probes == [of: 0 .. Replicas, found: {"none", "pass", "fail"}, failed: BOOLEAN]
NoProbe == [of |-> Localhost, found |-> "none", failed |-> FALSE]

TypeOK ==
  /\ config \in Configs
  /\ status \in BOOLEAN
  /\ successes \in Nat /\ failures \in Nat
  /\ age \in Int /\ age <= config.retry
  /\ current \in 1 .. Replicas
  /\ ok \in Nat /\ bad \in Nat
  /\ verified = 1 .. (IF outcome = "healthy" THEN Replicas ELSE current - 1)
  /\ outcome \in {"none", "healthy", "unhealthy", "timeout"}
  /\ world \in {"mixed", "up", "down"}
  /\ lastProbe \in [1 .. Replicas -> Probes]
  /\ run \in -10 .. 10

\* A checker that has never probed does not wait for the interval.
Init ==
  /\ config \in Configs
  /\ status = FALSE /\ successes = 0 /\ failures = 0 /\ age = config.retry
  /\ current = 1 /\ ok = 0 /\ bad = 0 /\ verified = {} /\ outcome = "none"
  /\ world = "mixed"
  /\ lastProbe = [r \in 1 .. Replicas |-> NoProbe] /\ run = 0

AtLeast(k, m) == IF k < m THEN m ELSE k

MaxThreshold == 10
Longer(k) == IF k < 0 THEN 1 ELSE IF k < MaxThreshold THEN k + 1 ELSE MaxThreshold
RunAfter(pass) == IF pass THEN Longer(run) ELSE 0 - Longer(0 - run)

-----------------------------------------------------------------------------
\* Slip: a failure does not end a run of successes.
KeepSuccesses == UNCHANGED successes

ForgetSuccesses == successes' = 0

\* UpdateStatus.
UpdateStatus(healthy) ==
  \/ /\ healthy
     /\ successes' = successes + 1 /\ failures' = 0
     /\ status' = (successes + 1 >= config.success \/ status)
  \/ /\ ~healthy
     /\ failures' = failures + 1 /\ ForgetSuccesses
     /\ status' = (failures + 1 < config.failure /\ status)

\* What a probe can find: it passes, it fails, or it fails with an error.  A
\* tcp checker knows no failure but errors.
Findings ==
  (IF world = "down" THEN {} ELSE {"pass"})
    \union (IF world = "up" THEN {} ELSE IF config.kind = "tcp" THEN {"error"}
            ELSE {"fail", "error"})

\* What is probed when Check is called for a replica.
Target(r) == IF config.kind \in {"http", "tcp"} THEN Localhost ELSE r

\* What the wait takes the answer of Check for.
Answer(found) ==
  IF config.kind \in {"http", "tcp"} THEN found # "error" /\ status'
  ELSE found = "pass"

-----------------------------------------------------------------------------
\* waitForHealth is called for the next replica: at once inside a batch, or
\* after an update and a delay.  Its ticker is new, so a probe made before is at
\* least a second old when it first ticks.
StartWait(a) ==
  /\ current' = current + 1 /\ ok' = 0 /\ bad' = 0
  /\ age' \in AtLeast(a, 0) .. config.retry
  /\ UNCHANGED outcome

\* One round of waitForHealth after an answer, a the age of the last probe.
Count(healthy, a) ==
  \/ /\ healthy /\ ok + 1 >= config.success
     /\ verified' = verified \union {current}
     /\ IF current < Replicas THEN StartWait(a)
        ELSE outcome' = "healthy" /\ age' = a /\ UNCHANGED <<current, ok, bad>>
  \/ /\ healthy /\ ok + 1 < config.success
     /\ ok' = ok + 1 /\ bad' = 0 /\ age' = a
     /\ UNCHANGED <<current, verified, outcome>>
  \/ /\ ~healthy
     /\ bad' = bad + 1 /\ ok' = 0 /\ age' = a
     /\ outcome' = IF bad + 1 >= config.failure THEN "unhealthy" ELSE outcome
     /\ UNCHANGED <<current, verified>>

\* Slip: the status is kept for a tick too long.
CachesLonger == age >= config.retry

\* ShouldCheck, at the tick that comes a second after the last one.
ShouldCheck == age + 1 >= config.retry

CachedCheck ==
  /\ outcome = "none" /\ ~ShouldCheck
  /\ Count(status, age + 1)
  /\ UNCHANGED <<config, checker, world, lastProbe, run>>

\* Slip: the probe does not enter the status.
StatusUntouched(healthy) == UNCHANGED checker

StatusUpdated(healthy) == UpdateStatus(healthy)

\* The next tick finds the probe less than a second old; after a probe that
\* took longer than a second the next tick has been waiting.
Probe ==
  /\ outcome = "none" /\ ShouldCheck
  /\ \E found \in Findings, a \in {-1, -2} :
       /\ StatusUpdated(found = "pass")
       /\ Count(Answer(found), a)
       /\ lastProbe' = [lastProbe EXCEPT ![current] =
            [of |-> Target(current), found |-> IF found = "pass" THEN "pass" ELSE "fail",
             failed |-> @.failed \/ found # "pass"]]
       /\ run' = RunAfter(found = "pass")
  /\ UNCHANGED <<config, world>>

\* The deadline of the deployment: the wait returns the error of its context.
ContextDone ==
  /\ outcome = "none" /\ outcome' = "timeout"
  /\ UNCHANGED <<config, checker, age, current, ok, bad, verified, world,
                 lastProbe, run>>

\* The service comes up, or goes down, for good.
Settle ==
  /\ world = "mixed" /\ world' \in {"up", "down"}
  /\ UNCHANGED <<config, checker, age, wait, lastProbe, run>>

Returned == outcome # "none" /\ UNCHANGED vars

Tick == CachedCheck \/ Probe
Next == Tick \/ ContextDone \/ Settle \/ Returned

\* The ticker of the wait ticks.  Nothing is assumed of the deadline, which can
\* be as far away as one likes.
Spec == Init /\ [][Next]_vars /\ WF_vars(Tick)

-----------------------------------------------------------------------------
(***************************************************************************)
(* Properties                                                              *)
(***************************************************************************)
\* "Check performs a health check on the specified replica".  For docker and
\* command it does; what http and tcp find out is about localhost, and no verdict
\* of theirs rests on a probe of the replica it is about.
OfItself(r) == config.kind \in {"docker", "command"} => lastProbe[r].of = r

\* One status stands for all the replicas, and answers when the cache does: still
\* a replica is found healthy only when it, or localhost, has been probed while it
\* was waited for and the last probe passed, if a single failure turns the status
\* and the first tick of a wait probes, or if more answers in a row are asked for
\* than the cache can give between two probes.  (An http checker gives its status
\* for a failed probe as well, so the second condition does not help it.)
\* Otherwise a verdict may rest on what was found about another replica.
HealthyRestsOnProbe ==
  \/ config.failure = 1 /\ config.retry <= 1
  \/ config.kind # "http" /\ config.success > config.retry + 1
  => \A r \in verified : lastProbe[r].found = "pass" /\ OfItself(r)

\* FailureThreshold and SuccessThreshold are numbers of consecutive checks: the
\* status turns only at the end of a run of that many equal probes.
StatusIsEarned ==
  [][ /\ status' /\ ~status => run' >= config.success
      /\ status /\ ~status' => 0 - run' >= config.failure ]_vars

\* "FailureThreshold is the number of consecutive failed checks required": a
\* replica is given up only when a probe has failed while it was waited for; the
\* last one, when a single success turns the status.  For the first replica, which
\* a new checker meets with the status unhealthy, the failures to count must be
\* more than the answers a service that is up gets before its successes have
\* turned the status; with fewer it is given up without a failed probe.
UnhealthyRestsOnProbe ==
  outcome = "unhealthy" =>
    /\ config.success = 1 => lastProbe[current].found = "fail" /\ OfItself(current)
    /\ \/ current > 1
       \/ config.failure > (config.success - 1) * (config.retry + 2)
       => lastProbe[current].failed /\ OfItself(current)

\* Answers from the cache and from probes alternate, and one can undo the count
\* of the other; still, once the service is up or down for good, the wait ends,
\* and does not need the deadline for it.
Decides == world # "mixed" ~> outcome # "none"

-----------------------------------------------------------------------------
(***************************************************************************)
(* The inductive invariant behind the safety properties.                   *)
(***************************************************************************)
\* The counters of the checker follow the run of equal probes.
CountersFollowRun ==
  /\ IF run < MaxThreshold THEN successes = AtLeast(run, 0) ELSE successes >= run
  /\ IF run > 0 - MaxThreshold THEN failures = AtLeast(0 - run, 0)
     ELSE failures >= 0 - run

\* A replica that is still to come has not been probed, and the first tick for
\* a replica probes it when the checker is new or the interval short.
FirstProbeIsDue ==
  /\ \A r \in 1 .. Replicas : r > current => lastProbe[r] = NoProbe
  /\ \A r \in 1 .. Replicas :
       /\ lastProbe[r].found # "none" => lastProbe[r].of = Target(r)
       /\ lastProbe[r].found = "none" => ~lastProbe[r].failed
       /\ lastProbe[r].found = "fail" => lastProbe[r].failed
  /\ lastProbe[current].found = "none" =>
       /\ current = 1 => age = config.retry /\ bad = 0 /\ run = 0
       /\ config.retry <= 1 => age + 1 >= config.retry
  /\ lastProbe[current].found # "none" => age < config.retry

\* With a threshold of one the status is what the last probe found; a replica
\* not probed yet is met with the status its predecessor left.
StatusFollowsProbes ==
  /\ config.failure = 1 /\ lastProbe[current].found = "fail" => ~status
  /\ config.success = 1 /\ lastProbe[current].found = "pass" => status
  /\ current > 1 /\ ~lastProbe[current].failed => status

\* What the counts of the wait hold: successes of the checker, or a good status;
\* without a probe that passed, answers of the cache only; and, for the first
\* replica, the answers that came before the successes were enough.
CountsFollowProbes ==
  outcome = "none" =>
    /\ status \/ ok <= successes
    /\ config.kind # "http" /\ lastProbe[current].found # "pass" => ok <= age + 2
    /\ current = 1 /\ ~lastProbe[1].failed =>
         /\ run >= 0
         /\ lastProbe[1].found # "none" => run >= 1
         /\ status => bad = 0
         /\ ~status => /\ run < config.success
                       /\ bad <= (run - 1) * (config.retry + 2) + age + 3

InductiveInvariant ==
  /\ TypeOK /\ CountersFollowRun /\ FirstProbeIsDue /\ StatusFollowsProbes
  /\ CountsFollowProbes /\ HealthyRestsOnProbe /\ UnhealthyRestsOnProbe
================================================================================
