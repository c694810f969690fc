---------------------------- MODULE HealthWaitProofs ----------------------------
(***************************************************************************)
(* Proofs about HealthWait: for every number of replicas and every set of  *)
(* valid configurations, the status of the checker is earned by runs of    *)
(* probes, and the thresholds and the retry interval under which a verdict *)
(* of the wait rests on a probe made while its replica was waited for do   *)
(* what they promise.                                                      *)
(***************************************************************************)
EXTENDS HealthWait, TLAPS

\* The initial states satisfy the invariant.
LEMMA InitInvariant == Init => InductiveInvariant
<1>. SUFFICES ASSUME Init PROVE InductiveInvariant
  OBVIOUS
<1>. /\ config \in Configs /\ config.retry \in Nat
     /\ Replicas \in Nat /\ 1 \in 1 .. Replicas
  BY ConfigsAssumption, ReplicasAssumption DEF Init, HealthCheckConfig
<1>. verified = 1 .. current - 1
  <2>. 1 .. 1 - 1 = {}
    OBVIOUS
  <2>. QED
    BY DEF Init
<1>1. TypeOK
  <2>1. /\ outcome = "none" /\ world = "mixed" /\ status = FALSE
        /\ lastProbe = [r \in 1 .. Replicas |-> NoProbe]
        /\ current = 1 /\ age = config.retry /\ successes = 0 /\ failures = 0
        /\ ok = 0 /\ bad = 0 /\ run = 0
    BY DEF Init
  <2>2. lastProbe \in [1 .. Replicas -> Probes]
    BY <2>1 DEF Probes, NoProbe, Localhost
  <2>3. verified = 1 .. (IF outcome = "healthy" THEN Replicas ELSE current - 1)
    BY <2>1
  <2>4. /\ age \in Int /\ age <= config.retry /\ run \in -10 .. 10
        /\ successes \in Nat /\ failures \in Nat /\ ok \in Nat /\ bad \in Nat
        /\ current \in 1 .. Replicas
        /\ outcome \in {"none", "healthy", "unhealthy", "timeout"}
        /\ world \in {"mixed", "up", "down"}
    BY <2>1
  <2>5. status \in BOOLEAN
    BY <2>1
  <2>. QED
    BY <2>2, <2>3, <2>4, <2>5 DEF TypeOK
<1>2. /\ CountersFollowRun /\ FirstProbeIsDue /\ StatusFollowsProbes
      /\ CountsFollowProbes
  <2>1. \A r \in 1 .. Replicas : lastProbe[r] = NoProbe
    BY DEF Init
  <2>2. CountersFollowRun
    BY DEF Init, CountersFollowRun, AtLeast, MaxThreshold
  <2>3. FirstProbeIsDue
    BY <2>1 DEF Init, FirstProbeIsDue, NoProbe
  <2>4. StatusFollowsProbes
    BY <2>1 DEF Init, StatusFollowsProbes, NoProbe
  <2>5. CountsFollowProbes
    <3>1. /\ status = FALSE /\ ok = 0 /\ bad = 0 /\ run = 0 /\ age = config.retry
          /\ successes = 0 /\ current = 1 /\ lastProbe[1] = NoProbe
      BY <2>1 DEF Init
    <3>2. config.success \in 1 .. 10
      BY ConfigsAssumption DEF HealthCheckConfig
    <3>3. (0 - 1) * (config.retry + 2) + config.retry + 3 = 1
      OBVIOUS
    <3>. QED
      BY <3>1, <3>2, <3>3 DEF CountsFollowProbes, NoProbe
  <2>. QED
    BY <2>2, <2>3, <2>4, <2>5
<1>3. HealthyRestsOnProbe /\ UnhealthyRestsOnProbe
  BY DEF Init, HealthyRestsOnProbe, UnhealthyRestsOnProbe
<1>. QED
  BY <1>1, <1>2, <1>3 DEF InductiveInvariant

\* A number of rounds k, and what they add up to at R a round.
LEMMA Rounds ==
  ASSUME NEW k \in Nat, NEW m \in Nat, k <= m, NEW R \in Nat
  PROVE  /\ k * R \in Nat /\ m * R \in Nat /\ k * R <= m * R
         /\ (k - 1) * R + R = k * R /\ k * R + R = (k + 1) * R
<1>1. k * R \in Nat /\ m * R \in Nat
  OBVIOUS
<1>2. k * R <= m * R
  <2>1. PICK d \in Nat : m = k + d
    <3>1. m - k \in Nat /\ m = k + (m - k)
      OBVIOUS
    <3>. QED
      BY <3>1
  <2>2. m * R = k * R + d * R /\ d * R \in Nat
    BY <2>1
  <2>. QED
    BY <1>1, <2>2
<1>. QED
  BY <1>1, <1>2

\* What a count b that is not above x + g + 3 comes to, g being the age of a probe
\* below the interval t.
LEMMA Late ==
  ASSUME NEW b \in Int, NEW x \in Int, NEW g \in Int, NEW t \in Int,
         b <= x + g + 3, g < t
  PROVE  /\ b <= x + (t + 2)
         /\ g + 1 < t => b + 1 <= x + (t + 2)
OBVIOUS

LEMMA NotAbove ==
  ASSUME NEW k \in Int, k <= 0, NEW g \in Int, 0 <= g
  PROVE  k <= g + 2
OBVIOUS

\* What one answer does to the wait: only a healthy answer lets it go on to the
\* next replica, only an unhealthy one gives the current replica up.
LEMMA CountStep ==
  ASSUME TypeOK, outcome = "none", NEW h \in BOOLEAN, NEW a \in Int,
         a <= config.retry, Count(h, a)
  PROVE  /\ current' \in 1 .. Replicas /\ ok' \in Nat /\ bad' \in Nat
         /\ outcome' \in {"none", "healthy", "unhealthy"}
         /\ verified' =
              1 .. (IF outcome' = "healthy" THEN Replicas ELSE current' - 1)
         /\ age' \in Int /\ age' <= config.retry
         /\ verified' \subseteq verified \union {current}
         /\ verified' # verified => h /\ ok + 1 >= config.success
         /\ outcome' = "unhealthy" => ~h /\ bad + 1 >= config.failure
         /\ \/ /\ ~h /\ current' = current /\ age' = a
               /\ ok' = 0 /\ bad' = bad + 1
            \/ /\ h /\ current' = current /\ age' = a
               /\ (outcome' = "healthy" \/ (ok' = ok + 1 /\ bad' = 0))
            \/ /\ h /\ current' = current + 1 /\ age' >= 0
               /\ ok' = 0 /\ bad' = 0 /\ ok + 1 >= config.success
<1>. /\ config.retry \in Nat /\ config.success \in 1 .. 10
     /\ config.failure \in 1 .. 10
     /\ current \in 1 .. Replicas /\ ok \in Nat /\ bad \in Nat
     /\ verified = 1 .. current - 1
  BY ConfigsAssumption DEF TypeOK, HealthCheckConfig
<1>. Replicas \in Nat \ {0}
  BY ReplicasAssumption
<1>1. CASE h /\ ok + 1 >= config.success /\ current < Replicas
  <2>. DEFINE first == AtLeast(a, 0)
  <2>1. /\ verified' = verified \union {current} /\ current' = current + 1
        /\ ok' = 0 /\ bad' = 0 /\ outcome' = "none"
        /\ age' \in first .. config.retry
    BY <1>1 DEF Count, StartWait
  <2>2. first \in Nat
    BY DEF AtLeast
  <2>. HIDE DEF first
  <2>3. verified' = 1 .. current' - 1
    BY <2>1
  <2>. QED
    BY <1>1, <2>1, <2>2, <2>3
<1>2. CASE h /\ ok + 1 >= config.success /\ ~(current < Replicas)
  <2>1. /\ verified' = verified \union {current} /\ current' = current
        /\ ok' = ok /\ bad' = bad /\ outcome' = "healthy" /\ age' = a
    BY <1>2 DEF Count
  <2>2. current = Replicas
    BY <1>2
  <2>3. verified' = 1 .. Replicas
    BY <2>1, <2>2
  <2>. QED
    BY <1>2, <2>1, <2>3
<1>3. CASE h /\ ok + 1 < config.success
  BY <1>3 DEF Count
<1>4. CASE ~h
  BY <1>4 DEF Count
<1>. QED
  BY <1>1, <1>2, <1>3, <1>4

\* What a probe does to the checker.
LEMMA StatusStep ==
  ASSUME TypeOK, CountersFollowRun, NEW pass \in BOOLEAN, StatusUpdated(pass),
         run' = RunAfter(pass)
  PROVE  /\ status' \in BOOLEAN /\ successes' \in Nat /\ failures' \in Nat
         /\ run' \in -10 .. 10 /\ CountersFollowRun'
         /\ config.failure = 1 /\ ~pass => ~status'
         /\ config.success = 1 /\ pass => status'
         /\ pass => /\ successes' = successes + 1
                    /\ (status \/ successes + 1 >= config.success) => status'
                    /\ run >= 0 => run' >= 1 /\ (run < 10 => run' = run + 1)
                    /\ ~status' => run' < config.success
         /\ status' /\ ~status => run' >= config.success
         /\ status /\ ~status' => 0 - run' >= config.failure
<1>. /\ config.success \in 1 .. 10 /\ config.failure \in 1 .. 10
     /\ status \in BOOLEAN /\ successes \in Nat /\ failures \in Nat /\ run \in -10 .. 10
  BY ConfigsAssumption DEF TypeOK, HealthCheckConfig
<1>1. CASE pass
  <2>. /\ successes' = successes + 1 /\ failures' = 0
       /\ status' = (successes + 1 >= config.success \/ status)
    BY <1>1 DEF StatusUpdated, UpdateStatus
  <2>. run' = IF run < 0 THEN 1 ELSE IF run < 10 THEN run + 1 ELSE 10
    BY <1>1 DEF RunAfter, Longer, MaxThreshold
  <2>. /\ run' \in 1 .. 10
       /\ IF run' < 10 THEN successes' = run' ELSE successes' >= 10
    BY DEF CountersFollowRun, AtLeast, MaxThreshold
  <2>0. successes' >= config.success => run' >= config.success
    OBVIOUS
  <2>a. status' \in BOOLEAN /\ (status' <=> (successes + 1 >= config.success \/ status))
    BY Zenon
  <2>1. /\ status' \in BOOLEAN /\ config.success = 1 => status'
        /\ status' /\ ~status => successes' >= config.success
        /\ status => status'
        /\ (status \/ successes + 1 >= config.success) => status'
    BY <2>a
  <2>3. /\ run >= 0 => run' >= 1 /\ (run < 10 => run' = run + 1)
        /\ ~status' => run' < config.success
    <3>1. ~status' => successes' < config.success
      BY <2>1
    <3>. QED
      BY <3>1
  <2>2. CountersFollowRun'
    BY DEF CountersFollowRun, AtLeast, MaxThreshold
  <2>. QED
    BY <1>1, <2>0, <2>1, <2>2, <2>3
<1>2. CASE ~pass
  <2>. /\ failures' = failures + 1 /\ successes' = 0
       /\ status' = (failures + 1 < config.failure /\ status)
    BY <1>2 DEF StatusUpdated, UpdateStatus, ForgetSuccesses
  <2>. run' = 0 - (IF 0 - run < 0 THEN 1
                  ELSE IF 0 - run < 10 THEN 0 - run + 1 ELSE 10)
    BY <1>2 DEF RunAfter, Longer, MaxThreshold
  <2>. /\ run' \in -10 .. -1
       /\ IF run' > -10 THEN failures' = 0 - run' ELSE failures' >= 10
    BY DEF CountersFollowRun, AtLeast, MaxThreshold
  <2>0. failures' >= config.failure => 0 - run' >= config.failure
    OBVIOUS
  <2>a. status' \in BOOLEAN /\ (status' <=> (failures + 1 < config.failure /\ status))
    BY Zenon
  <2>1. /\ status' \in BOOLEAN /\ config.failure = 1 => ~status'
        /\ status /\ ~status' => failures' >= config.failure
        /\ status' => status
    BY <2>a
  <2>2. CountersFollowRun'
    BY DEF CountersFollowRun, AtLeast, MaxThreshold
  <2>. QED
    BY <1>2, <2>0, <2>1, <2>2
<1>. QED
  BY <1>1, <1>2

\* A tick answered from the cache: the status stands for the replica waited for
\* only as far as it is the status its own probe, or its predecessor, left.
LEMMA CachedCheckKeeps ==
  ASSUME InductiveInvariant, CachedCheck
  PROVE  InductiveInvariant'
<1>. DEFINE a == age + 1
<1>1. /\ TypeOK /\ outcome = "none" /\ Count(status, a) /\ status \in BOOLEAN
      /\ a \in Int /\ a < config.retry
      /\ config.retry \in Nat /\ current \in 1 .. Replicas
      /\ verified = 1 .. current - 1
      /\ UNCHANGED <<config, checker, world, lastProbe, run>>
  BY ConfigsAssumption
     DEF InductiveInvariant, CachedCheck, ShouldCheck, TypeOK, HealthCheckConfig
<1>. HIDE DEF a
<1>2. /\ current' \in 1 .. Replicas /\ ok' \in Nat /\ bad' \in Nat
      /\ outcome' \in {"none", "healthy", "unhealthy"}
      /\ verified' =
           1 .. (IF outcome' = "healthy" THEN Replicas ELSE current' - 1)
      /\ age' \in Int /\ age' <= config.retry
      /\ verified' \subseteq verified \union {current}
      /\ verified' # verified => status /\ ok + 1 >= config.success
      /\ outcome' = "unhealthy" => ~status /\ bad + 1 >= config.failure
      /\ \/ /\ ~status /\ current' = current /\ age' = a
            /\ ok' = 0 /\ bad' = bad + 1
         \/ /\ status /\ current' = current /\ age' = a
            /\ (outcome' = "healthy" \/ (ok' = ok + 1 /\ bad' = 0))
         \/ /\ status /\ current' = current + 1 /\ age' >= 0
            /\ ok' = 0 /\ bad' = 0 /\ ok + 1 >= config.success
  BY <1>1, CountStep
<1>0. /\ ok \in Nat /\ bad \in Nat /\ run \in Int /\ successes \in Nat
      /\ config.success \in 1 .. 10 /\ config.failure \in 1 .. 10 /\ age \in Int
      /\ a = age + 1
  BY <1>1, ConfigsAssumption DEF TypeOK, HealthCheckConfig, a
<1>3. TypeOK' /\ CountersFollowRun'
  BY <1>1, <1>2 DEF InductiveInvariant, TypeOK, CountersFollowRun, checker
<1>4. FirstProbeIsDue'
  <2>1. current = 1 => lastProbe[current].found # "none"
    BY <1>0, <1>1 DEF InductiveInvariant, FirstProbeIsDue
  <2>2. \A r \in 1 .. Replicas : r > current' => r > current
    BY <1>1, <1>2, ReplicasAssumption
  <2>3. CASE current' = current
    <3>1. age' = age + 1 /\ age' < config.retry
      BY <1>0, <1>1, <1>2, <2>3
    <3>2. lastProbe' = lastProbe /\ config' = config /\ run' = run
      BY <1>1
    <3>3. lastProbe[current].found = "none" =>
            current' # 1 /\ (config.retry <= 1 => age' + 1 >= config.retry)
      <4>1. lastProbe[current].found = "none" => current # 1
        BY <2>1
      <4>2. lastProbe[current].found = "none" /\ config.retry <= 1 => age + 1 >= config.retry
        BY DEF InductiveInvariant, FirstProbeIsDue
      <4>3. age + 1 >= config.retry => age' + 1 >= config.retry
        BY <1>0, <1>1, <3>1
      <4>. QED
        BY <2>3, <4>1, <4>2, <4>3
    <3>4. \A r \in 1 .. Replicas :
            /\ lastProbe[r].found # "none" => lastProbe[r].of = Target(r)
            /\ lastProbe[r].found = "none" => ~lastProbe[r].failed
            /\ lastProbe[r].found = "fail" => lastProbe[r].failed
      BY DEF InductiveInvariant, FirstProbeIsDue
    <3>5. \A r \in 1 .. Replicas : r > current' => lastProbe[r] = NoProbe
      BY <2>2 DEF InductiveInvariant, FirstProbeIsDue
    <3>. QED
      BY <2>3, <3>1, <3>2, <3>3, <3>4, <3>5 DEF FirstProbeIsDue, Target
  <2>4. CASE current' = current + 1
    <3>1. lastProbe[current'] = NoProbe
      BY <1>1, <1>2, <2>4 DEF InductiveInvariant, FirstProbeIsDue
    <3>2. current' # 1 /\ age' >= 0
      BY <1>1, <1>2, <2>4
    <3>3. lastProbe[current'].found = "none"
      BY <3>1 DEF NoProbe
    <3>4. config.retry <= 1 => age' + 1 >= config.retry
      BY <1>1, <1>2, <3>2
    <3>5. lastProbe' = lastProbe /\ config' = config
      BY <1>1
    <3>6. \A r \in 1 .. Replicas :
            /\ lastProbe[r].found # "none" => lastProbe[r].of = Target(r)
            /\ lastProbe[r].found = "none" => ~lastProbe[r].failed
            /\ lastProbe[r].found = "fail" => lastProbe[r].failed
      BY DEF InductiveInvariant, FirstProbeIsDue
    <3>7. \A r \in 1 .. Replicas : r > current' => lastProbe[r] = NoProbe
      BY <2>2 DEF InductiveInvariant, FirstProbeIsDue
    <3>. QED
      BY <3>2, <3>3, <3>4, <3>5, <3>6, <3>7 DEF FirstProbeIsDue, Target
  <2>. QED
    BY <1>1, <1>2, <2>3, <2>4
<1>5. StatusFollowsProbes'
  <2>1. CASE current' = current
    BY <1>1, <2>1 DEF InductiveInvariant, StatusFollowsProbes, checker
  <2>2. CASE current' # current
    <3>1. lastProbe[current'] = NoProbe /\ status
      BY <1>1, <1>2, <2>2 DEF InductiveInvariant, FirstProbeIsDue
    <3>. QED
      BY <1>1, <3>1 DEF StatusFollowsProbes, NoProbe, checker
  <2>. QED
    BY <2>1, <2>2
<1>6. CountsFollowProbes'
  <2>. SUFFICES ASSUME outcome' = "none" PROVE CountsFollowProbes'
    BY DEF CountsFollowProbes
  <2>. DEFINE R == config.retry + 2
  <2>1. status' = status /\ successes' = successes /\ config' = config
        /\ lastProbe' = lastProbe /\ run' = run
    BY <1>1 DEF checker
  <2>2. status \/ ok' <= successes
    BY <1>0, <1>2
  <2>3. config.kind # "http" /\ lastProbe[current'].found # "pass" => ok' <= age' + 2
    <3>1. CASE current' = current
      <4>1. config.kind # "http" /\ lastProbe[current].found # "pass" => ok <= age + 2
        BY <1>1 DEF InductiveInvariant, CountsFollowProbes
      <4>2. ok' <= ok + 1 /\ age' = age + 1 /\ ok' \in Nat
        BY <1>0, <1>2, <3>1
      <4>3. ok <= age + 2 => ok' <= age' + 2
        BY ONLY <1>0, <4>2
      <4>. QED
        BY <3>1, <4>1, <4>3
    <3>2. CASE current' # current
      <4>1. ok' \in Int /\ ok' <= 0 /\ age' \in Int /\ 0 <= age'
        BY <1>2, <3>2
      <4>2. ok' <= age' + 2
        BY <4>1, NotAbove
      <4>. QED
        BY <4>2
    <3>. QED
      BY <3>1, <3>2
  <2>4. ASSUME current' = 1, ~lastProbe[1].failed
        PROVE  /\ run >= 0
               /\ lastProbe[1].found # "none" => run >= 1
               /\ status => bad' = 0
               /\ ~status => run < config.success /\ bad' <= (run - 1) * R + age' + 3
    <3>1. current = 1 /\ age' = a
      BY <1>1, <1>2, <2>4
    <3>2. /\ run >= 0
          /\ lastProbe[1].found # "none" => run >= 1
          /\ ~status => run < config.success /\ bad <= (run - 1) * R + age + 3
      BY <1>1, <2>4, <3>1 DEF InductiveInvariant, CountsFollowProbes
    <3>3. (run - 1) * R \in Int
      BY <1>0, <1>1
    <3>4. status => bad' = 0
      BY <1>1, <1>2, <3>1
    <3>5. ~status => bad' = bad + 1
      BY <1>2
    <3>. HIDE DEF R
    <3>. QED
      BY <1>0, <3>1, <3>2, <3>3, <3>4, <3>5
  <2>. QED
    BY <2>1, <2>2, <2>3, <2>4 DEF CountsFollowProbes
<1>7. HealthyRestsOnProbe'
  <2>. SUFFICES ASSUME \/ config.failure = 1 /\ config.retry <= 1
                       \/ config.kind # "http" /\ config.success > config.retry + 1,
                       NEW r \in verified'
                PROVE  lastProbe[r].found = "pass" /\ OfItself(r)
    BY <1>1 DEF HealthyRestsOnProbe, OfItself
  <2>1. CASE r \in verified
    BY <2>1 DEF InductiveInvariant, HealthyRestsOnProbe
  <2>2. CASE r \notin verified
    <3>1. r = current /\ status /\ ok + 1 >= config.success
      BY <1>2, <2>2
    <3>2. lastProbe[current] \in Probes
      BY <1>1 DEF TypeOK
    <3>3. CASE config.failure = 1 /\ config.retry <= 1
      <4>1. lastProbe[current].found # "fail"
        BY <3>1, <3>3 DEF InductiveInvariant, StatusFollowsProbes
      <4>2. lastProbe[current].found # "none"
        BY <1>0, <1>1, <3>3 DEF InductiveInvariant, FirstProbeIsDue
      <4>. QED
        BY <1>1, <3>1, <3>2, <4>1, <4>2
           DEF Probes, OfItself, InductiveInvariant, FirstProbeIsDue, Target
    <3>4. CASE config.kind # "http" /\ config.success > config.retry + 1
      <4>1. lastProbe[current].found = "pass"
        <5>1. lastProbe[current].found # "pass" => ok <= age + 2
          BY <1>1, <3>4 DEF InductiveInvariant, CountsFollowProbes
        <5>2. ASSUME ok <= age + 2 PROVE ok + 1 < config.success
          <6>1. age + 1 < config.retry
            BY <1>0, <1>1
          <6>2. ok + 1 < config.retry + 2
            BY <1>0, <1>1, <5>2, <6>1
          <6>3. config.retry + 1 < config.success /\ config.success \in Int
            BY <1>0, <3>4
          <6>4. config.retry \in Int
            BY <1>1
          <6>. QED
            BY ONLY <1>0, <6>2, <6>3, <6>4
        <5>3. ~(ok + 1 < config.success)
          BY <1>0, <3>1
        <5>. QED
          BY <5>1, <5>2, <5>3
      <4>. QED
        BY <1>1, <3>1, <4>1 DEF OfItself, InductiveInvariant, FirstProbeIsDue, Target
    <3>. QED
      BY <3>3, <3>4
  <2>. QED
    BY <2>1, <2>2
<1>8. UnhealthyRestsOnProbe'
  <2>. SUFFICES ASSUME outcome' = "unhealthy"
                PROVE  /\ current' = current
                       /\ config.success = 1 =>
                            lastProbe[current].found = "fail" /\ OfItself(current)
                       /\ \/ current > 1
                          \/ config.failure > (config.success - 1) * (config.retry + 2)
                          => lastProbe[current].failed /\ OfItself(current)
    BY <1>1 DEF UnhealthyRestsOnProbe, OfItself
  <2>1. ~status /\ current' = current /\ bad + 1 >= config.failure
    BY <1>2
  <2>2. lastProbe[current] \in Probes
    BY <1>1 DEF TypeOK
  <2>3. current = 1 => lastProbe[current].found # "none"
    BY <1>0, <1>1 DEF InductiveInvariant, FirstProbeIsDue
  <2>4. current > 1 => lastProbe[current].failed
    BY <2>1 DEF InductiveInvariant, StatusFollowsProbes
  <2>5. lastProbe[current].failed => lastProbe[current].found # "none"
    BY <1>1 DEF InductiveInvariant, FirstProbeIsDue
  <2>6. lastProbe[current].found # "none" /\ OfItself(current)
    <3>1. lastProbe[current].found # "none"
      BY <1>1, <2>3, <2>4, <2>5
    <3>. QED
      BY <1>1, <3>1 DEF OfItself, InductiveInvariant, FirstProbeIsDue, Target
  <2>7. config.success = 1 => lastProbe[current].found = "fail"
    BY <2>1, <2>2, <2>6 DEF InductiveInvariant, StatusFollowsProbes, Probes
  <2>8. ASSUME current = 1, ~lastProbe[current].failed,
               config.failure > (config.success - 1) * (config.retry + 2)
        PROVE  FALSE
    <3>. DEFINE R == config.retry + 2
    <3>1. /\ run >= 1 /\ run < config.success
          /\ bad <= (run - 1) * R + age + 3
      BY <1>1, <2>1, <2>6, <2>8 DEF InductiveInvariant, CountsFollowProbes
    <3>2. R \in Nat /\ R = config.retry + 2
      BY <1>1
    <3>3. run \in Nat /\ config.success - 1 \in Nat /\ run <= config.success - 1
      BY <1>0, <3>1
    <3>. HIDE DEF R
    <3>4. /\ run * R <= (config.success - 1) * R /\ (run - 1) * R + R = run * R
          /\ run * R \in Nat /\ (config.success - 1) * R \in Nat
      BY <3>2, <3>3, Rounds
    <3>5. (run - 1) * R \in Int
      BY <3>2, <3>3
    <3>6. config.failure > (config.success - 1) * R
      BY <2>8 DEF R
    <3>a. age + 1 < config.retry /\ age < config.retry
      BY <1>0, <1>1
    <3>b. bad + 1 <= (run - 1) * R + (config.retry + 2)
      BY <1>0, <1>1, <3>1, <3>5, <3>a, Late
    <3>7. bad + 1 <= (run - 1) * R + R
      BY <3>2, <3>b
    <3>. QED
      BY <1>0, <2>1, <3>4, <3>5, <3>6, <3>7
  <2>. QED
    BY <1>1, <2>1, <2>4, <2>6, <2>7, <2>8
<1>. QED
  BY <1>3, <1>4, <1>5, <1>6, <1>7, <1>8 DEF InductiveInvariant

\* A probe, seen through the answer h it becomes: with the facts the two kinds
\* of checker have in common.
ProbeOf(found) ==
  [of |-> Target(current), found |-> IF found = "pass" THEN "pass" ELSE "fail",
   failed |-> lastProbe[current].failed \/ found # "pass"]

LEMMA ProbeStep ==
  ASSUME InductiveInvariant, Probe
  PROVE  \E found \in {"pass", "fail", "error"}, h \in BOOLEAN, a \in {-1, -2} :
           /\ StatusUpdated(found = "pass") /\ Count(h, a)
           /\ h => found = "pass" \/ (config.kind = "http" /\ status')
           /\ h => status' \/ config.kind \notin {"http", "tcp"}
           /\ ~h => found # "pass" \/ ~status'
           /\ lastProbe' = [lastProbe EXCEPT ![current] = ProbeOf(found)]
           /\ run' = RunAfter(found = "pass")
<1>1. PICK found \in Findings, a \in {-1, -2} :
        /\ StatusUpdated(found = "pass") /\ Count(Answer(found), a)
        /\ lastProbe' = [lastProbe EXCEPT ![current] =
             [of |-> Target(current), found |-> IF found = "pass" THEN "pass" ELSE "fail",
              failed |-> @.failed \/ found # "pass"]]
        /\ run' = RunAfter(found = "pass")
  BY DEF Probe
<1>a. lastProbe' = [lastProbe EXCEPT ![current] = ProbeOf(found)]
  BY <1>1 DEF ProbeOf
<1>2. found \in {"pass", "fail", "error"}
  BY DEF Findings
<1>b. config.kind = "tcp" => found # "fail"
  BY DEF Findings
<1>3. Answer(found) \in BOOLEAN
  BY DEF Answer
<1>4. /\ Answer(found) => found = "pass" \/ (config.kind = "http" /\ status')
      /\ Answer(found) => status' \/ config.kind \notin {"http", "tcp"}
      /\ ~Answer(found) => found # "pass" \/ ~status'
  <2>1. CASE config.kind \in {"http", "tcp"}
    BY <1>2, <1>b, <2>1 DEF Answer
  <2>2. CASE config.kind \notin {"http", "tcp"}
    BY <2>2 DEF Answer
  <2>. QED
    BY <2>1, <2>2
<1>. WITNESS found \in {"pass", "fail", "error"}, Answer(found) \in BOOLEAN,
             a \in {-1, -2}
<1>. QED
  BY <1>1, <1>a, <1>4

\* A tick that probes: with a threshold of one the status is what this probe
\* found, and the answer stands for the replica waited for.
LEMMA ProbeKeeps ==
  ASSUME InductiveInvariant, Probe
  PROVE  InductiveInvariant'
<1>1. /\ TypeOK /\ CountersFollowRun /\ outcome = "none"
      /\ config.retry \in Nat /\ current \in 1 .. Replicas
      /\ verified = 1 .. current - 1
      /\ lastProbe \in [1 .. Replicas -> Probes]
      /\ UNCHANGED <<config, world>>
  BY ConfigsAssumption DEF InductiveInvariant, Probe, TypeOK, HealthCheckConfig
<1>0. /\ ok \in Nat /\ bad \in Nat /\ run \in -10 .. 10 /\ successes \in Nat
      /\ config.success \in 1 .. 10 /\ config.failure \in 1 .. 10 /\ age \in Int
      /\ status \in BOOLEAN
  BY <1>1, ConfigsAssumption DEF TypeOK, HealthCheckConfig
<1>2. PICK found \in {"pass", "fail", "error"}, h \in BOOLEAN, a \in {-1, -2} :
        /\ StatusUpdated(found = "pass") /\ Count(h, a)
        /\ h => found = "pass" \/ (config.kind = "http" /\ status')
        /\ h => status' \/ config.kind \notin {"http", "tcp"}
        /\ ~h => found # "pass" \/ ~status'
        /\ lastProbe' = [lastProbe EXCEPT ![current] = ProbeOf(found)]
        /\ run' = RunAfter(found = "pass")
  BY ProbeStep
<1>3. a \in Int /\ a < 0 /\ a >= -2 /\ a <= config.retry
  BY <1>1
<1>4. /\ current' \in 1 .. Replicas /\ ok' \in Nat /\ bad' \in Nat
      /\ outcome' \in {"none", "healthy", "unhealthy"}
      /\ verified' =
           1 .. (IF outcome' = "healthy" THEN Replicas ELSE current' - 1)
      /\ age' \in Int /\ age' <= config.retry
      /\ verified' \subseteq verified \union {current}
      /\ verified' # verified => h /\ ok + 1 >= config.success
      /\ outcome' = "unhealthy" => ~h /\ bad + 1 >= config.failure
      /\ \/ /\ ~h /\ current' = current /\ age' = a
            /\ ok' = 0 /\ bad' = bad + 1
         \/ /\ h /\ current' = current /\ age' = a
            /\ (outcome' = "healthy" \/ (ok' = ok + 1 /\ bad' = 0))
         \/ /\ h /\ current' = current + 1 /\ age' >= 0
            /\ ok' = 0 /\ bad' = 0 /\ ok + 1 >= config.success
  BY <1>1, <1>2, <1>3, CountStep
<1>5. /\ status' \in BOOLEAN /\ successes' \in Nat /\ failures' \in Nat
      /\ run' \in -10 .. 10 /\ CountersFollowRun'
      /\ config.failure = 1 /\ found # "pass" => ~status'
      /\ config.success = 1 /\ found = "pass" => status'
      /\ found = "pass" =>
           /\ successes' = successes + 1
           /\ (status \/ successes + 1 >= config.success) => status'
           /\ run >= 0 => run' >= 1 /\ (run < 10 => run' = run + 1)
           /\ ~status' => run' < config.success
  <2>. DEFINE pass == found = "pass"
  <2>1. /\ pass \in BOOLEAN /\ StatusUpdated(pass)
        /\ run' = RunAfter(pass)
    BY <1>2
  <2>2. /\ status' \in BOOLEAN /\ successes' \in Nat /\ failures' \in Nat
        /\ run' \in -10 .. 10 /\ CountersFollowRun'
        /\ config.failure = 1 /\ ~pass => ~status'
        /\ config.success = 1 /\ pass => status'
        /\ pass =>
             /\ successes' = successes + 1
             /\ (status \/ successes + 1 >= config.success) => status'
             /\ run >= 0 => run' >= 1 /\ (run < 10 => run' = run + 1)
             /\ ~status' => run' < config.success
    <3>. HIDE DEF pass
    <3>. QED
      BY <1>1, <2>1, StatusStep
  <2>. QED
    BY <2>2
<1>6. /\ lastProbe'[current] = ProbeOf(found)
      /\ \A r \in 1 .. Replicas : r # current => lastProbe'[r] = lastProbe[r]
      /\ lastProbe' \in [1 .. Replicas -> Probes]
      /\ lastProbe'[current].found = IF found = "pass" THEN "pass" ELSE "fail"
      /\ lastProbe'[current].of = Target(current)
      /\ lastProbe'[current].failed <=> lastProbe[current].failed \/ found # "pass"
  <2>1. ProbeOf(found) \in Probes
    <3>1. Target(current) \in 0 .. Replicas
      BY <1>1, ReplicasAssumption DEF Target, Localhost
    <3>2. (lastProbe[current].failed \/ found # "pass") \in BOOLEAN
      OBVIOUS
    <3>. QED
      BY <3>1, <3>2 DEF ProbeOf, Probes
  <2>. QED
    BY <1>1, <1>2, <2>1 DEF ProbeOf
<1>7. TypeOK'
  BY <1>1, <1>4, <1>5, <1>6 DEF InductiveInvariant, TypeOK
<1>8. FirstProbeIsDue'
  <2>1. \A r \in 1 .. Replicas :
          /\ lastProbe'[r].found # "none" => lastProbe'[r].of = Target(r)'
          /\ lastProbe'[r].found = "none" => ~lastProbe'[r].failed
          /\ lastProbe'[r].found = "fail" => lastProbe'[r].failed
    <3>. SUFFICES ASSUME NEW r \in 1 .. Replicas
                  PROVE  /\ lastProbe'[r].found # "none" => lastProbe'[r].of = Target(r)'
                         /\ lastProbe'[r].found = "none" => ~lastProbe'[r].failed
                         /\ lastProbe'[r].found = "fail" => lastProbe'[r].failed
      OBVIOUS
    <3>1. Target(r)' = Target(r)
      BY <1>1 DEF Target
    <3>2. CASE r = current
      BY <1>6, <3>1, <3>2
    <3>3. CASE r # current
      BY <1>6, <3>1, <3>3 DEF InductiveInvariant, FirstProbeIsDue
    <3>. QED
      BY <3>2, <3>3
  <2>2. \A r \in 1 .. Replicas : r > current' => lastProbe'[r] = NoProbe
    BY <1>1, <1>4, <1>6 DEF InductiveInvariant, FirstProbeIsDue
  <2>3. CASE current' = current
    BY <1>1, <1>3, <1>4, <1>6, <2>1, <2>2, <2>3 DEF FirstProbeIsDue
  <2>4. CASE current' = current + 1
    <3>1. lastProbe'[current'] = NoProbe /\ current' # 1 /\ age' >= 0
      BY <1>1, <1>4, <1>6, <2>4 DEF InductiveInvariant, FirstProbeIsDue
    <3>2. lastProbe'[current'].found = "none"
      BY <3>1 DEF NoProbe
    <3>3. config.retry <= 1 => age' + 1 >= config.retry
      BY <1>1, <1>4, <3>1
    <3>. QED
      BY <1>1, <2>1, <2>2, <3>1, <3>2, <3>3 DEF FirstProbeIsDue
  <2>. QED
    BY <1>1, <1>4, <2>3, <2>4
\* Enough healthy answers mean a good status.
<1>9. h /\ ok + 1 >= config.success => status'
  <2>1. status \/ ok <= successes
    BY <1>1 DEF InductiveInvariant, CountsFollowProbes
  <2>2. CASE config.kind \in {"http", "tcp"}
    BY <1>2, <2>2
  <2>3. CASE config.kind \notin {"http", "tcp"}
    <3>1. h => found = "pass"
      BY <1>2, <2>3
    <3>2. ok <= successes /\ ok + 1 >= config.success => successes + 1 >= config.success
      BY <1>0
    <3>. QED
      BY <1>5, <2>1, <3>1, <3>2
  <2>. QED
    BY <2>2, <2>3
<1>10. StatusFollowsProbes'
  <2>1. CASE current' = current
    <3>1. current > 1 /\ ~lastProbe'[current].failed => status'
      BY <1>5, <1>6 DEF InductiveInvariant, StatusFollowsProbes
    <3>. QED
      BY <1>1, <1>5, <1>6, <2>1, <3>1 DEF StatusFollowsProbes
  <2>2. CASE current' # current
    <3>1. lastProbe'[current'] = NoProbe
      BY <1>1, <1>4, <1>6, <2>2 DEF InductiveInvariant, FirstProbeIsDue
    <3>2. status'
      BY <1>4, <1>9, <2>2
    <3>. QED
      BY <1>1, <3>1, <3>2 DEF StatusFollowsProbes, NoProbe
  <2>. QED
    BY <2>1, <2>2
\* The answers that count against a first replica whose probes all pass.
<1>11. ASSUME current = 1, ~lastProbe'[current].failed
       PROVE  /\ found = "pass" /\ run >= 0 /\ run' >= 1
              /\ ~status' => /\ ~status /\ run' = run + 1 /\ run' < config.success
                             /\ bad <= run * (config.retry + 2)
  <2>. DEFINE R == config.retry + 2
  <2>1. found = "pass" /\ ~lastProbe[1].failed
    BY <1>6, <1>11
  <2>2. /\ run >= 0
        /\ ~status => bad <= (run - 1) * R + age + 3
    BY <1>1, <1>11, <2>1 DEF InductiveInvariant, CountsFollowProbes
  <2>3. run' >= 1 /\ (run < 10 => run' = run + 1)
    BY <1>5, <2>1, <2>2
  <2>4. ASSUME ~status' PROVE ~status /\ run' = run + 1 /\ run' < config.success
    <3>1. ~status /\ run' < config.success
      BY <1>5, <2>1, <2>4
    <3>2. run < 10
      <4>1. run = 10 => run' = 10
        BY <1>2, <2>1 DEF RunAfter, Longer, MaxThreshold
      <4>. QED
        BY <1>0, <1>5, <3>1, <4>1
    <3>. QED
      BY <2>3, <3>1, <3>2
  <2>5. ASSUME ~status' PROVE bad <= run * R
    <3>1. run \in Nat /\ R \in Nat /\ R = config.retry + 2
      BY <1>0, <1>1, <2>2
    <3>2. CASE lastProbe[current].found = "none"
      <4>1. bad = 0
        BY <1>1, <1>11, <3>2 DEF InductiveInvariant, FirstProbeIsDue
      <4>2. run * R \in Nat
        BY <3>1
      <4>. QED
        BY <4>1, <4>2
    <3>3. CASE lastProbe[current].found # "none"
      <4>1. age < config.retry
        BY <3>3 DEF InductiveInvariant, FirstProbeIsDue
      <4>2. bad <= (run - 1) * R + age + 3
        BY <2>2, <2>4, <2>5
      <4>. HIDE DEF R
      <4>3. (run - 1) * R + R = run * R /\ run * R \in Nat
        BY <3>1, Rounds
      <4>4. (run - 1) * R \in Int
        BY <3>1
      <4>5. bad <= (run - 1) * R + (config.retry + 2)
        BY <1>0, <1>1, <4>1, <4>2, <4>4, Late
      <4>. QED
        BY <3>1, <4>3, <4>5
    <3>. QED
      BY <3>2, <3>3
  <2>. QED
    BY <2>1, <2>2, <2>3, <2>4, <2>5
<1>12. CountsFollowProbes'
  <2>. SUFFICES ASSUME outcome' = "none" PROVE CountsFollowProbes'
    BY DEF CountsFollowProbes
  <2>1. status' \/ ok' <= successes'
    <3>1. CASE h /\ ok' = ok + 1 /\ ~status'
      <4>1. found = "pass"
        BY <1>2, <3>1
      <4>2. ok <= successes
        BY <1>1, <1>5, <3>1, <4>1 DEF InductiveInvariant, CountsFollowProbes
      <4>. QED
        BY <1>0, <1>5, <3>1, <4>1, <4>2
    <3>2. CASE ok' = 0
      BY <1>5, <3>2
    <3>. QED
      BY <1>4, <3>1, <3>2
  <2>2. config.kind # "http" /\ lastProbe'[current'].found # "pass" => ok' <= age' + 2
    <3>1. CASE current' = current
      <4>1. config.kind # "http" /\ lastProbe'[current].found # "pass" => ~h
        BY <1>2, <1>6
      <4>2. ~h => ok' = 0 /\ age' = a
        BY <1>4, <3>1
      <4>3. a + 2 >= 0
        BY <1>3
      <4>. QED
        BY <3>1, <4>1, <4>2, <4>3
    <3>2. CASE current' # current
      <4>1. ok' \in Int /\ ok' <= 0 /\ age' \in Int /\ 0 <= age'
        BY <1>4, <3>2
      <4>2. ok' <= age' + 2
        BY <4>1, NotAbove
      <4>. QED
        BY <4>2
    <3>. QED
      BY <3>1, <3>2
  <2>3. ASSUME current' = 1, ~lastProbe'[1].failed
        PROVE  /\ run' >= 1
               /\ status' => bad' = 0
               /\ ~status' => /\ run' < config.success
                              /\ bad' <= (run' - 1) * (config.retry + 2) + age' + 3
    <3>. DEFINE R == config.retry + 2
    <3>1. current = 1 /\ current' = current /\ age' = a
      BY <1>1, <1>4, <2>3
    <3>2. /\ found = "pass" /\ run >= 0 /\ run' >= 1
          /\ ~status' => /\ ~status /\ run' = run + 1 /\ run' < config.success
                         /\ bad <= run * R
      BY <1>11, <2>3, <3>1
    <3>3. status' => bad' = 0
      BY <1>2, <1>4, <3>1, <3>2
    <3>4. bad' = 0 \/ bad' = bad + 1
      BY <1>4
    <3>5. run \in Nat /\ R \in Nat /\ run * R \in Nat
      BY <1>0, <1>1, <3>2
    <3>6. ASSUME ~status' PROVE bad' <= (run' - 1) * R + age' + 3
      <4>1. (run' - 1) * R = run * R
        BY <3>2, <3>5, <3>6
      <4>. HIDE DEF R
      <4>. QED
        BY <1>0, <1>3, <3>1, <3>2, <3>4, <3>5, <3>6, <4>1
    <3>. QED
      BY <3>2, <3>3, <3>6
  <2>4. config' = config
    BY <1>1
  <2>5. run' \in Int
    BY <1>5
  <2>. QED
    BY <2>1, <2>2, <2>3, <2>4, <2>5 DEF CountsFollowProbes
<1>13. HealthyRestsOnProbe'
  <2>. SUFFICES ASSUME \/ config.failure = 1 /\ config.retry <= 1
                       \/ config.kind # "http" /\ config.success > config.retry + 1,
                       NEW r \in verified'
                PROVE  lastProbe'[r].found = "pass" /\ OfItself(r)'
    BY <1>1 DEF HealthyRestsOnProbe
  <2>1. CASE r \in verified
    <3>1. r \in 1 .. Replicas /\ r # current
      BY <1>1, <2>1, ReplicasAssumption
    <3>2. lastProbe[r].found = "pass" /\ OfItself(r)
      BY <2>1 DEF InductiveInvariant, HealthyRestsOnProbe
    <3>. QED
      BY <1>1, <1>6, <3>1, <3>2 DEF OfItself
  <2>2. CASE r \notin verified
    <3>1. r = current /\ h
      BY <1>4, <2>2
    <3>2. found = "pass"
      BY <1>2, <1>5, <3>1
    <3>. QED
      BY <1>1, <1>6, <3>1, <3>2 DEF OfItself, Target
  <2>. QED
    BY <2>1, <2>2
<1>14. UnhealthyRestsOnProbe'
  <2>. SUFFICES ASSUME outcome' = "unhealthy"
                PROVE  /\ current' = current
                       /\ config.success = 1 => lastProbe'[current].found = "fail"
                       /\ \/ current > 1
                          \/ config.failure > (config.success - 1) * (config.retry + 2)
                          => lastProbe'[current].failed
                       /\ OfItself(current)'
    BY <1>1 DEF UnhealthyRestsOnProbe, OfItself
  <2>1. ~h /\ current' = current /\ bad + 1 >= config.failure
    BY <1>4
  <2>2. found # "pass" \/ ~status'
    BY <1>2, <2>1
  <2>3. config.success = 1 => lastProbe'[current].found = "fail"
    BY <1>5, <1>6, <2>2
  <2>4. current > 1 => lastProbe'[current].failed
    BY <1>5, <1>6, <2>2 DEF InductiveInvariant, StatusFollowsProbes
  <2>5. ASSUME current = 1, ~lastProbe'[current].failed,
               config.failure > (config.success - 1) * (config.retry + 2)
        PROVE  FALSE
    <3>. DEFINE R == config.retry + 2
    <3>1. /\ run >= 0 /\ run' = run + 1 /\ run' < config.success
          /\ bad <= run * R
      BY <1>11, <2>2, <2>5
    <3>a. run \in Nat /\ run + 1 \in Nat /\ run + 1 < config.success
      BY <1>0, <3>1
    <3>b. config.success - 1 \in Nat /\ run + 1 <= config.success - 1
      BY <1>0, <3>a
    <3>2. /\ run \in Nat /\ run + 1 \in Nat /\ config.success - 1 \in Nat
          /\ run + 1 <= config.success - 1 /\ R \in Nat /\ R >= 2
      BY <1>1, <3>a, <3>b
    <3>3. config.failure > (config.success - 1) * R
      BY <2>5
    <3>. HIDE DEF R
    <3>4. (run + 1) * R <= (config.success - 1) * R /\ (config.success - 1) * R \in Nat
      BY <3>2, Rounds
    <3>5. run * R + R = (run + 1) * R /\ run * R \in Nat
      BY <3>2, Rounds
    <3>. QED
      BY <1>0, <2>1, <3>1, <3>2, <3>3, <3>4, <3>5
  <2>6. OfItself(current)'
    BY <1>1, <1>6, <2>1 DEF OfItself, Target
  <2>. QED
    BY <1>1, <2>1, <2>3, <2>4, <2>5, <2>6
<1>. QED
  BY <1>5, <1>7, <1>8, <1>10, <1>12, <1>13, <1>14 DEF InductiveInvariant

\* No other step touches the checker or the wait, but the deadline that ends it.
LEMMA OthersKeep ==
  ASSUME InductiveInvariant, ContextDone \/ Settle \/ UNCHANGED vars
  PROVE  InductiveInvariant'
<1>1. /\ UNCHANGED <<config, checker, age, current, ok, bad, verified, lastProbe, run>>
      /\ outcome' = outcome \/ (outcome = "none" /\ outcome' = "timeout")
      /\ world' = world \/ world' \in {"up", "down"}
  BY DEF ContextDone, Settle, vars, wait
<1>. QED
  BY <1>1
     DEF InductiveInvariant, TypeOK, CountersFollowRun, FirstProbeIsDue,
         StatusFollowsProbes, CountsFollowProbes, HealthyRestsOnProbe,
         UnhealthyRestsOnProbe, OfItself, Target, checker

\* Every step keeps the invariant.
THEOREM Invariant == Spec => []InductiveInvariant
<1>1. InductiveInvariant /\ [Next]_vars => InductiveInvariant'
  BY CachedCheckKeeps, ProbeKeeps, OthersKeep DEF Next, Tick, Returned
<1>. QED
  BY <1>1, InitInvariant, PTL DEF Spec

\* Type correctness of the checker and the wait.
THEOREM TypeCorrect == Spec => []TypeOK
BY Invariant, PTL DEF InductiveInvariant

\* With a failure threshold of one and an interval not above the ticker's
\* period, or with more successes to count than the cache gives answers between
\* two probes, a replica is found healthy only when the last probe made in its own
\* wait passed: a probe of the replica for docker and command, of localhost for
\* tcp and http.
THEOREM HealthyVerdicts == Spec => []HealthyRestsOnProbe
BY Invariant, PTL DEF InductiveInvariant

\* A replica is given up only when a probe made in its own wait failed, but for the
\* first one, which needs more failures to count than the successes take to turn
\* the status.
THEOREM UnhealthyVerdicts == Spec => []UnhealthyRestsOnProbe
BY Invariant, PTL DEF InductiveInvariant

\* The status turns only at the end of a run of as many equal probes as its
\* threshold asks for, whatever replicas they were probes of.
THEOREM StatusEarned == Spec => StatusIsEarned
<1>. DEFINE Earned == /\ status' /\ ~status => run' >= config.success
                      /\ status /\ ~status' => 0 - run' >= config.failure
<1>1. ASSUME InductiveInvariant, Next PROVE Earned \/ UNCHANGED vars
  <2>1. CASE Probe
    <3>1. PICK found \in {"pass", "fail", "error"} :
            /\ StatusUpdated(found = "pass")
            /\ run' = RunAfter(found = "pass")
      BY <1>1, <2>1, ProbeStep
    <3>. DEFINE pass == found = "pass"
    <3>2. /\ pass \in BOOLEAN /\ StatusUpdated(pass)
          /\ run' = RunAfter(pass)
      BY <3>1
    <3>. HIDE DEF pass
    <3>. QED
      BY <1>1, <3>2, StatusStep DEF InductiveInvariant
  <2>2. CASE status' = status
    BY <2>2
  <2>. QED
    BY <1>1, <2>1, <2>2
       DEF Next, Tick, CachedCheck, ContextDone, Settle, Returned, checker, vars
<1>. QED
  BY <1>1, Invariant, PTL DEF Spec, StatusIsEarned
================================================================================
