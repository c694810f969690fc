---------------------------- MODULE BlueGreenProofs ----------------------------
(* The safety properties of BlueGreen, for any number of replicas. *)
EXTENDS BlueGreen, TLAPS

\* Before the first health wait nothing has been verified, switched or removed.
Beginning ==
  pc \in {"configure", "list", "pre"} =>
    /\ check = 1 /\ verified = {} /\ traffic = "blue"
    /\ pc = "pre" => cfg.n > 0

\* The wait is at a replica of the list, and those before it are verified.
WaitPosition ==
  pc = "health" =>
    /\ check \in Replicas /\ verified = 1 .. check - 1 /\ traffic = "blue"

\* Green is announced after the last wait only.
SwitchPosition == traffic = "green" => verified = Replicas
Verifying      == pc = "verify" => traffic = "green"

\* Execute returns success exactly where it announces the removal.
RemovalIsLast == blueRemoved => pc = "done" /\ outcome = "success" /\ traffic = "green"

IInv ==
  /\ TypeOK /\ Beginning /\ WaitPosition /\ SwitchPosition /\ Verifying
  /\ RemovalIsLast

LEMMA ReplicaCount == cfg \in Configs => cfg.n \in Nat
  BY ConfigsAssumption DEF ConfigType

LEMMA InitInvariant == Init => IInv
  <1> SUFFICES ASSUME Init PROVE IInv
    OBVIOUS
  <1>1. TypeOK
    <2>1. /\ cfg \in Configs /\ check \in Nat /\ ok \in Nat /\ bad \in Nat
          /\ verified \subseteq Replicas
      BY DEF Init
    <2>2. /\ pc \in {"configure", "list", "pre", "health", "verify", "done"}
          /\ traffic \in {"blue", "green"} /\ outcome \in Failures \union {"none", "success"}
      BY DEF Init
    <2>3. expired \in BOOLEAN /\ blueRemoved \in BOOLEAN
      BY Zenon DEF Init
    <2>4. QED
      BY <2>1, <2>2, <2>3 DEF TypeOK
  <1>2. Beginning /\ WaitPosition /\ SwitchPosition /\ Verifying
    BY DEF Init, Beginning, WaitPosition, SwitchPosition, Verifying
  <1>3. RemovalIsLast
    BY DEF Init, RemovalIsLast
  <1>4. QED
    BY <1>1, <1>2, <1>3 DEF IInv

\* The steps that leave the loop over the green replicas alone.
LEMMA OtherStepsKeep ==
  ASSUME IInv,
         \/ Configure \/ ListReplicas \/ PreCommand \/ ContextDone
         \/ VerificationTimedOut \/ RemoveBlue \/ Expire \/ UNCHANGED vars
  PROVE  IInv'
  <1> USE DEF IInv
  <1>1. CASE Configure
    BY <1>1 DEF TypeOK, Beginning, WaitPosition, SwitchPosition, Verifying,
                RemovalIsLast, Configure, Fail, Failures, Replicas
  <1>2. CASE ListReplicas
    BY <1>2 DEF TypeOK, Beginning, WaitPosition, SwitchPosition, Verifying,
                RemovalIsLast, ListReplicas, Fail, Failures, Replicas
  <1>3. CASE PreCommand
    BY <1>3, ReplicaCount
    DEF TypeOK, Beginning, WaitPosition, SwitchPosition, Verifying,
        RemovalIsLast, PreCommand, Fail, Failures, Replicas
  <1>4. CASE ContextDone \/ VerificationTimedOut
    <2>1. /\ pc' = "done" /\ outcome' \in Failures
          /\ UNCHANGED <<cfg, check, ok, bad, expired, verified, traffic, blueRemoved>>
      BY <1>4 DEF ContextDone, VerificationTimedOut, Fail, Failures
    <2>2. ~blueRemoved
      BY <1>4 DEF RemovalIsLast, ContextDone, VerificationTimedOut
    <2>3. TypeOK'
      BY <2>1 DEF TypeOK, Replicas
    <2>4. QED
      BY <2>1, <2>2, <2>3 DEF Beginning, WaitPosition, SwitchPosition, Verifying,
                              RemovalIsLast, Replicas
  <1>5. CASE RemoveBlue
    BY <1>5 DEF TypeOK, Beginning, WaitPosition, SwitchPosition, Verifying,
                RemovalIsLast, RemoveBlue, Replicas
  <1>6. CASE Expire \/ UNCHANGED vars
    <2>1. /\ UNCHANGED <<cfg, pc, check, ok, bad, verified, traffic, blueRemoved, outcome>>
          /\ expired' \in BOOLEAN
      BY <1>6 DEF Expire, vars, TypeOK
    <2>2. TypeOK'
      BY <2>1 DEF TypeOK, Replicas
    <2>3. QED
      BY <2>1, <2>2 DEF Beginning, WaitPosition, SwitchPosition, Verifying,
                        RemovalIsLast, Replicas
  <1>7. QED
    BY <1>1, <1>2, <1>3, <1>4, <1>5, <1>6

\* The replica at hand passes its wait, or comes one check nearer to it.
LEMMA HealthyCheckKeeps ==
  ASSUME IInv, HealthyCheck PROVE IInv'
  <1> USE DEF IInv
  <1>1. /\ cfg.n \in Nat /\ check \in 1 .. cfg.n /\ verified = 1 .. check - 1
        /\ traffic = "blue" /\ pc = "health" /\ ~blueRemoved
    BY ReplicaCount DEF HealthyCheck, TypeOK, WaitPosition, RemovalIsLast, Replicas
  <1>2. CASE ok + 1 >= RequiredSuccesses(cfg)
    <2>1. /\ verified' = 1 .. check /\ check' = check + 1 /\ cfg' = cfg
          /\ ok' = 0 /\ bad' = 0
          /\ UNCHANGED <<expired, outcome, blueRemoved>>
      <3>1. verified' = verified \union {check} /\ check' = check + 1
        BY <1>2 DEF HealthyCheck
      <3>2. /\ cfg' = cfg /\ ok' = 0 /\ bad' = 0
            /\ UNCHANGED <<expired, outcome, blueRemoved>>
        BY <1>2 DEF HealthyCheck, Switch, LastGreen
      <3>3. verified \union {check} = 1 .. check
        BY <1>1
      <3>4. QED
        BY <3>1, <3>2, <3>3
    <2>2. CASE check = cfg.n
      <3>1. pc' = "verify" /\ traffic' = "green"
        BY <1>2, <2>2 DEF HealthyCheck, LastGreen, Switch
      <3>2. QED
        BY <1>1, <2>1, <2>2, <3>1
        DEF TypeOK, Beginning, WaitPosition, SwitchPosition, Verifying,
            RemovalIsLast, Replicas
    <2>3. CASE check # cfg.n
      <3>1. pc' = "health" /\ traffic' = "blue"
        BY <1>1, <1>2, <2>3 DEF HealthyCheck, LastGreen
      <3>2. QED
        BY <1>1, <2>1, <2>3, <3>1
        DEF TypeOK, Beginning, WaitPosition, SwitchPosition, Verifying,
            RemovalIsLast, Replicas
    <2>4. QED
      BY <2>2, <2>3
  <1>3. CASE ~(ok + 1 >= RequiredSuccesses(cfg))
    BY <1>1, <1>3
    DEF HealthyCheck, TypeOK, Beginning, WaitPosition, SwitchPosition, Verifying,
        RemovalIsLast, Replicas
  <1>4. QED
    BY <1>2, <1>3

LEMMA UnhealthyCheckKeeps ==
  ASSUME IInv, UnhealthyCheck PROVE IInv'
  BY DEF IInv, UnhealthyCheck, TypeOK, Beginning, WaitPosition, SwitchPosition,
         Verifying, RemovalIsLast, Fail, Failures, Replicas

LEMMA NextKeeps == IInv /\ [Next]_vars => IInv'
  BY OtherStepsKeep, HealthyCheckKeeps, UnhealthyCheckKeeps
  DEF Next, Execute, Returned

\* The invariant holds in every reachable state.
THEOREM Invariant == Spec => []IInv
  BY InitInvariant, NextKeeps, PTL DEF Spec

\* The state keeps its type.
THEOREM TypeCorrect == Spec => []TypeOK
  BY Invariant, PTL DEF IInv

\* Whatever the number of replicas and the thresholds: traffic is switched only
\* when each green replica has passed its wait, blue removed only after that.
THEOREM GreenIsHealthy == Spec => []SwitchOnlyWhenHealthy
  <1>1. IInv => SwitchOnlyWhenHealthy
    BY DEF IInv, SwitchPosition, RemovalIsLast, SwitchOnlyWhenHealthy
  <1>2. QED
    BY <1>1, Invariant, PTL

\* Whatever makes a deployment fail, and wherever its time runs out: blue stays.
THEOREM BlueSurvives == Spec => []FailureKeepsBlue
  <1>1. IInv => FailureKeepsBlue
    BY DEF IInv, RemovalIsLast, FailureKeepsBlue, Failures
  <1>2. QED
    BY <1>1, Invariant, PTL
================================================================================
