-------------------------------- MODULE MCRollout --------------------------------
(* Model values for Rollout. *)
EXTENDS Rollout

Config(kind, n, percentage, success, failure, rollback, pre, post) ==
  [kind |-> kind, n |-> n, percentage |-> percentage, success |-> success,
   failure |-> failure, rollback |-> rollback, pre |-> pre, post |-> post]

\* Every hook and both rollback settings; 0 stands for a value not set.
Hooks ==
  {Config(k, n, 0, 1, 1, rb, pre, post) :
     k \in BatchKinds, n \in {0, 3}, rb \in BOOLEAN, pre \in BOOLEAN,
     post \in BOOLEAN}

\* Thresholds that several checks must reach.
Checks ==
  {Config(k, 4, 50, s, f, TRUE, FALSE, FALSE) :
     k \in BatchKinds, s \in {0, 2}, f \in {0, 2}}

\* Ways to cut up to five replicas into batches, the full percentage and the
\* percentages Validate refuses.
Plans ==
  {Config(k, n, p, 1, 1, TRUE, FALSE, FALSE) :
     k \in {Percentage, Canary}, n \in {1, 2, 5}, p \in {33, 50, 51, 100, 101}}

\* Canary with steps of two replicas after the first.
WideCanary == {Config(Canary, 9, 10, 1, 1, TRUE, FALSE, FALSE)}

MCConfigs == Hooks \union Checks \union Plans \union WideCanary

\* The deployments of the run that finds a disagreement.
OneByOne == {Config(OneAtATime, n, 0, 1, 1, TRUE, FALSE, FALSE) : n \in 2 .. 4}
================================================================================
