------------------------------- MODULE MCBlueGreen -------------------------------
(* Model values for BlueGreen: up to four replicas, hooks, thresholds. *)
EXTENDS BlueGreen

MCConfigs ==
  {[kind |-> BlueGreen, n |-> n, percentage |-> 0, success |-> s,
    failure |-> f, rollback |-> TRUE, pre |-> pre, post |-> post] :
     n \in {0, 1, 4}, s \in {0, 2, 11}, f \in {0, 2}, pre \in BOOLEAN,
     post \in BOOLEAN}
================================================================================
