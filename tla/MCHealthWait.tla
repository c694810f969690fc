------------------------------ MODULE MCHealthWait ------------------------------
(* Model values for HealthWait. *)
EXTENDS HealthWait

\* Intervals below, at and above the period of the ticker.
MCConfigs == [kind: {"docker", "http", "tcp", "command"},
              success: 1 .. 3, failure: 1 .. 4, retry: {0, 1, 3}]
================================================================================
