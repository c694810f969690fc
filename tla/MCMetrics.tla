-------------------------------- MODULE MCMetrics --------------------------------
(* Model values for Metrics; services, versions and prunings are alike. *)
EXTENDS Metrics, TLC

Alike == Permutations(Services) \union Permutations(Versions)
================================================================================
