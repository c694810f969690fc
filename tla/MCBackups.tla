-------------------------------- MODULE MCBackups --------------------------------
(* Model values for Backups, the monitor and the walks: two services, one with a *)
(* dash in its name, and its first part that of the other or not.               *)
EXTENDS RollingUpdate

MCServices == {"first", "second"}

Distinct == [s \in MCServices |-> IF s = "first" THEN <<"web">> ELSE <<"api", "db">>]
Shared   == [s \in MCServices |-> IF s = "first" THEN <<"web">> ELSE <<"web", "api">>]
MCNamings == {Distinct, Shared}

\* The first is monitored, and goes back to a tag at the second unhealthy check.
MCDeployments ==
  [s \in MCServices |->
     IF s = "first" THEN {[max |-> 2, rollback |-> TRUE, target |-> "latest"]} ELSE {}]
================================================================================
