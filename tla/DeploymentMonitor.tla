--------------------------- MODULE DeploymentMonitor ---------------------------
(***************************************************************************)
(* The deployment monitor (internal/rollback/detector.go) beside the        *)
(* rollback controller of Backups, on the same backups and compose file: it *)
(* counts the health checks of a deployment and, when it is still unhealthy *)
(* at the last one, copies a backup over the compose file.  It does not     *)
(* restart the service.  A check whose checker returns an error counts for  *)
(* nothing and changes nothing.                                             *)
(***************************************************************************)
EXTENDS Backups

CONSTANT Deployments  \* what StartMonitoring may be called with for each service

ASSUME DeploymentsAssumption ==
  \A s \in Services :
    Deployments[s] \subseteq [max: Nat, rollback: BOOLEAN, target: STRING]

VARIABLE monitored  \* CurrentDeployments, with the attempts still left

monitorVars == <<vars, monitored>>

Unmonitored == [left |-> 0, rollback |-> FALSE, target |-> "none"]
States == [left: Nat, rollback: BOOLEAN, target: STRING]

MonitorTypeOK ==
  /\ TypeOK
  /\ monitored \in [Services -> States \union {Unmonitored}]
  /\ \A s \in Services :
       \/ monitored[s] = Unmonitored
       \/ \E d \in Deployments[s] :
            /\ monitored[s].left <= d.max
            /\ monitored[s].target = d.target
            /\ monitored[s].rollback = d.rollback

MonitorInit == Init /\ monitored = [s \in Services |-> Unmonitored]

Tracks(s, state) == monitored' = [monitored EXCEPT ![s] = state]

\* A deployment that is already there is replaced.
StartMonitoring(s) ==
  /\ \E d \in Deployments[s] :
       Tracks(s, [left |-> d.max, rollback |-> d.rollback, target |-> d.target])
  /\ UNCHANGED vars

StopMonitoring(s) ==
  /\ monitored[s] # Unmonitored
  /\ Tracks(s, Unmonitored)
  /\ UNCHANGED vars

\* HealthCheckAttempts++, healthy or not.  Only whether the count has reached the
\* maximum matters, so it stops there.
OneLess(n) == IF n = 0 THEN 0 ELSE n - 1

Attempt(s) == [monitored[s] EXCEPT !.left = OneLess(@)]

CheckHealthy(s) ==
  /\ monitored[s] # Unmonitored
  /\ Tracks(s, Attempt(s))
  /\ UNCHANGED vars

GivesUp(s) == Attempt(s).left = 0 /\ monitored[s].rollback

\* Unhealthy, with attempts left or without a rollback.
CheckUnhealthy(s) ==
  /\ monitored[s] # Unmonitored /\ ~GivesUp(s)
  /\ Tracks(s, Attempt(s))
  /\ UNCHANGED vars

\* The entries executeRollback takes the first of.
Targets(s) ==
  {e \in Entries(names[s], backups) :
     monitored[s].target \in {"", ImageTag(e)}}

\* Slip: the deployment is forgotten even when it could not be rolled back.
ForgetUnrestored(s) == Tracks(s, Unmonitored)

\* It stays, and the next unhealthy check tries again.
KeepUnrestored(s) == Tracks(s, Attempt(s))

\* executeRollback, and then StopMonitoring.
MonitorRollback(s) ==
  /\ monitored[s] # Unmonitored /\ GivesUp(s)
  /\ \/ /\ \E f \in Newest(Targets(s)) : compose' = f.image
        /\ Tracks(s, Unmonitored) /\ Ends("check", s, TRUE) /\ UNCHANGED faults
     \/ /\ \E f \in Newest(Targets(s)) : compose' = Torn(f.image)
        /\ Strikes("restore") /\ KeepUnrestored(s) /\ Ends("check", s, FALSE)
     \/ /\ Targets(s) = {}
        /\ KeepUnrestored(s) /\ Ends("check", s, FALSE)
        /\ UNCHANGED <<compose, faults>>
  /\ UNCHANGED <<names, now, backups, running, prepared, torn>>

MonitorNext ==
  \/ Next /\ UNCHANGED monitored
  \/ \E s \in Services :
       \/ StartMonitoring(s) \/ StopMonitoring(s)
       \/ CheckHealthy(s) \/ CheckUnhealthy(s) \/ MonitorRollback(s)

MonitorSpec == MonitorInit /\ [][MonitorNext]_monitorVars

-----------------------------------------------------------------------------
(***************************************************************************)
(* Properties                                                              *)
(***************************************************************************)
\* "Remove from monitoring after rollback": a check takes a service off the
\* monitor only by restoring the compose file the last PrepareRollback of the
\* service saw, whatever the controller and the pruning did meanwhile to the
\* backups; as long as that fails the deployment stays.  (A copy that failed
\* spoils it, and so do names that cannot be told apart, as in
\* RollbackRestoresPrepared.)
DroppedOnlyRestored ==
  [][ \A s \in Services :
        /\ monitored[s] # Unmonitored /\ monitored'[s] = Unmonitored
        /\ ~torn /\ ToldApart
        => StopMonitoring(s) \/ compose' \in prepared[s] ]_monitorVars
================================================================================
