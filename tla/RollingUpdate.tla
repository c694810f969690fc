------------------------------ MODULE RollingUpdate ------------------------------
(***************************************************************************)
(* The rolling update of the command line (handleRollingUpdate, cmd/sync.go)*)
(* on the backups and the compose file of Backups: one walk over the        *)
(* services of the compose file, which prepares a rollback for each service *)
(* that has a new tag, runs the strategy and, when it fails, rolls back.    *)
(*                                                                         *)
(* The walk never registers a replica detector with the replica manager it  *)
(* makes, so the strategy finds no replicas and every Execute fails: what   *)
(* is left of an update is its preparation and its rollback.                *)
(*                                                                         *)
(* Either the controller and the monitor use the directory or the walks of  *)
(* the command line do, one after the other, with updates made by other     *)
(* means between them.                                                     *)
(***************************************************************************)
EXTENDS DeploymentMonitor

VARIABLES
  walk,   \* where the walk is, what it has left, and --rollback-on-failure
  before  \* history: the compose file and the containers it started from, in
          \* a set that is empty between walks

walkVars == <<monitorVars, walk, before>>

Walk(step, todo, at, onFailure) ==
  [step |-> step, todo |-> todo, at |-> at, onFailure |-> onFailure]
Off  == Walk("off", {}, "none", FALSE)
Idle == Walk("idle", {}, "none", FALSE)

Started == [compose |-> compose, running |-> running]

Steps == {"off", "idle", "next", "prepare", "execute", "rollback"}

WalkTypeOK ==
  /\ MonitorTypeOK
  /\ walk \in [step: Steps, todo: SUBSET Services, at: Services \union {"none"},
              onFailure: BOOLEAN]
  /\ before \subseteq [compose: Images, running: [Services -> Versions]]

WalkInit ==
  /\ MonitorInit
  /\ walk \in {Off, Idle}
  /\ before = {}

Between == walk.step \in {"off", "idle"}

GoesTo(step) == walk' = [walk EXCEPT !.step = step]

\* Everything up to the loop.  A compose file that cannot be read ends the walk.
StartWalk ==
  /\ walk = Idle
  /\ \E onFailure \in BOOLEAN :
       walk' = Walk("next", IF compose.whole THEN Services ELSE {}, "none", onFailure)
  /\ before' = {Started}
  /\ UNCHANGED monitorVars

\* A map's order is any order.  The service is left alone when it has no image,
\* no client, no tag or the selected tag already.
NextService(s) ==
  /\ walk.step = "next" /\ s \in walk.todo
  /\ \E step \in {"next", "prepare"} :
       walk' = [walk EXCEPT !.step = step, !.todo = @ \ {s}, !.at = s]
  /\ UNCHANGED <<monitorVars, before>>

\* Slip: the error is printed and the update goes on.
GoesOn == "execute"

AfterFailedPrepare == "next"

Prepare ==
  /\ walk.step = "prepare"
  /\ \/ PrepareRollback(walk.at) /\ GoesTo("execute")
     \/ PrepareFails(walk.at) /\ GoesTo(AfterFailedPrepare)
  /\ UNCHANGED <<monitored, before>>

\* A strategy that cannot be made or configured is passed over; Execute fails.
Execute ==
  /\ walk.step = "execute"
  /\ \/ GoesTo("next")
     \/ walk.onFailure /\ GoesTo("rollback")
  /\ UNCHANGED <<monitorVars, before>>

RollBack ==
  /\ walk.step = "rollback" /\ GoesTo("next")
  /\ \/ Rollback(walk.at)
     \/ Entries(names[walk.at], backups) = {} /\ UNCHANGED vars
  /\ UNCHANGED <<monitored, before>>

EndWalk ==
  /\ walk.step = "next" /\ walk.todo = {}
  /\ walk' = Idle /\ before' = {}
  /\ UNCHANGED monitorVars

WalkNext ==
  \/ walk = Off /\ MonitorNext /\ UNCHANGED <<walk, before>>
  \/ /\ walk.step # "off"
     /\ Tick \/ (Between /\ Deploy)
     /\ UNCHANGED <<monitored, walk, before>>
  \/ StartWalk \/ Prepare \/ Execute \/ RollBack \/ EndWalk
  \/ \E s \in Services : NextService(s)

WalkSpec == WalkInit /\ [][WalkNext]_walkVars

-----------------------------------------------------------------------------
(***************************************************************************)
(* Properties                                                              *)
(***************************************************************************)
\* "Rolling back service to previous version": a walk whose updates all fail
\* leaves the compose file and the containers as it found them, whichever
\* services it rolled back, in whichever order, with whatever older backups in
\* the directory and whichever preparations failed.  (A copy that failed halfway
\* spoils it, in the directory or in the compose file, and so do names that cannot
\* be told apart: a rollback of web may bring back a file made for web-api.)
WalkLeavesFile ==
  ~torn /\ compose.whole /\ ToldApart => before \subseteq {Started}
================================================================================
