------------------------------ MODULE UpdateManager ------------------------------
(***************************************************************************)
(* One call of Update, Rollback or RollbackToVersion of the rolling-update  *)
(* manager (internal/manager): the walk over the update order, the recovery *)
(* handler it turns to on errors, and what it records and notifies on the   *)
(* way.  The replica manager is modelled with its cache and its detectors   *)
(* (internal/replica); strategy, health checker, dependency                 *)
(* manager and rollback controller are behind their interfaces: what they   *)
(* answer is a choice, and the strategy a real one (the adapter the manager *)
(* builds is a stub that returns nil and does nothing).                     *)
(*                                                                         *)
(* Errors of the collector and of the notifiers are logged and have no      *)
(* effect; recorded and notified hold the calls made of a collector and of  *)
(* notifiers that are asked for every event.                                *)
(***************************************************************************)
EXTENDS ReplicaDetector, Functions

CONSTANTS
  Service,     \* the service the call is for
  Orders,      \* the orders GetUpdateOrder may give for it
  Worlds       \* the compose files and containers a detector may meet

Services == {Service} \union UNION {{o[k] : k \in DOMAIN o} : o \in Orders}

ASSUME OrdersAssumption ==
  \A o \in Orders :
    /\ o \in Seq(Seq(STRING)) /\ o # <<>> /\ o[Len(o)] = Service
    /\ \A j, k \in DOMAIN o : o[j] = o[k] => j = k
ASSUME WorldsAssumption ==
  \A w \in Worlds :
    /\ w.services \in [DOMAIN w.services -> BOOLEAN] /\ IsFiniteSet(DOMAIN w.services)
    /\ \A s \in DOMAIN w.services :
         /\ s \in Seq(STRING) /\ s # <<>>
         /\ \A k \in 2 .. Len(s) : s[k - 1] \in {"-", "_", "."} \/ s[k] \in {"-", "_", "."}
    /\ w.containers \in Seq(Range(w.containers))
    /\ \A c \in Range(w.containers) :
         c.name \in Seq(STRING) /\ c.of \in Seq(STRING) /\ c.of # <<>>
    /\ IsInjective(w.containers)

VARIABLES
  op,        \* the method called
  order,     \* updateOrder
  i,         \* the position in it
  pc,
  from,      \* where the recovery at hand was called from
  cache,     \* rm.replicas
  seen,      \* the world each of the detectors met when they filled it
  replica,   \* the replica the verification is at
  listed,    \* len(replicas), then len(updatedReplicas)
  attempt,   \* retries of handleHealthError
  state,     \* what became of each service
  recorded,  \* <<event, service>> passed to the collector
  notified,  \* ... and to the notifiers
  outcome    \* "none", "nil" or "error"

control == <<op, order, i, pc, from, replica, listed, attempt>>
reports == <<recorded, notified>>
found   == <<cache, seen>>
vars    == <<control, found, state, reports, outcome>>

Sights == [scale : Worlds, name : Worlds]

MaxRetries == 3
Events == {"start", "success", "failure", "rollback"}

TypeOK ==
  /\ op \in {"update", "rollback", "version"}
  /\ order \in Orders \union {<<Service>>} /\ i \in DOMAIN order
  /\ pc \in {"start", "exists", "order", "list", "execute", "relist", "verify",
             "recheck", "refresh", "present", "history", "announce", "restore",
             "healthy", "complete", "done"}
  /\ from \in {"caller", "list", "execute", "relist", "verify"}
  /\ seen \in Sights /\ cache \in {<<>>, Detected(seen)}
  /\ listed \in Nat /\ replica \in 1 .. listed + 1
  /\ attempt \in 0 .. MaxRetries
  /\ state \in [Services -> {"old", "updated", "broken", "restored"}]
  /\ recorded \subseteq Events \X Services /\ notified \subseteq Events \X Services
  /\ outcome \in {"none", "nil", "error"}

Init ==
  /\ op \in {"update", "rollback", "version"}
  /\ order = <<Service>> /\ i = 1
  /\ pc = IF op = "update" THEN "start" ELSE "present"
  /\ from = "caller"
  /\ seen \in Sights /\ cache \in {<<>>, Detected(seen)}
  /\ listed = 0 /\ replica = 1 /\ attempt = 0
  /\ state = [s \in Services |-> "old"]
  /\ recorded = {} /\ notified = {} /\ outcome = "none"

svc == order[i]

-----------------------------------------------------------------------------
(***************************************************************************)
(* The replica manager.  An empty cache is asked for by GetAllReplicas, a   *)
(* service that is not in it by GetServiceReplicas; nothing else refreshes  *)
(* it, so a list found before an update is also the list after it.          *)
(***************************************************************************)
NoReplicas == DOMAIN cache = {}
Cached(s)  == s \in DOMAIN cache
LenOf(replicas, s) == Cardinality(ReplicasIn(replicas, s))

DetectReplicas == seen' \in Sights /\ cache' = Detected(seen')

GetAllReplicas ==
  IF NoReplicas THEN DetectReplicas ELSE UNCHANGED found

GetServiceReplicas(s) ==
  IF Cached(s) THEN UNCHANGED found ELSE DetectReplicas

-----------------------------------------------------------------------------
Reports(event, s) ==
  /\ recorded' = recorded \union {<<event, s>>}
  /\ notified' = notified \union {<<event, s>>}

Return(answer) == outcome' = answer /\ pc' = "done"

\* Slip: CleanupAfterFailure is left out.
Untold(s) == Return("error") /\ UNCHANGED reports

\* CleanupAfterFailure, under the name of the service at hand, and the return.
FailFor(s) == Return("error") /\ Reports("failure", s)

\* The call of HandleError goes to its handler.
Recover(place, handler) == from' = place /\ pc' = handler

\* The next service of the order, or the final checks.
NextService ==
  /\ replica' = 1 /\ listed' = 0 /\ attempt' = 0
  /\ IF i = Len(order) THEN pc' = "complete" /\ UNCHANGED i
     ELSE pc' = "list" /\ i' = i + 1

-----------------------------------------------------------------------------
(***************************************************************************)
(* Update.                                                                 *)
(***************************************************************************)
RecordStart ==
  /\ pc = "start"
  /\ recorded' = recorded \union {<<"start", Service>>} /\ pc' = "exists"
  /\ UNCHANGED <<op, order, i, from, replica, listed, attempt, found, state,
                 notified, outcome>>

ServiceExists ==
  /\ pc = "exists" /\ GetAllReplicas /\ Service \in DOMAIN cache'
  /\ notified' = notified \union {<<"start", Service>>} /\ pc' = "order"
  /\ UNCHANGED <<op, order, i, from, replica, listed, attempt, state, recorded,
                 outcome>>

\* Not found, or not even looked for.
ServiceMissing ==
  /\ pc = "exists"
  /\ \/ GetAllReplicas /\ Service \notin DOMAIN cache'
     \/ NoReplicas /\ UNCHANGED found
  /\ FailFor(Service)
  /\ UNCHANGED <<op, order, i, from, replica, listed, attempt, state>>

GetUpdateOrder ==
  /\ pc = "order"
  /\ order' \in Orders /\ i' = 1 /\ pc' = "list"
  /\ UNCHANGED <<op, from, replica, listed, attempt, found, state, reports, outcome>>

NoUpdateOrder ==
  /\ pc = "order" /\ FailFor(Service)
  /\ UNCHANGED <<op, order, i, from, replica, listed, attempt, found, state>>

ListReplicas ==
  /\ pc = "list"
  /\ \/ /\ GetServiceReplicas(svc)
        /\ listed' = LenOf(cache', svc) /\ pc' = "execute" /\ UNCHANGED from
     \/ ~Cached(svc) /\ UNCHANGED <<found, listed>> /\ Recover("list", "refresh")
  /\ UNCHANGED <<op, order, i, replica, attempt, state, reports, outcome>>

\* Strategy.Execute changes the replicas it is handed, and none when there are
\* none; a strategy error always leads to a rollback.
Handed(result) ==
  state' = IF listed = 0 THEN state ELSE [state EXCEPT ![svc] = result]

ExecuteStrategy ==
  /\ pc = "execute"
  /\ \/ Handed("updated") /\ pc' = "relist" /\ UNCHANGED from
     \/ Handed("broken") /\ Recover("execute", "present")
  /\ UNCHANGED <<op, order, i, replica, listed, attempt, found, reports, outcome>>

ListUpdatedReplicas ==
  /\ pc = "relist"
  /\ \/ /\ GetServiceReplicas(svc)
        /\ listed' = LenOf(cache', svc) /\ pc' = "verify" /\ UNCHANGED from
     \/ /\ ~Cached(svc) /\ UNCHANGED <<found, listed>>
        /\ Recover("relist", "refresh")
  /\ UNCHANGED <<op, order, i, replica, attempt, state, reports, outcome>>

\* Check of the replica at hand.
Verify ==
  /\ pc = "verify" /\ replica <= listed
  /\ \/ replica' = replica + 1 /\ UNCHANGED <<pc, from, attempt>>
     \/ Recover("verify", "recheck") /\ attempt' = 0 /\ UNCHANGED replica
  /\ UNCHANGED <<op, order, i, listed, found, state, reports, outcome>>

ServiceDone ==
  /\ pc = "verify" /\ replica > listed
  /\ NextService
  /\ UNCHANGED <<op, order, from, found, state, reports, outcome>>

-----------------------------------------------------------------------------
(***************************************************************************)
(* The recovery handler.                                                   *)
(***************************************************************************)
\* Slip: the list found by the refresh replaces the one that could not be had.
RecoveredList ==
  \/ /\ from = "list" /\ pc' = "execute" /\ listed' = LenOf(cache', svc)
     /\ UNCHANGED <<i, replica, attempt>>
  \/ from = "execute" /\ pc' = "relist"  /\ UNCHANGED <<i, replica, listed, attempt>>
  \/ from = "relist"  /\ NextService
  \/ from = "verify"  /\ pc' = "verify" /\ replica' = replica + 1
     /\ UNCHANGED <<i, listed, attempt>>

\* HandleError has returned nil: Update goes on after the call, with whatever
\* it holds.  A listing that failed holds no replicas, whatever the recovery
\* found: the strategy is handed none, or there is none to verify.
Recovered ==
  \/ from = "list"    /\ pc' = "execute" /\ UNCHANGED <<i, replica, listed, attempt>>
  \/ from = "execute" /\ pc' = "relist"  /\ UNCHANGED <<i, replica, listed, attempt>>
  \/ from = "relist"  /\ NextService
  \/ from = "verify"  /\ pc' = "verify" /\ replica' = replica + 1
     /\ UNCHANGED <<i, listed, attempt>>

\* handleHealthError: three rounds over the list in the cache, then a rollback.
HealthyAgain ==
  /\ pc = "recheck" /\ attempt < MaxRetries
  /\ UNCHANGED <<op, order, from, found, state, reports, outcome>>
  /\ Recovered

StillUnhealthy ==
  /\ pc = "recheck" /\ attempt < MaxRetries
  /\ attempt' = attempt + 1
  /\ UNCHANGED <<op, order, i, pc, from, replica, listed, found, state, reports,
                 outcome>>

PersistentlyUnhealthy ==
  /\ pc = "recheck" /\ attempt = MaxRetries
  /\ state' = [state EXCEPT ![svc] = "broken"]
  /\ pc' = "present"
  /\ UNCHANGED <<op, order, i, from, replica, listed, attempt, found, reports,
                 outcome>>

\* handleReplicaError: a refresh must find replicas of the service.
Refreshed ==
  /\ pc = "refresh"
  /\ DetectReplicas /\ LenOf(cache', svc) > 0
  /\ Recovered
  /\ UNCHANGED <<op, order, from, state, reports, outcome>>

NotRefreshed ==
  /\ pc = "refresh"
  /\ \/ DetectReplicas /\ LenOf(cache', svc) = 0
     \/ UNCHANGED found
  /\ pc' = "present"
  /\ UNCHANGED <<op, order, i, from, replica, listed, attempt, state, reports,
                 outcome>>

-----------------------------------------------------------------------------
(***************************************************************************)
(* Rollback and RollbackToVersion, called by a user or, the former, by      *)
(* performRollback.                                                        *)
(***************************************************************************)
\* Slip: a rollback that failed counts as a recovery.
CarriesOn ==
  IF from = "caller" THEN Return("error") /\ UNCHANGED <<i, replica, listed, attempt, reports>>
  ELSE Recovered /\ UNCHANGED <<reports, outcome>>

\* An error: of the call itself, or of the recovery, which ends the update.
RollbackFailed ==
  IF from = "caller" THEN Return("error") /\ UNCHANGED <<i, replica, listed, attempt, reports>>
  ELSE FailFor(svc) /\ UNCHANGED <<i, replica, listed, attempt>>

\* GetAllReplicas, and the service is among them.
RollbackPresent ==
  /\ pc = "present" /\ GetAllReplicas /\ svc \in DOMAIN cache'
  /\ pc' = IF op = "version" THEN "announce" ELSE "history"
  /\ UNCHANGED <<op, order, i, from, replica, listed, attempt, state, reports,
                 outcome>>

RollbackAbsent ==
  /\ pc = "present"
  /\ \/ GetAllReplicas /\ svc \notin DOMAIN cache'
     \/ NoReplicas /\ UNCHANGED found
  /\ RollbackFailed
  /\ UNCHANGED <<op, order, from, state>>

\* GetRollbackHistory: an entry, or none or an error.
RollbackHistory ==
  /\ pc = "history"
  /\ \/ pc' = "announce" /\ UNCHANGED <<i, replica, listed, attempt, reports, outcome>>
     \/ RollbackFailed
  /\ UNCHANGED <<op, order, from, found, state>>

\* The rollback is recorded, as a success, and notified before it is tried.
AnnounceRollback ==
  /\ pc = "announce"
  /\ Reports("rollback", svc) /\ pc' = "restore"
  /\ UNCHANGED <<op, order, i, from, replica, listed, attempt, found, state, outcome>>

\* RollbackController.Rollback or RollbackToVersion.
Restore ==
  /\ pc = "restore"
  /\ \/ /\ state' = [state EXCEPT ![svc] = "restored"] /\ pc' = "healthy"
        /\ UNCHANGED <<i, replica, listed, attempt, reports, outcome>>
     \/ UNCHANGED state /\ RollbackFailed
  /\ UNCHANGED <<op, order, from, found>>

\* The health of every replica in the cache; an unhealthy one is an error.
RollbackHealthy ==
  /\ pc = "healthy"
  /\ UNCHANGED <<op, order, from, found, state, reports>>
  /\ IF from = "caller"
     THEN Return("nil") /\ UNCHANGED <<i, replica, listed, attempt>>
     ELSE Recovered /\ UNCHANGED outcome

RollbackUnhealthy ==
  /\ pc = "healthy" /\ LenOf(cache, svc) > 0
  /\ RollbackFailed
  /\ UNCHANGED <<op, order, from, found, state>>

-----------------------------------------------------------------------------
\* EnsureCompletion: the final checks of the service asked for.  Their error is
\* returned as it is, neither recorded nor notified.
Completed ==
  /\ pc = "complete"
  /\ GetServiceReplicas(Service)
  /\ Return("nil") /\ Reports("success", Service)
  /\ UNCHANGED <<op, order, i, from, replica, listed, attempt, state>>

NotCompleted ==
  /\ pc = "complete"
  /\ \/ GetServiceReplicas(Service) /\ LenOf(cache', Service) > 0
     \/ ~Cached(Service) /\ UNCHANGED found
  /\ Return("error")
  /\ UNCHANGED <<op, order, i, from, replica, listed, attempt, state, reports>>

Returned == pc = "done" /\ UNCHANGED vars

Update ==
  \/ RecordStart \/ ServiceExists \/ ServiceMissing \/ GetUpdateOrder \/ NoUpdateOrder
  \/ ListReplicas \/ ExecuteStrategy \/ ListUpdatedReplicas \/ Verify \/ ServiceDone
  \/ Completed \/ NotCompleted

HandleError ==
  \/ HealthyAgain \/ StillUnhealthy \/ PersistentlyUnhealthy
  \/ Refreshed \/ NotRefreshed

Rollback ==
  \/ RollbackPresent \/ RollbackAbsent \/ RollbackHistory \/ AnnounceRollback
  \/ Restore \/ RollbackHealthy \/ RollbackUnhealthy

Step == Update \/ HandleError \/ Rollback
Next == Step \/ Returned

Spec == Init /\ [][Next]_vars

-----------------------------------------------------------------------------
(***************************************************************************)
(* Properties.                                                             *)
(***************************************************************************)
\* No service is left broken behind the walk: whenever Update has moved on to
\* the next service, or to the final checks, what a failed strategy or failing
\* replicas did to the earlier ones has been rolled back.
NoneLeftBroken ==
  \A k \in DOMAIN order : k < i \/ pc = "complete" => state[order[k]] # "broken"

\* What Update answers is what it has told the collector and the notifiers: a
\* success of the service it was called for and no failure with nil, one failure
\* of the service at hand with an error, and never both; until it returns neither
\* is told.  An error of the final checks, and only that, goes untold.
Failures(told)  == {s \in Services : <<"failure", s>> \in told}
Successes(told) == {s \in Services : <<"success", s>> \in told}

Answered ==
  op = "update" => \A told \in {recorded', notified'} :
    CASE outcome' = "none"  -> Failures(told) = {} /\ Successes(told) = {}
      [] outcome' = "nil"   -> Failures(told) = {} /\ Successes(told) = {Service}
      [] outcome' = "error" -> /\ Successes(told) = {}
                               /\ Failures(told) = IF pc = "complete" THEN {} ELSE {svc}

AnswerIsTold == [][Answered]_vars

\* A service the recovery has rolled back is not updated again by the same call.
\* Update goes on after the rollback; what keeps it off the service is the order
\* of the walk and the empty list it holds when listing failed.
RolledBackStays ==
  [][\A s \in Services : state[s] = "restored" => state'[s] # "updated"]_vars

\* What is there, told from the owner of each container and without patterns.
Running(w, s) == {c \in Range(w.containers) : c.of = s}
Scaled(w, s)  == s \in DOMAIN w.services /\ w.services[s]
Variants(w, s) ==
  {m \in DOMAIN w.services :
     /\ Len(m) = Len(s) + 2 /\ SubSeq(m, 1, Len(s)) = s
     /\ m[Len(s) + 1] \in {"-", "."} /\ m[Len(s) + 2] \notin {"-", "."}}
Group(w, s) == IF Cardinality(Variants(w, s)) > 1 THEN Variants(w, s) ELSE {}

\* <project>_<service>_<number>, without a further underscore, and none in the
\* name of a service that has no container.
PlainNames(w) ==
  /\ \A s \in DOMAIN w.services : \A k \in DOMAIN s : s[k] # "_"
  /\ \A c \in Range(w.containers) :
       /\ c.of = SubSeq(c.name, 3, Len(c.name) - 2)
       /\ {k \in DOMAIN c.name : c.name[k] = "_"} = {2, Len(c.name) - 1}

\* "It returns a map of service names to their replicas": the cache has the services
\* the first detector met scaled and the groups the second one met, for each its
\* own containers at that detector's moment, none of them twice and none left out.
\* A group has one replica for each of its services, and a placeholder for those
\* that have no container.  Nothing makes the two moments one: a compose file that
\* is changed in between leaves a map that no file has ever stood for.  (Names with
\* more underscores, and those Compose gives today, are cut in the wrong place or
\* not at all.)
CacheIsTrue ==
  LET first  == seen.scale
      second == seen.name
  IN  PlainNames(first) /\ PlainNames(second) /\ cache # <<>> =>
        /\ \A s \in DOMAIN first.services : Scaled(first, s) => s \in DOMAIN cache
        /\ \A s \in DOMAIN cache :
             LET members  == Group(second, s)
                 Times(X) == Cardinality({r \in cache[s] : r.container \in X})
             IN  /\ Scaled(first, s) \/ members # {}
                 /\ Scaled(first, s) => \A c \in Running(first, s) : Times({c}) = 1
                 /\ \A m \in members :
                      Running(second, m) # {} => Times(Running(second, m)) = 1
                 /\ Times({NotFound}) = Cardinality({m \in members : Running(second, m) = {}})
                 /\ \A r \in cache[s] :
                      \/ r.container = NotFound
                      \/ Scaled(first, s) /\ r.container \in Running(first, s)
                      \/ \E m \in members : r.container \in Running(second, m)
================================================================================
