-------------------------- MODULE UpdateManagerProofs --------------------------
(* The safety properties of the walk and of its reports, for any orders and any *)
(* worlds the detectors may meet.                                               *)
EXTENDS UpdateManager, FiniteSetTheorems, FunctionTheorems, TLAPS

\* From the turn to the recovery handler until it returns, and the pcs of a
\* rollback called by a user.
Recovering == {"refresh", "recheck", "present", "history", "announce", "restore", "healthy"}

\* Where a service that is broken waits to be rolled back, or the call has failed.
Pending == {"present", "history", "announce", "restore", "done"}

Position ==
  /\ order \in Orders \union {<<Service>>} /\ i \in 1 .. Len(order)
  /\ state \in [Services -> {"old", "updated", "broken", "restored"}]
  /\ pc = "complete" => i = Len(order)

Beginning ==
  pc \in {"start", "exists", "order"} =>
    order = <<Service>> /\ i = 1 /\ listed = 0 /\ \A s \in Services : state[s] = "old"

\* Only the service at hand can be broken.
BrokenIsAtHand == \A s \in Services : state[s] = "broken" => s = svc /\ pc \in Pending

\* What the walk has not come to has not been touched.
LaterAreOld == \A k \in DOMAIN order : k > i => state[order[k]] = "old"

\* The strategy is handed replicas of a service that has not been touched, and none
\* when it had to be recovered before.
HandedOnce ==
  /\ pc = "list" => listed = 0 /\ state[svc] = "old"
  /\ pc \in Recovering /\ from = "list" => listed = 0
  /\ pc = "execute" => listed = 0 \/ state[svc] = "old"

Walk == Position /\ Beginning /\ BrokenIsAtHand /\ LaterAreOld /\ HandedOnce

-----------------------------------------------------------------------------
\* An order ends with the service asked for and has no service twice.
LEMMA OrderFacts ==
  ASSUME NEW o \in Orders \union {<<Service>>}
  PROVE  /\ Len(o) \in Nat /\ Len(o) >= 1 /\ DOMAIN o = 1 .. Len(o)
         /\ o[Len(o)] = Service
         /\ \A k \in DOMAIN o : o[k] \in Services
         /\ \A j, k \in DOMAIN o : o[j] = o[k] => j = k
  <1>1. CASE o \in Orders
    <2>1. o \in Seq(Seq(STRING)) /\ o # <<>> /\ o[Len(o)] = Service
      BY <1>1, OrdersAssumption
    <2>2. Len(o) \in Nat /\ DOMAIN o = 1 .. Len(o) /\ Len(o) # 0
      BY <2>1
    <2>3. \A j, k \in DOMAIN o : o[j] = o[k] => j = k
      BY <1>1, OrdersAssumption
    <2>4. \A k \in DOMAIN o : o[k] \in Services
      BY <1>1 DEF Services
    <2>5. QED
      BY <2>1, <2>2, <2>3, <2>4
  <1>2. CASE o = <<Service>>
    BY <1>2 DEF Services
  <1>3. QED
    BY <1>1, <1>2

LEMMA ServiceAtHand ==
  ASSUME Position
  PROVE  /\ svc \in Services /\ Len(order) \in Nat /\ DOMAIN order = 1 .. Len(order)
         /\ \A k \in DOMAIN order : order[k] \in Services
         /\ \A k \in DOMAIN order : k # i => order[k] # svc
  BY OrderFacts DEF Position, svc

LEMMA InitWalk == Init => Walk
  <1> SUFFICES ASSUME Init PROVE Walk
    OBVIOUS
  <1>1. /\ order = <<Service>> /\ i = 1 /\ listed = 0 /\ from = "caller"
        /\ state = [s \in Services |-> "old"] /\ pc \in {"start", "present"}
    BY DEF Init
  <1>2. Position
    BY <1>1 DEF Position
  <1>3. QED
    BY <1>1, <1>2, ServiceAtHand
    DEF Walk, Beginning, BrokenIsAtHand, LaterAreOld, HandedOnce, Recovering

\* A call that returns leaves everything where it is.
LEMMA ReturnKeepsWalk ==
  ASSUME Walk, pc' = "done", UNCHANGED <<order, i, state>>
  PROVE  Walk'
  BY DEF Walk, Position, Beginning, BrokenIsAtHand, LaterAreOld, HandedOnce, Pending,
         Recovering, svc

LEMMA NextServiceKeepsWalk ==
  ASSUME Walk, pc \notin Pending, NextService, UNCHANGED <<order, state>>
  PROVE  Walk'
  <1> USE ServiceAtHand DEF Walk
  <1>1. \A s \in Services : state'[s] # "broken"
    BY DEF BrokenIsAtHand
  <1>2. CASE i = Len(order)
    BY <1>1, <1>2
    DEF NextService, Position, Beginning, BrokenIsAtHand, LaterAreOld, HandedOnce,
        Recovering
  <1>3. CASE i # Len(order)
    <2>1. i' = i + 1 /\ pc' = "list" /\ listed' = 0
      BY <1>3 DEF NextService
    <2>2. i' \in DOMAIN order /\ state[order[i']] = "old"
      BY <1>3, <2>1 DEF Position, LaterAreOld
    <2>3. Position' /\ Beginning' /\ BrokenIsAtHand' /\ LaterAreOld'
      BY <1>1, <2>1, <2>2 DEF Position, Beginning, BrokenIsAtHand, LaterAreOld
    <2>4. HandedOnce'
      BY <2>1, <2>2 DEF HandedOnce, Recovering, svc
    <2>5. QED
      BY <2>3, <2>4
  <1>4. QED
    BY <1>2, <1>3

\* Update goes on after a recovery.
LEMMA RecoveredKeepsWalk ==
  ASSUME Walk, pc \in Recovering \ Pending, Recovered, UNCHANGED <<order, from, state>>
  PROVE  Walk'
  <1>1. CASE from = "list" /\ pc' = "execute" /\ UNCHANGED <<i, listed>>
    BY <1>1 DEF Walk, Position, Beginning, BrokenIsAtHand, LaterAreOld, HandedOnce,
                Recovering, Pending, svc
  <1>2. CASE pc' \in {"relist", "verify"} /\ UNCHANGED i
    BY <1>2 DEF Walk, Position, Beginning, BrokenIsAtHand, LaterAreOld, HandedOnce,
                Recovering, Pending, svc
  <1>3. CASE NextService
    BY <1>3, NextServiceKeepsWalk
  <1>4. QED
    BY <1>1, <1>2, <1>3 DEF Recovered

LEMMA FailuresReturn ==
  /\ \A s : FailFor(s) => pc' = "done"
  /\ RollbackFailed => pc' = "done" /\ UNCHANGED i
  BY DEF FailFor, RollbackFailed, Return

\* Update, up to the order; and the turns that leave the service as it is.
LEMMA PlainStepsKeepWalk ==
  ASSUME Walk,
         \/ RecordStart \/ ServiceExists \/ ServiceMissing \/ NoUpdateOrder
         \/ ListReplicas \/ ListUpdatedReplicas \/ Verify \/ Completed \/ NotCompleted
         \/ StillUnhealthy \/ NotRefreshed \/ RollbackPresent \/ RollbackAbsent
         \/ RollbackHistory \/ AnnounceRollback \/ RollbackUnhealthy \/ UNCHANGED vars
  PROVE  Walk'
  <1>1. UNCHANGED <<order, i, state>>
    BY FailuresReturn
    DEF RecordStart, ServiceExists, ServiceMissing, NoUpdateOrder, ListReplicas,
        ListUpdatedReplicas, Verify, Completed, NotCompleted, StillUnhealthy,
        NotRefreshed, RollbackPresent, RollbackAbsent, RollbackHistory,
        AnnounceRollback, RollbackUnhealthy, vars, control
  <1>2. CASE pc' = "done"
    BY <1>1, <1>2, ReturnKeepsWalk
  <1>3. CASE RecordStart \/ ServiceExists
    BY <1>1, <1>3
    DEF RecordStart, ServiceExists, Walk, Position, Beginning, BrokenIsAtHand,
        LaterAreOld, HandedOnce, Recovering, Pending, svc
  <1>4. CASE ListReplicas
    BY <1>1, <1>4
    DEF ListReplicas, Recover, Walk, Position, Beginning, BrokenIsAtHand,
        LaterAreOld, HandedOnce, Recovering, Pending, svc
  <1>5. CASE ListUpdatedReplicas \/ Verify \/ StillUnhealthy
    <2>1. /\ pc \in {"relist", "verify", "recheck"}
          /\ pc' \in {"verify", "refresh", "recheck"}
          /\ pc' = "refresh" => from' # "list"
          /\ pc' = "recheck" /\ from' = "list" =>
               pc = "recheck" /\ UNCHANGED <<from, listed>>
      <3>1. CASE ListUpdatedReplicas
        BY <3>1 DEF ListUpdatedReplicas, Recover
      <3>2. CASE Verify
        BY <3>2 DEF Verify, Recover
      <3>3. CASE StillUnhealthy
        BY <3>3 DEF StillUnhealthy
      <3>4. QED
        BY <1>5, <3>1, <3>2, <3>3
    <2>2. QED
      BY <1>1, <2>1
      DEF Walk, Position, Beginning, BrokenIsAtHand, LaterAreOld, HandedOnce,
          Recovering, Pending, svc
  <1>6. CASE /\ NotRefreshed \/ RollbackPresent \/ RollbackHistory \/ AnnounceRollback
             /\ pc' # "done"
    <2>1. /\ pc \in Recovering /\ pc' \in Pending \ {"done"} /\ UNCHANGED <<from, listed>>
          /\ pc \in Pending \/ pc = "refresh"
      BY <1>6, FailuresReturn
      DEF NotRefreshed, RollbackPresent, RollbackHistory, AnnounceRollback,
          Recovering, Pending
    <2>2. QED
      BY <1>1, <2>1
      DEF Walk, Position, Beginning, BrokenIsAtHand, LaterAreOld, HandedOnce,
          Recovering, Pending, svc
  <1>7. CASE UNCHANGED vars
    BY <1>7
    DEF vars, control, Walk, Position, Beginning, BrokenIsAtHand, LaterAreOld,
        HandedOnce, svc
  <1>8. QED
    BY <1>2, <1>3, <1>4, <1>5, <1>6, <1>7, FailuresReturn
    DEF ServiceMissing, NoUpdateOrder, Completed, NotCompleted, RollbackAbsent,
        RollbackUnhealthy, Return

\* The walk over the order begins.
LEMMA OrderKeepsWalk == ASSUME Walk, GetUpdateOrder PROVE Walk'
  <1>1. /\ order' \in Orders \union {<<Service>>} /\ i' = 1 /\ pc' = "list"
        /\ UNCHANGED <<listed, from, state>> /\ listed = 0
        /\ \A s \in Services : state[s] = "old"
    BY DEF GetUpdateOrder, Walk, Beginning
  <1>2. /\ Len(order') \in Nat /\ Len(order') >= 1 /\ DOMAIN order' = 1 .. Len(order')
        /\ \A k \in DOMAIN order' : order'[k] \in Services
    BY <1>1, OrderFacts
  <1>3. QED
    BY <1>1, <1>2
    DEF Walk, Position, Beginning, BrokenIsAtHand, LaterAreOld, HandedOnce,
        Recovering, svc

\* The strategy, and what is found out and done about what it left.
LEMMA StrategyKeepsWalk == ASSUME Walk, ExecuteStrategy PROVE Walk'
  <1> USE ServiceAtHand DEF Walk
  <1>1. /\ UNCHANGED <<order, i, listed>> /\ pc = "execute"
        /\ \/ pc' = "relist" /\ Handed("updated")
           \/ pc' = "present" /\ from' = "execute" /\ Handed("broken")
    BY DEF ExecuteStrategy, Recover
  <1>2. \A k \in Services : k # svc => state'[k] = state[k]
    BY <1>1 DEF Handed, Position
  <1>3. /\ state' \in [Services -> {"old", "updated", "broken", "restored"}]
        /\ state'[svc] = "broken" => pc' = "present"
    BY <1>1 DEF Handed, Position, BrokenIsAtHand, Pending
  <1>4. Position' /\ Beginning'
    BY <1>1, <1>3 DEF Position, Beginning
  <1>5. BrokenIsAtHand'
    BY <1>1, <1>2, <1>3 DEF BrokenIsAtHand, Pending, svc
  <1>6. LaterAreOld' /\ HandedOnce'
    BY <1>1, <1>2 DEF Position, LaterAreOld, HandedOnce, Recovering
  <1>7. QED
    BY <1>4, <1>5, <1>6

LEMMA RestoringKeepsWalk ==
  ASSUME Walk, PersistentlyUnhealthy \/ Restore PROVE Walk'
  <1> USE ServiceAtHand DEF Walk
  <1>1. CASE Restore /\ UNCHANGED state /\ RollbackFailed
    BY <1>1, FailuresReturn, ReturnKeepsWalk DEF Restore
  <1>2. CASE PersistentlyUnhealthy \/ (Restore /\ state' = [state EXCEPT ![svc] = "restored"]
                                               /\ pc' = "healthy" /\ UNCHANGED <<i, listed>>)
    <2>1. /\ UNCHANGED <<order, i, from, listed>> /\ pc \in Recovering
          /\ \/ pc' = "present" /\ state' = [state EXCEPT ![svc] = "broken"]
             \/ pc' = "healthy" /\ state' = [state EXCEPT ![svc] = "restored"]
      BY <1>2 DEF PersistentlyUnhealthy, Restore, Recovering
    <2>2. Position' /\ Beginning'
      BY <2>1 DEF Position, Beginning
    <2>3. BrokenIsAtHand'
      BY <2>1 DEF Position, BrokenIsAtHand, Pending, svc
    <2>4. LaterAreOld' /\ HandedOnce'
      BY <2>1 DEF Position, LaterAreOld, HandedOnce, Recovering
    <2>5. QED
      BY <2>2, <2>3, <2>4
  <1>3. QED
    BY <1>1, <1>2 DEF Restore

\* A service is done, or recovered.
LEMMA GoingOnKeepsWalk ==
  ASSUME Walk, ServiceDone \/ HealthyAgain \/ Refreshed \/ RollbackHealthy
  PROVE  Walk'
  <1>1. CASE ServiceDone
    BY <1>1, NextServiceKeepsWalk DEF ServiceDone, Pending
  <1>2. CASE HealthyAgain \/ Refreshed
    BY <1>2, RecoveredKeepsWalk DEF HealthyAgain, Refreshed, Recovering, Pending
  <1>3. CASE RollbackHealthy /\ from = "caller"
    BY <1>3, ReturnKeepsWalk DEF RollbackHealthy, Return
  <1>4. CASE RollbackHealthy /\ from # "caller"
    BY <1>4, RecoveredKeepsWalk DEF RollbackHealthy, Recovering, Pending
  <1>5. QED
    BY <1>1, <1>2, <1>3, <1>4

LEMMA NextKeepsWalk == Walk /\ [Next]_vars => Walk'
  BY PlainStepsKeepWalk, OrderKeepsWalk, StrategyKeepsWalk, RestoringKeepsWalk,
     GoingOnKeepsWalk
  DEF Next, Step, Update, HandleError, Rollback, Returned

\* The inductive invariant of the walk and of the recovery.
THEOREM WalkHolds == Spec => []Walk
  BY InitWalk, NextKeepsWalk, PTL DEF Spec

\* Whatever fails, and whatever the detectors find: the walk leaves no service
\* behind that a strategy or its replicas have failed and nobody rolled back.
THEOREM NothingBrokenBehind == Spec => []NoneLeftBroken
  <1>1. Walk => NoneLeftBroken
    BY ServiceAtHand DEF Walk, BrokenIsAtHand, Pending, NoneLeftBroken
  <1>2. QED
    BY <1>1, WalkHolds, PTL

\* The walk never comes back to a service that the recovery has rolled back.
THEOREM RollbackIsFinal == Spec => RolledBackStays
  <1>1. Walk /\ [Next]_vars =>
          [\A s \in Services : state[s] = "restored" => state'[s] # "updated"]_vars
    <2> SUFFICES ASSUME Walk, Next, NEW s \in Services, state[s] = "restored"
                 PROVE  state'[s] # "updated"
      OBVIOUS
    <2>1. CASE ExecuteStrategy
      BY <2>1, ServiceAtHand DEF ExecuteStrategy, Handed, Walk, Position, HandedOnce
    <2>2. CASE PersistentlyUnhealthy \/ Restore
      BY <2>2 DEF PersistentlyUnhealthy, Restore, Walk, Position
    <2>3. CASE UNCHANGED state
      BY <2>3
    <2>4. QED
      BY <2>1, <2>2, <2>3
      DEF Next, Step, Update, HandleError, Rollback, Returned, vars, RecordStart,
          ServiceExists, ServiceMissing, GetUpdateOrder, NoUpdateOrder, ListReplicas,
          ListUpdatedReplicas, Verify, ServiceDone, Completed, NotCompleted,
          HealthyAgain, StillUnhealthy, Refreshed, NotRefreshed, RollbackPresent,
          RollbackAbsent, RollbackHistory, AnnounceRollback, RollbackHealthy,
          RollbackUnhealthy
  <1>2. QED
    BY <1>1, WalkHolds, PTL DEF Spec, RolledBackStays

-----------------------------------------------------------------------------
(***************************************************************************)
(* What is answered and what is told.                                      *)
(***************************************************************************)
\* The recovery handler answers to Update, and not to the caller of Update.
CalledByUpdate == op = "update" /\ pc \in Recovering => from # "caller"

AnswerIsLast == outcome \in {"none", "nil", "error"} /\ (pc = "done" <=> outcome # "none")

\* Until it returns, Update has told of no failure and no success.
NothingTold ==
  op = "update" /\ pc # "done" =>
    \A told \in {recorded, notified} : Failures(told) = {} /\ Successes(told) = {}

Told == CalledByUpdate /\ AnswerIsLast /\ NothingTold

\* The start of an update and a rollback are neither a failure nor a success.
LEMMA OtherEvents ==
  ASSUME NEW told, NEW e \in {"start", "rollback"}, NEW s
  PROVE  /\ Failures(told \union {<<e, s>>}) = Failures(told)
         /\ Successes(told \union {<<e, s>>}) = Successes(told)
  BY DEF Failures, Successes

LEMMA Verdicts ==
  ASSUME NEW told, NEW s \in Services, Failures(told) = {}, Successes(told) = {}
  PROVE  /\ Failures(told \union {<<"failure", s>>}) = {s}
         /\ Successes(told \union {<<"failure", s>>}) = {}
         /\ Failures(told \union {<<"success", s>>}) = {}
         /\ Successes(told \union {<<"success", s>>}) = {s}
  BY DEF Failures, Successes

LEMMA InitTold == Init => Told
  BY DEF Init, Told, CalledByUpdate, AnswerIsLast, NothingTold, Failures, Successes,
         Recovering

\* A step that does not return, and tells of no failure and no success.
LEMMA QuietKeepsTold ==
  ASSUME Told, pc # "done", pc' # "done", UNCHANGED <<op, outcome>>, CalledByUpdate',
         NEW e \in {"start", "rollback"}, NEW s,
         recorded' \in {recorded, recorded \union {<<e, s>>}},
         notified' \in {notified, notified \union {<<e, s>>}}
  PROVE  Told' /\ Answered
  <1>1. AnswerIsLast' /\ outcome' = "none"
    BY DEF Told, AnswerIsLast
  <1>2. ASSUME op = "update"
        PROVE  \A told \in {recorded', notified'} : Failures(told) = {} /\ Successes(told) = {}
    <2>1. /\ Failures(recorded) = {} /\ Successes(recorded) = {}
          /\ Failures(notified) = {} /\ Successes(notified) = {}
      BY <1>2 DEF Told, NothingTold
    <2>2. \A told : /\ Failures(told \union {<<e, s>>}) = Failures(told)
                   /\ Successes(told \union {<<e, s>>}) = Successes(told)
      BY OtherEvents
    <2>3. QED
      BY <2>1, <2>2
  <1>3. QED
    BY <1>1, <1>2 DEF Told, NothingTold, Answered

\* An error of the service at hand, told of it.
LEMMA FailureKeepsTold ==
  ASSUME Walk, Told, pc \notin {"done", "complete"}, FailFor(svc),
         UNCHANGED <<op, order, i>>
  PROVE  Told' /\ Answered
  <1>1. /\ pc' = "done" /\ outcome' = "error" /\ svc \in Services
        /\ recorded' = recorded \union {<<"failure", svc>>}
        /\ notified' = notified \union {<<"failure", svc>>}
    BY ServiceAtHand DEF FailFor, Return, Reports, Walk
  <1>2. Told'
    BY <1>1 DEF Told, CalledByUpdate, AnswerIsLast, NothingTold, Recovering
  <1>3. ASSUME op = "update"
        PROVE  \A told \in {recorded', notified'} : Failures(told) = {svc} /\ Successes(told) = {}
    <2>1. \A told \in {recorded, notified} : Failures(told) = {} /\ Successes(told) = {}
      BY <1>3 DEF Told, NothingTold
    <2>2. \A told \in {recorded, notified} :
            /\ Failures(told \union {<<"failure", svc>>}) = {svc}
            /\ Successes(told \union {<<"failure", svc>>}) = {}
      BY <1>1, <2>1, Verdicts
    <2>3. QED
      BY <1>1, <2>2
  <1>4. QED
    BY <1>1, <1>2, <1>3 DEF Answered

\* A call of Rollback by a user is answered, and that is all.
LEMMA CallerKeepsTold ==
  ASSUME Told, pc \in Recovering, from = "caller", NEW a \in {"nil", "error"}, Return(a),
         UNCHANGED op
  PROVE  Told' /\ Answered
  BY DEF Told, CalledByUpdate, AnswerIsLast, NothingTold, Answered, Return, Recovering

LEMMA RollbackFailedKeepsTold ==
  ASSUME Walk, Told, pc \in Recovering, RollbackFailed, UNCHANGED <<op, order, from>>
  PROVE  Told' /\ Answered
  <1>1. CASE from = "caller"
    BY <1>1, CallerKeepsTold DEF RollbackFailed
  <1>2. CASE from # "caller"
    BY <1>2, FailureKeepsTold DEF RollbackFailed, Recovering
  <1>3. QED
    BY <1>1, <1>2

\* The final checks: the one success, and the one error that goes untold.
LEMMA CompletionKeepsTold ==
  ASSUME Walk, Told, Completed \/ NotCompleted PROVE Told' /\ Answered
  <1>1. /\ pc = "complete" /\ pc' = "done" /\ UNCHANGED <<op, order, i>>
        /\ outcome' \in {"nil", "error"} /\ Service \in Services
    BY DEF Completed, NotCompleted, Return, Services
  <1>2. Told'
    BY <1>1 DEF Told, CalledByUpdate, AnswerIsLast, NothingTold, Recovering
  <1>3. CASE op # "update"
    BY <1>2, <1>3 DEF Answered
  <1>4. CASE op = "update"
    <2>1. \A told \in {recorded, notified} : Failures(told) = {} /\ Successes(told) = {}
      BY <1>1, <1>4 DEF Told, NothingTold
    <2>2. CASE Completed
      <3>1. /\ outcome' = "nil"
            /\ recorded' = recorded \union {<<"success", Service>>}
            /\ notified' = notified \union {<<"success", Service>>}
        BY <2>2 DEF Completed, Return, Reports
      <3>2. \A told \in {recorded, notified} :
              /\ Failures(told \union {<<"success", Service>>}) = {}
              /\ Successes(told \union {<<"success", Service>>}) = {Service}
        BY <1>1, <2>1, Verdicts
      <3>3. QED
        BY <1>2, <3>1, <3>2 DEF Answered
    <2>3. CASE NotCompleted
      <3>1. outcome' = "error" /\ UNCHANGED <<recorded, notified>>
        BY <2>3 DEF NotCompleted, Return, reports
      <3>2. QED
        BY <1>1, <1>2, <2>1, <3>1 DEF Answered
    <2>4. QED
      BY <2>2, <2>3
  <1>5. QED
    BY <1>3, <1>4

\* Update goes on: the recovery handler has returned.
LEMMA RecoveredLeaves == Recovered => pc' \in {"execute", "relist", "verify", "complete", "list"}
  BY DEF Recovered, NextService

LEMMA UpdateKeepsTold == ASSUME Walk, Told, Update PROVE Told' /\ Answered
  <1>1. CASE ServiceMissing \/ NoUpdateOrder
    <2>1. svc = Service
      BY <1>1 DEF Walk, Beginning, svc, ServiceMissing, NoUpdateOrder
    <2>2. QED
      BY <1>1, <2>1, FailureKeepsTold DEF ServiceMissing, NoUpdateOrder
  <1>2. CASE RecordStart \/ ServiceExists \/ GetUpdateOrder
    <2>1. CalledByUpdate'
      BY <1>2 DEF RecordStart, ServiceExists, GetUpdateOrder, CalledByUpdate, Recovering
    <2>2. QED
      BY <1>2, <2>1, QuietKeepsTold
      DEF RecordStart, ServiceExists, GetUpdateOrder, reports
  <1>3. CASE \/ ListReplicas \/ ExecuteStrategy \/ ListUpdatedReplicas \/ Verify
             \/ ServiceDone
    <2>1. /\ pc # "done" /\ pc' # "done" /\ UNCHANGED <<op, outcome, recorded, notified>>
      BY <1>3 DEF ListReplicas, ExecuteStrategy, ListUpdatedReplicas, Verify,
                  ServiceDone, Recover, NextService, reports
    <2>2. pc' \in Recovering => from' # "caller"
      BY <1>3 DEF ListReplicas, ExecuteStrategy, ListUpdatedReplicas, Verify,
                  ServiceDone, Recover, NextService, Recovering
    <2>3. QED
      BY <2>1, <2>2, QuietKeepsTold DEF CalledByUpdate
  <1>4. QED
    BY <1>1, <1>2, <1>3, CompletionKeepsTold DEF Update

LEMMA HandlerKeepsTold ==
  ASSUME Walk, Told, HandleError \/ Rollback PROVE Told' /\ Answered
  <1>1. CASE \/ HealthyAgain \/ StillUnhealthy \/ PersistentlyUnhealthy \/ Refreshed
             \/ NotRefreshed \/ RollbackPresent
             \/ RollbackHealthy /\ from # "caller"
    <2>1. /\ pc \in Recovering /\ pc' # "done"
          /\ UNCHANGED <<op, from, outcome, recorded, notified>>
      BY <1>1, RecoveredLeaves
      DEF HealthyAgain, StillUnhealthy, PersistentlyUnhealthy, Refreshed, NotRefreshed,
          RollbackPresent, RollbackHealthy, Recovering, reports
    <2>2. QED
      BY <2>1, QuietKeepsTold DEF Told, CalledByUpdate, Recovering
  <1>2. CASE RollbackHealthy /\ from = "caller"
    BY <1>2, CallerKeepsTold DEF RollbackHealthy, Recovering
  <1>3. CASE RollbackAbsent \/ RollbackUnhealthy
    BY <1>3, RollbackFailedKeepsTold DEF RollbackAbsent, RollbackUnhealthy, Recovering
  <1>4. CASE RollbackHistory \/ Restore
    <2>1. /\ pc \in Recovering /\ pc # "done" /\ UNCHANGED <<op, order, from>>
          /\ \/ RollbackFailed
             \/ /\ pc' \in Recovering /\ pc' # "done"
                /\ UNCHANGED <<outcome, recorded, notified>>
      BY <1>4 DEF RollbackHistory, Restore, Recovering, reports
    <2>2. CASE RollbackFailed
      BY <2>1, <2>2, RollbackFailedKeepsTold
    <2>3. CASE ~RollbackFailed
      BY <2>1, <2>3, QuietKeepsTold DEF Told, CalledByUpdate
    <2>4. QED
      BY <2>2, <2>3
  <1>5. CASE AnnounceRollback
    <2>1. /\ pc \in Recovering /\ pc # "done" /\ pc' \in Recovering /\ pc' # "done"
          /\ UNCHANGED <<op, from, outcome>>
          /\ recorded' = recorded \union {<<"rollback", svc>>}
          /\ notified' = notified \union {<<"rollback", svc>>}
      BY <1>5 DEF AnnounceRollback, Reports, Recovering
    <2>2. QED
      BY <2>1, QuietKeepsTold DEF Told, CalledByUpdate
  <1>6. QED
    BY <1>1, <1>2, <1>3, <1>4, <1>5 DEF HandleError, Rollback

LEMMA NextKeepsTold == Walk /\ Told /\ [Next]_vars => Told' /\ [Answered]_vars
  <1> SUFFICES ASSUME Walk, Told, [Next]_vars PROVE Told' /\ [Answered]_vars
    OBVIOUS
  <1>1. CASE UNCHANGED vars
    <2>1. UNCHANGED <<op, pc, from, outcome, recorded, notified>>
      BY <1>1 DEF vars, control, reports
    <2>2. QED
      BY <1>1, <2>1 DEF Told, CalledByUpdate, AnswerIsLast, NothingTold
  <1>2. QED
    BY <1>1, UpdateKeepsTold, HandlerKeepsTold DEF Next, Step, Returned

\* What Update answers is what it has recorded and notified, whatever fails; only an
\* error of the final checks is told to nobody.
THEOREM AnswersAreTold == Spec => AnswerIsTold
  BY InitTold, WalkHolds, NextKeepsTold, PTL DEF Spec, AnswerIsTold

-----------------------------------------------------------------------------
(***************************************************************************)
(* The cache of replicas: what the patterns for the names of containers and *)
(* services make of the worlds the detectors meet.                         *)
(***************************************************************************)
\* The cache is empty or what the detectors found, each in a world.
Kept == seen \in Sights /\ cache \in {<<>>, Detected(seen)}

\* Nothing else writes the cache than a detection.
LEMMA NextKeepsKept == Kept /\ [Next]_vars => Kept'
  <1>. SUFFICES ASSUME Kept, [Next]_vars PROVE Kept'
    OBVIOUS
  <1>1. UNCHANGED found \/ DetectReplicas
    BY DEF Next, Step, Update, HandleError, Rollback, Returned, vars, RecordStart,
           ServiceExists, ServiceMissing, GetUpdateOrder, NoUpdateOrder, ListReplicas,
           ExecuteStrategy, ListUpdatedReplicas, Verify, ServiceDone, Completed,
           NotCompleted, HealthyAgain, StillUnhealthy, PersistentlyUnhealthy, Refreshed,
           NotRefreshed, RollbackPresent, RollbackAbsent, RollbackHistory,
           AnnounceRollback, Restore, RollbackHealthy, RollbackUnhealthy, GetAllReplicas,
           GetServiceReplicas
  <1>. QED
    BY <1>1 DEF Kept, found, DetectReplicas

-----------------------------------------------------------------------------
\* Every set of numbers that is not empty has a least member, which is its Min.
LEMMA MinIsLeast ==
  ASSUME NEW T \in SUBSET Nat, T # {}
  PROVE  Min(T) \in T
  <1>1. IsWellFoundedOn(OpToRel(<, Nat), Nat)
    BY NatLessThanWellFounded
  <1>. DEFINE R == OpToRel(<, Nat)
  <1>2. PICK x \in T : \A y \in T : ~ (<<y, x>> \in R)
    BY <1>1, WFMin
  <1>3. \A y \in T : <<y, x>> \in Nat \X Nat /\ (<<y, x>> \in R <=> y < x)
    BY DEF OpToRel
  <1>. HIDE DEF R
  <1>4. \A y \in T : ~ (y < x)
    BY <1>2, <1>3
  <1>5. x \in T /\ T \subseteq Nat
    BY <1>2
  <1>6. \A y \in T : x <= y
    BY ONLY <1>4, <1>5
  <1>. QED
    BY <1>5, <1>6 DEF Min

\* A name is a sequence of words and separators.
LEMMA NameFacts ==
  ASSUME NEW name \in Seq(STRING)
  PROVE  Len(name) \in Nat /\ DOMAIN name = 1 .. Len(name) /\ (name # <<>> => Len(name) # 0)
  OBVIOUS

\* What the assumption says of the compose file and the containers at hand.
LEMMA WorldFacts ==
  ASSUME NEW w \in Worlds
  PROVE  /\ \A s \in DOMAIN w.services : s \in Seq(STRING) /\ s # <<>>
         /\ \A c \in Range(w.containers) :
              c.name \in Seq(STRING) /\ c.of \in Seq(STRING) /\ c.of # <<>>
         /\ Len(w.containers) \in Nat
         /\ DOMAIN w.containers = 1 .. Len(w.containers)
         /\ IsFiniteSet(DOMAIN w.services)
  <1>1. \A s \in DOMAIN w.services : s \in Seq(STRING) /\ s # <<>>
    BY WorldsAssumption, Zenon
  <1>2. \A c \in Range(w.containers) :
          c.name \in Seq(STRING) /\ c.of \in Seq(STRING) /\ c.of # <<>>
    BY WorldsAssumption, Zenon
  <1>3. w.containers \in Seq(Range(w.containers)) /\ IsFiniteSet(DOMAIN w.services)
    BY WorldsAssumption, Zenon
  <1>. DEFINE list == w.containers
  <1>4. Len(list) \in Nat /\ DOMAIN list = 1 .. Len(list)
    <2>1. PICK S : list \in Seq(S)
      BY <1>3
    <2>. HIDE DEF list
    <2>. QED
      BY <2>1
  <1>. QED
    BY <1>1, <1>2, <1>3, <1>4

-----------------------------------------------------------------------------
\* A container is recognised as one of its own service.
LEMMA OwnServiceOnly ==
  ASSUME NEW w \in Worlds, PlainNames(w), NEW c \in Range(w.containers),
         NEW s \in DOMAIN w.services
  PROVE  BelongsTo(c, s) <=> c.of = s
  <1>. DEFINE n == Len(c.name)
              marks == {k \in DOMAIN c.name : c.name[k] = "_"}
  <1>1. /\ c.name \in Seq(STRING) /\ n \in Nat /\ DOMAIN c.name = 1 .. n
        /\ c.of \in Seq(STRING) /\ c.of # <<>>
    BY WorldFacts, NameFacts
  <1>2. c.of = SubSeq(c.name, 3, n - 2) /\ marks = {2, n - 1}
    BY DEF PlainNames
  <1>. HIDE DEF n, marks
  <1>3. 3 <= n - 2
    <2>1. SUFFICES ASSUME n - 2 < 3 PROVE FALSE
      BY <1>1
    <2>2. SubSeq(c.name, 3, n - 2) = <<>>
      BY <1>1, <2>1 DEF n
    <2>. QED
      BY <1>1, <1>2, <2>2
  <1>4. Min(marks) = 2
    BY <1>1, <1>2, <1>3 DEF Min
  <1>5. marks \ {Min(marks)} = {n - 1} /\ n - 1 \in Int
    BY <1>1, <1>2, <1>3, <1>4
  <1>6. Min({n - 1}) = n - 1
    BY <1>5 DEF Min
  <1>7. BelongsTo(c, s) <=> s = SubSeq(c.name, 2 + 1, (n - 1) - 1)
    BY <1>2, <1>4, <1>5, <1>6 DEF BelongsTo, marks, n
  <1>8. 2 + 1 = 3 /\ (n - 1) - 1 = n - 2
    BY <1>1
  <1>. QED
    BY <1>2, <1>7, <1>8

\* So the containers found for a service are those of it.
LEMMA ContainersAreRunning ==
  ASSUME NEW w \in Worlds, PlainNames(w), NEW s \in DOMAIN w.services
  PROVE  /\ {w.containers[k] : k \in ContainersOf(w, s)} = Running(w, s)
         /\ IF Running(w, s) = {} THEN FirstContainer(w, s) = NotFound
            ELSE FirstContainer(w, s) \in Running(w, s)
  <1>1. \A k \in DOMAIN w.containers :
          w.containers[k] \in Range(w.containers)
    BY DEF Range
  <1>2. ContainersOf(w, s) = {k \in DOMAIN w.containers : w.containers[k].of = s}
    BY <1>1, OwnServiceOnly DEF ContainersOf
  <1>3. {w.containers[k] : k \in ContainersOf(w, s)} = Running(w, s)
    BY <1>2 DEF Running, Range
  <1>4. CASE ContainersOf(w, s) = {}
    BY <1>3, <1>4 DEF FirstContainer
  <1>5. CASE ContainersOf(w, s) # {}
    <2>1. ContainersOf(w, s) \in SUBSET Nat
      <3>1. DOMAIN w.containers \subseteq Nat
        BY WorldFacts
      <3>. QED
        BY <1>2, <3>1
    <2>2. Min(ContainersOf(w, s)) \in ContainersOf(w, s)
      BY <1>5, <2>1, MinIsLeast
    <2>3. FirstContainer(w, s) \in {w.containers[k] : k \in ContainersOf(w, s)}
      BY <1>5, <2>2 DEF FirstContainer
    <2>. QED
      BY <1>3, <2>3
  <1>. QED
    BY <1>3, <1>4, <1>5

\* The placeholder is not a container.
LEMMA NotFoundIsNone ==
  ASSUME NEW w, PlainNames(w)
  PROVE  NotFound \notin Range(w.containers)
  <1>1. NotFound.name = <<>>
    BY DEF NotFound
  <1>2. {k \in DOMAIN <<>> : <<>>[k] = "_"} = {}
    OBVIOUS
  <1>. QED
    BY <1>1, <1>2 DEF PlainNames

-----------------------------------------------------------------------------
\* The patterns cut a name before its last word, if there is a separator other than
\* an underscore, and something before that.
Variant(m) == Len(m) >= 3 /\ m[Len(m) - 1] \in {"-", "."} /\ m[Len(m)] \notin {"-", "."}

\* What the two lemmas need to know of positions in a name.
LEMMA Positions ==
  ASSUME NEW n \in Nat, NEW k \in 2 .. n - 1
  PROVE  /\ n >= 3 /\ n \in k + 1 .. n /\ k \in 1 .. n
         /\ k # n - 1 =>
              /\ k + 1 \in k + 1 .. n /\ k + 2 \in k + 1 .. n
              /\ k + 2 \in 2 .. n /\ (k + 2) - 1 = k + 1
  OBVIOUS

\* Every position but the first has one before it.
LEMMA Before ==
  ASSUME NEW n \in Nat
  PROVE  \A k \in 2 .. n : k - 1 \in 1 .. n /\ k \in 1 .. n
  OBVIOUS

\* A pattern can cut a name only before its last word: two words are not adjacent,
\* and \w+ reaches to the end.
LEMMA PlainCuts ==
  ASSUME NEW m, NEW n \in Nat, Len(m) = n,
         \A k \in 1 .. n : m[k] # "_",
         \A k \in 2 .. n : m[k - 1] \in {"-", "."} \/ m[k] \in {"-", "."},
         NEW separators
  PROVE  \A k \in Cuts(m, separators) :
           k = n - 1 /\ n >= 3 /\ m[k] \in separators /\ m[n] \notin {"-", "."} /\ m[k] # "_"
  <1>1. TAKE k \in Cuts(m, separators)
  <1>2. k \in 2 .. n - 1 /\ m[k] \in separators /\ \A j \in k + 1 .. n : m[j] \notin {"-", "."}
    BY <1>1 DEF Cuts
  <1>3. /\ n >= 3 /\ n \in k + 1 .. n /\ k \in 1 .. n
        /\ k # n - 1 =>
             /\ k + 1 \in k + 1 .. n /\ k + 2 \in k + 1 .. n
             /\ k + 2 \in 2 .. n /\ (k + 2) - 1 = k + 1
    BY <1>2, Positions, Zenon
  <1>4. CASE k # n - 1
    <2>1. m[k + 1] \notin {"-", "."} /\ m[k + 2] \notin {"-", "."}
      BY <1>2, <1>3, <1>4, Zenon
    <2>2. m[(k + 2) - 1] \in {"-", "."} \/ m[k + 2] \in {"-", "."}
      BY <1>3, <1>4, Zenon
    <2>. QED
      BY <1>3, <1>4, <2>1, <2>2, Zenon
  <1>. QED
    BY <1>2, <1>3, <1>4, Zenon

\* And there it does, when the separator is one of the pattern's.
LEMMA CutIsThere ==
  ASSUME NEW m, NEW n \in Nat, Len(m) = n, NEW separators, n >= 3,
         m[n - 1] \in separators, m[n] \notin {"-", "."}
  PROVE  n - 1 \in Cuts(m, separators)
  <1>1. n - 1 \in 2 .. n - 1
    OBVIOUS
  <1>2. \A j \in (n - 1) + 1 .. n : j = n
    OBVIOUS
  <1>. QED
    BY <1>1, <1>2 DEF Cuts

\* The cuts of the services of a compose file.
LEMMA CutsAre ==
  ASSUME NEW w \in Worlds, PlainNames(w), NEW m \in DOMAIN w.services,
         NEW separators \in SUBSET {"-", "_", "."}
  PROVE  Cuts(m, separators) =
           IF Variant(m) /\ m[Len(m) - 1] \in separators THEN {Len(m) - 1} ELSE {}
  <1>1. Len(m) \in Nat /\ DOMAIN m = 1 .. Len(m)
    BY WorldFacts, NameFacts
  <1>2. \A k \in 1 .. Len(m) : m[k] # "_"
    BY <1>1 DEF PlainNames
  <1>3. \A k \in 2 .. Len(m) : m[k - 1] \in {"-", "."} \/ m[k] \in {"-", "."}
    <2>1. \A k \in 2 .. Len(m) : m[k - 1] \in {"-", "_", "."} \/ m[k] \in {"-", "_", "."}
      BY WorldsAssumption, Zenon
    <2>2. \A k \in 2 .. Len(m) : k - 1 \in 1 .. Len(m) /\ k \in 1 .. Len(m)
      BY <1>1, Before, Zenon
    <2>. QED
      BY <1>2, <2>1, <2>2
  <1>4. \A k \in Cuts(m, separators) :
          /\ k = Len(m) - 1 /\ Len(m) >= 3 /\ m[k] \in separators
          /\ m[Len(m)] \notin {"-", "."} /\ m[k] # "_"
    BY <1>1, <1>2, <1>3, PlainCuts
  <1>5. Variant(m) /\ m[Len(m) - 1] \in separators => Len(m) - 1 \in Cuts(m, separators)
    BY <1>1, CutIsThere DEF Variant
  <1>6. \A k \in Cuts(m, separators) :
          Variant(m) /\ m[Len(m) - 1] \in separators /\ k = Len(m) - 1
    BY <1>4 DEF Variant
  <1>. QED
    BY <1>5, <1>6

\* So getBaseServiceName takes off the last word and its separator.
LEMMA BaseIs ==
  ASSUME NEW w \in Worlds, PlainNames(w), NEW m \in DOMAIN w.services
  PROVE  /\ CutsOf(m) # {} <=> Variant(m)
         /\ Variant(m) => BaseServiceName(m) = SubSeq(m, 1, Len(m) - 2)
  <1>1. m \in Seq(STRING) /\ Len(m) \in Nat
    BY WorldFacts, NameFacts
  <1>2. CutsOf(m) = IF Variant(m) THEN {Len(m) - 1} ELSE {}
    <2>1. Cuts(m, {"-", "_"}) =
            IF Variant(m) /\ m[Len(m) - 1] \in {"-", "_"} THEN {Len(m) - 1} ELSE {}
      BY CutsAre
    <2>2. Cuts(m, {"."}) =
            IF Variant(m) /\ m[Len(m) - 1] \in {"."} THEN {Len(m) - 1} ELSE {}
      BY CutsAre
    <2>3. Variant(m) => m[Len(m) - 1] \in {"-", "."}
      BY DEF Variant
    <2>. QED
      BY <2>1, <2>2, <2>3 DEF CutsOf
  <1>3. ASSUME Variant(m) PROVE BaseServiceName(m) = SubSeq(m, 1, Len(m) - 2)
    <2>1. Len(m) - 1 \in Int /\ (Len(m) - 1) - 1 = Len(m) - 2
      BY <1>1
    <2>2. Min({Len(m) - 1}) = Len(m) - 1
      BY <2>1 DEF Min
    <2>. QED
      BY <1>2, <1>3, <2>1, <2>2 DEF BaseServiceName
  <1>. QED
    BY <1>2, <1>3

\* The members of a group are the services named as it says.
LEMMA MembersAreVariants ==
  ASSUME NEW w \in Worlds, PlainNames(w), NEW b \in Seq(STRING), b # <<>>
  PROVE  Members(w, b) = Variants(w, b)
  <1>1. \A m \in DOMAIN w.services : m \in Members(w, b) <=> m \in Variants(w, b)
    <2>1. TAKE m \in DOMAIN w.services
    <2>2. m \in Seq(STRING) /\ Len(m) \in Nat /\ Len(b) \in Nat /\ Len(b) # 0
      BY WorldFacts, NameFacts
    <2>3. m \in Members(w, b) <=> Variant(m) /\ SubSeq(m, 1, Len(m) - 2) = b
      BY BaseIs DEF Members
    <2>4. ASSUME Variant(m) PROVE Len(SubSeq(m, 1, Len(m) - 2)) = Len(m) - 2
      <3>1. Len(m) >= 3
        BY <2>4 DEF Variant
      <3>. QED
        BY <2>2, <3>1
    <2>5. CASE Len(m) = Len(b) + 2
      <3>1. Len(m) >= 3 /\ Len(m) - 2 = Len(b) /\ Len(m) - 1 = Len(b) + 1
        BY <2>2, <2>5
      <3>. QED
        BY <2>3, <2>5, <3>1 DEF Variant, Variants
    <2>6. CASE Len(m) # Len(b) + 2
      <3>1. Len(m) - 2 # Len(b)
        BY <2>2, <2>6
      <3>. QED
        BY <2>3, <2>4, <2>6, <3>1 DEF Variants
    <2>. QED
      BY <2>5, <2>6
  <1>. QED
    BY <1>1 DEF Members, Variants

\* The name of a group is a name.
LEMMA BasesAreNames ==
  ASSUME NEW w \in Worlds, PlainNames(w), NEW b \in ServiceGroups(w)
  PROVE  b \in Seq(STRING) /\ b # <<>>
  <1>1. PICK m \in DOMAIN w.services : CutsOf(m) # {} /\ b = BaseServiceName(m)
    BY DEF ServiceGroups
  <1>2. Variant(m) /\ b = SubSeq(m, 1, Len(m) - 2)
    BY <1>1, BaseIs
  <1>3. m \in Seq(STRING) /\ Len(m) \in Nat /\ Len(m) >= 3
    BY <1>1, <1>2, WorldFacts, NameFacts DEF Variant
  <1>4. SubSeq(m, 1, Len(m) - 2) \in Seq(STRING) /\ Len(SubSeq(m, 1, Len(m) - 2)) = Len(m) - 2
    BY <1>3
  <1>5. Len(b) # 0
    <2>1. Len(b) = Len(m) - 2
      BY <1>2, <1>4, Zenon
    <2>. QED
      BY <1>3, <2>1
  <1>6. Len(<<>>) = 0
    OBVIOUS
  <1>7. b # <<>>
    BY <1>5, <1>6, Zenon
  <1>. QED
    BY <1>2, <1>4, <1>7, Zenon

\* What findNamedServiceGroups finds are the groups.
LEMMA GroupsAreFound ==
  ASSUME NEW w \in Worlds, PlainNames(w), NEW b \in Seq(STRING), b # <<>>
  PROVE  /\ IsFiniteSet(Group(w, b)) /\ Group(w, b) \in SUBSET DOMAIN w.services
         /\ b \in ServiceGroups(w) <=> Group(w, b) # {}
         /\ b \in ServiceGroups(w) => Members(w, b) = Group(w, b)
  <1>1. Members(w, b) = Variants(w, b) /\ Variants(w, b) \in SUBSET DOMAIN w.services
    BY MembersAreVariants DEF Variants
  <1>2. IsFiniteSet(Variants(w, b)) /\ Cardinality(Variants(w, b)) \in Nat
    BY <1>1, WorldFacts, FS_Subset, FS_CardinalityType
  <1>3. Cardinality(Variants(w, b)) = 0 <=> Variants(w, b) = {}
    BY <1>2, FS_EmptySet
  <1>4. b \in ServiceGroups(w) <=> Cardinality(Variants(w, b)) >= 2
    <2>1. ASSUME Variants(w, b) # {}
          PROVE  b \in {BaseServiceName(s) : s \in {x \in DOMAIN w.services : CutsOf(x) # {}}}
      <3>1. PICK m : m \in Members(w, b)
        BY <1>1, <2>1
      <3>. QED
        BY <3>1 DEF Members
    <2>2. Cardinality(Variants(w, b)) >= 2 => Variants(w, b) # {}
      BY <1>2, <1>3
    <2>. QED
      BY <1>1, <2>1, <2>2 DEF ServiceGroups
  <1>5. Group(w, b) = IF Cardinality(Variants(w, b)) >= 2 THEN Variants(w, b) ELSE {}
    BY <1>2 DEF Group
  <1>6. IsFiniteSet(Group(w, b)) /\ Group(w, b) \in SUBSET DOMAIN w.services
    BY <1>1, <1>2, <1>5, FS_EmptySet
  <1>7. Cardinality(Variants(w, b)) >= 2 => Variants(w, b) # {}
    BY <1>2, <1>3
  <1>. QED
    BY <1>1, <1>4, <1>5, <1>6, <1>7

\* No service is a member of the group named after it.
LEMMA NotOfItsGroup ==
  ASSUME NEW w \in Worlds, PlainNames(w), NEW s \in Seq(STRING), NEW m \in Group(w, s)
  PROVE  m # s
  <1>1. Len(m) = Len(s) + 2
    BY DEF Group, Variants
  <1>2. Len(s) \in Nat
    OBVIOUS
  <1>. QED
    BY <1>1, <1>2

OfScale(w, s) == IF Scaled(w, s) THEN {Replica("scale", s, c) : c \in Running(w, s)} ELSE {}
OfGroup(w, s) == {Replica("name", m, FirstContainer(w, m)) : m \in Group(w, s)}

\* The replicas the detectors find, in terms of the containers of the services, the
\* first in the world v and the second in w.
LEMMA ReplicasAre ==
  ASSUME NEW v \in Worlds, PlainNames(v), NEW w \in Worlds, PlainNames(w),
         NEW looks, looks.scale = v, looks.name = w, NEW s \in DOMAIN Detected(looks)
  PROVE  /\ s \in Seq(STRING) /\ s # <<>>
         /\ Scaled(v, s) \/ Group(w, s) # {}
         /\ Detected(looks)[s] = OfScale(v, s) \union OfGroup(w, s)
  <1>1. s \in DOMAIN ScaleBased(v) \union DOMAIN NameBased(w)
    BY DEF Detected
  <1>2. s \in DOMAIN ScaleBased(v) <=> Scaled(v, s)
    BY DEF ScaleBased, Scaled
  <1>3. s \in DOMAIN NameBased(w) <=> s \in ServiceGroups(w)
    BY DEF NameBased
  <1>4. s \in Seq(STRING) /\ s # <<>>
    <2>1. CASE Scaled(v, s)
      BY <2>1, WorldFacts DEF Scaled
    <2>2. CASE s \in ServiceGroups(w)
      BY <2>2, BasesAreNames
    <2>. QED
      BY <1>1, <1>2, <1>3, <2>1, <2>2
  <1>5. s \in ServiceGroups(w) <=> Group(w, s) # {}
    BY <1>4, GroupsAreFound
  <1>6. Scaled(v, s) \/ Group(w, s) # {}
    BY <1>1, <1>2, <1>3, <1>5
  <1>7. ReplicasIn(ScaleBased(v), s) = OfScale(v, s)
    <2>1. CASE Scaled(v, s)
      <3>1. s \in DOMAIN v.services
        BY <2>1 DEF Scaled
      <3>2. ScaleBased(v)[s] =
              {Replica("scale", s, v.containers[k]) : k \in ContainersOf(v, s)}
        BY <2>1 DEF ScaleBased, Scaled
      <3>3. {v.containers[k] : k \in ContainersOf(v, s)} = Running(v, s)
        BY <3>1, ContainersAreRunning
      <3>4. ScaleBased(v)[s] = {Replica("scale", s, c) : c \in Running(v, s)}
        BY <3>2, <3>3
      <3>. QED
        BY <1>2, <2>1, <3>4 DEF ReplicasIn, OfScale
    <2>2. CASE ~Scaled(v, s)
      BY <1>2, <2>2 DEF ReplicasIn, OfScale
    <2>. QED
      BY <2>1, <2>2
  <1>8. ReplicasIn(NameBased(w), s) = OfGroup(w, s)
    <2>1. CASE s \in ServiceGroups(w)
      <3>1. Members(w, s) = Group(w, s)
        BY <1>4, <2>1, GroupsAreFound
      <3>2. NameBased(w)[s] = OfGroup(w, s)
        BY <2>1, <3>1 DEF NameBased, OfGroup
      <3>. QED
        BY <1>3, <2>1, <3>2 DEF ReplicasIn
    <2>2. CASE s \notin ServiceGroups(w)
      BY <1>3, <1>5, <2>2 DEF ReplicasIn, OfGroup
    <2>. QED
      BY <2>1, <2>2
  <1>9. Detected(looks)[s] = OfScale(v, s) \union OfGroup(w, s)
    BY <1>1, <1>7, <1>8 DEF Detected, Appended
  <1>. QED
    BY <1>4, <1>6, <1>9

-----------------------------------------------------------------------------
\* What is counted.
CountOf(R, X) == Cardinality({r \in R : r.container \in X})

\* Where the containers of the replicas come from.
LEMMA ScaledFound ==
  ASSUME NEW w \in Worlds, PlainNames(w), NEW s
  PROVE  \A r \in OfScale(w, s) : r.container \in Running(w, s) /\ r.container # NotFound
  <1>1. NotFound \notin Running(w, s)
    BY NotFoundIsNone DEF Running
  <1>2. \A r \in OfScale(w, s) : r.container \in Running(w, s)
    BY DEF OfScale, Replica
  <1>. QED
    BY <1>1, <1>2

LEMMA MembersFound ==
  ASSUME NEW w \in Worlds, PlainNames(w), NEW s
  PROVE  \A m \in Group(w, s) : LET c == FirstContainer(w, m)
                                IN  IF Running(w, m) = {} THEN c = NotFound
                                    ELSE c \in Running(w, m) /\ c # NotFound
  <1>1. \A m : NotFound \notin Running(w, m)
    BY NotFoundIsNone DEF Running
  <1>2. \A m \in Group(w, s) : m \in DOMAIN w.services
    BY DEF Group, Variants
  <1>. QED
    BY <1>1, <1>2, ContainersAreRunning

\* A container of a scaled service is found by the first detector only.
LEMMA OncePerContainer ==
  ASSUME NEW v \in Worlds, PlainNames(v), NEW w \in Worlds, PlainNames(w),
         NEW s \in Seq(STRING), Scaled(v, s), NEW c \in Running(v, s)
  PROVE  CountOf(OfScale(v, s) \union OfGroup(w, s), {c}) = 1
  <1>1. c.of = s /\ c # NotFound
    BY NotFoundIsNone DEF Running
  <1>2. ASSUME NEW r \in OfGroup(w, s) PROVE r.container # c
    <2>1. PICK m \in Group(w, s) : r = Replica("name", m, FirstContainer(w, m))
      BY <1>2 DEF OfGroup
    <2>2. r.container = FirstContainer(w, m)
      BY <2>1 DEF Replica
    <2>3. r.container = NotFound \/ r.container.of = m
      BY <2>2, MembersFound DEF Running
    <2>. QED
      BY <1>1, <2>3, NotOfItsGroup
  <1>3. {r \in OfScale(v, s) \union OfGroup(w, s) : r.container \in {c}}
          = {Replica("scale", s, c)}
    <2>1. /\ Replica("scale", s, c) \in OfScale(v, s)
          /\ Replica("scale", s, c).container = c
      BY DEF OfScale, Replica
    <2>2. \A r \in OfScale(v, s) : r.container = c => r = Replica("scale", s, c)
      BY DEF OfScale, Replica
    <2>. QED
      BY <1>2, <2>1, <2>2
  <1>. QED
    BY <1>3, FS_Singleton DEF CountOf

\* A service of a group that has containers is found once.
LEMMA OncePerMember ==
  ASSUME NEW v \in Worlds, PlainNames(v), NEW w \in Worlds, PlainNames(w),
         NEW s \in Seq(STRING), NEW m \in Group(w, s), Running(w, m) # {}
  PROVE  CountOf(OfScale(v, s) \union OfGroup(w, s), Running(w, m)) = 1
  <1>. DEFINE it == Replica("name", m, FirstContainer(w, m))
  <1>1. \A c \in Running(w, m) : c.of = m /\ c # NotFound
    BY NotFoundIsNone DEF Running
  <1>2. \A r \in OfScale(v, s) : r.container \notin Running(w, m)
    BY <1>1, ScaledFound, NotOfItsGroup DEF Running
  <1>3. ASSUME NEW r \in OfGroup(w, s), r.container \in Running(w, m) PROVE r = it
    <2>1. PICK x \in Group(w, s) : r = Replica("name", x, FirstContainer(w, x))
      BY <1>3 DEF OfGroup
    <2>2. r.container = FirstContainer(w, x)
      BY <2>1 DEF Replica
    <2>3. r.container = NotFound \/ r.container.of = x
      BY <2>2, MembersFound DEF Running
    <2>4. x = m
      BY <1>1, <1>3, <2>3
    <2>. QED
      BY <2>1, <2>4
  <1>4. it \in OfGroup(w, s) /\ it.container \in Running(w, m)
    BY MembersFound DEF OfGroup, Replica
  <1>5. {r \in OfScale(v, s) \union OfGroup(w, s) : r.container \in Running(w, m)} = {it}
    <2>. HIDE DEF it
    <2>. QED
      BY <1>2, <1>3, <1>4
  <1>. QED
    BY <1>5, FS_Singleton DEF CountOf

\* And those that have none have a placeholder each.
LEMMA Placeholders ==
  ASSUME NEW v \in Worlds, PlainNames(v), NEW w \in Worlds, PlainNames(w),
         NEW s \in Seq(STRING), s # <<>>
  PROVE  CountOf(OfScale(v, s) \union OfGroup(w, s), {NotFound})
           = Cardinality({m \in Group(w, s) : Running(w, m) = {}})
  <1>. DEFINE E == {m \in Group(w, s) : Running(w, m) = {}}
              T == {r \in OfScale(v, s) \union OfGroup(w, s) : r.container \in {NotFound}}
              f == [m \in E |-> Replica("name", m, NotFound)]
  <1>1. IsFiniteSet(E)
    BY GroupsAreFound, FS_Subset
  <1>2. f \in [E -> T]
    <2>1. SUFFICES ASSUME NEW m \in E PROVE Replica("name", m, NotFound) \in T
      OBVIOUS
    <2>2. FirstContainer(w, m) = NotFound
      BY MembersFound
    <2>. QED
      BY <2>2 DEF OfGroup, Replica
  <1>3. \A a, b \in E : f[a] = f[b] => a = b
    BY DEF Replica
  <1>4. \A r \in T : \E m \in E : f[m] = r
    <2>1. TAKE r \in T
    <2>2. r \in OfGroup(w, s) /\ r.container = NotFound
      BY <2>1, ScaledFound
    <2>3. PICK m \in Group(w, s) : r = Replica("name", m, FirstContainer(w, m))
      BY <2>2 DEF OfGroup
    <2>4. FirstContainer(w, m) = NotFound
      BY <2>2, <2>3 DEF Replica
    <2>5. Running(w, m) = {}
      BY <2>4, MembersFound
    <2>. QED
      BY <2>3, <2>4, <2>5
  <1>5. f \in Bijection(E, T)
    <2>. HIDE DEF E, T, f
    <2>. QED
      BY <1>2, <1>3, <1>4, Fun_IsBij
  <1>6. Cardinality(T) = Cardinality(E)
    <2>. HIDE DEF E, T, f
    <2>. QED
      BY <1>1, <1>5, FS_Bijection DEF ExistsBijection
  <1>. QED
    BY <1>6 DEF CountOf

\* Whatever the detectors met, the cache has what is there.
LEMMA KeptIsTrue == Kept => CacheIsTrue
  <1>. DEFINE v == seen.scale
              w == seen.name
  <1>. SUFFICES ASSUME Kept, PlainNames(v), PlainNames(w), cache # <<>> PROVE CacheIsTrue
    BY DEF CacheIsTrue
  <1>1. v \in Worlds /\ w \in Worlds /\ cache = Detected(seen)
    BY DEF Kept, Sights
  <1>2. \A s \in DOMAIN v.services : Scaled(v, s) => s \in DOMAIN cache
    BY <1>1 DEF Detected, ScaleBased, Scaled
  <1>3. ASSUME NEW s \in DOMAIN cache
        PROVE  /\ Scaled(v, s) \/ Group(w, s) # {}
               /\ Scaled(v, s) => \A c \in Running(v, s) : CountOf(cache[s], {c}) = 1
               /\ \A m \in Group(w, s) :
                    Running(w, m) # {} => CountOf(cache[s], Running(w, m)) = 1
               /\ CountOf(cache[s], {NotFound}) =
                    Cardinality({m \in Group(w, s) : Running(w, m) = {}})
               /\ \A r \in cache[s] :
                    \/ r.container = NotFound
                    \/ Scaled(v, s) /\ r.container \in Running(v, s)
                    \/ \E m \in Group(w, s) : r.container \in Running(w, m)
    <2>1. /\ s \in Seq(STRING) /\ s # <<>> /\ (Scaled(v, s) \/ Group(w, s) # {})
          /\ cache[s] = OfScale(v, s) \union OfGroup(w, s)
      <3>1. s \in DOMAIN Detected(seen)
        BY <1>1, <1>3
      <3>. QED
        BY <1>1, <3>1, ReplicasAre
    <2>. HIDE DEF v, w
    <2>2. ASSUME Scaled(v, s), NEW c \in Running(v, s) PROVE CountOf(cache[s], {c}) = 1
      BY <1>1, <2>1, <2>2, OncePerContainer
    <2>3. \A m \in Group(w, s) : Running(w, m) # {} => CountOf(cache[s], Running(w, m)) = 1
      BY <1>1, <2>1, OncePerMember
    <2>4. CountOf(cache[s], {NotFound}) = Cardinality({m \in Group(w, s) : Running(w, m) = {}})
      BY <1>1, <2>1, Placeholders
    <2>5. ASSUME NEW r \in cache[s]
          PROVE  \/ r.container = NotFound
                 \/ Scaled(v, s) /\ r.container \in Running(v, s)
                 \/ \E m \in Group(w, s) : r.container \in Running(w, m)
      <3>1. CASE r \in OfScale(v, s)
        BY <1>1, <3>1, ScaledFound DEF OfScale
      <3>2. CASE r \in OfGroup(w, s)
        <4>1. PICK m \in Group(w, s) : r = Replica("name", m, FirstContainer(w, m))
          BY <3>2 DEF OfGroup
        <4>2. r.container = FirstContainer(w, m)
          BY <4>1 DEF Replica
        <4>. QED
          BY <1>1, <4>2, MembersFound
      <3>. QED
        BY <2>1, <2>5, <3>1, <3>2
    <2>. QED
      BY <2>1, <2>2, <2>3, <2>4, <2>5
  <1>. QED
    BY <1>2, <1>3 DEF CacheIsTrue, CountOf

\* As long as names have the form that the patterns are made for, the map of replicas
\* has each container that the detector of its kind met under its service, once, and
\* no other: for any number of services, names and containers, and any two moments.
THEOREM CacheHolds == Spec => []CacheIsTrue
  <1>1. Init => Kept
    BY DEF Init, Kept
  <1>. QED
    BY <1>1, NextKeepsKept, KeptIsTrue, PTL DEF Spec

-----------------------------------------------------------------------------
(***************************************************************************)
(* The type invariant: what is listed is a number, and the verification     *)
(* stays within it.                                                        *)
(***************************************************************************)
\* What is made of each element of a finite set is a finite set.
LEMMA ImageIsFinite ==
  ASSUME NEW S, IsFiniteSet(S), NEW f, DOMAIN f = S
  PROVE  IsFiniteSet({f[x] : x \in S})
  <1>. DEFINE T == {f[x] : x \in S}
              g == [x \in S |-> f[x]]
  <1>1. g \in [S -> T] /\ \A y \in T : \E x \in S : g[x] = y
    OBVIOUS
  <1>2. g \in Surjection(S, T)
    <2>. HIDE DEF g, T
    <2>. QED
      BY <1>1, Fun_IsSurj
  <1>3. IsFiniteSet(T)
    <2>. HIDE DEF g, T
    <2>. QED
      BY <1>2, FS_Surjection
  <1>. QED
    BY <1>3

LEMMA FoundAreFinite ==
  ASSUME seen \in Sights, NEW s \in DOMAIN Detected(seen)
  PROVE  IsFiniteSet(Detected(seen)[s])
  <1>. DEFINE v == seen.scale
              w == seen.name
  <1>. v \in Worlds /\ w \in Worlds
    BY DEF Sights
  <1>1. IsFiniteSet(ReplicasIn(ScaleBased(v), s))
    <2>1. CASE s \in DOMAIN ScaleBased(v)
      <3>. DEFINE K == ContainersOf(v, s)
                  f == [k \in K |-> Replica("scale", s, v.containers[k])]
      <3>1. IsFiniteSet(K)
        <4>1. IsFiniteSet(1 .. Len(v.containers))
          BY WorldFacts, FS_Interval
        <4>2. K \in SUBSET (1 .. Len(v.containers))
          BY WorldFacts DEF ContainersOf
        <4>. QED
          BY <4>1, <4>2, FS_Subset
      <3>2. ScaleBased(v)[s] = {f[k] : k \in K}
        BY <2>1 DEF ScaleBased
      <3>3. IsFiniteSet({f[k] : k \in K})
        <4>1. DOMAIN f = K
          OBVIOUS
        <4>. HIDE DEF f, K
        <4>. QED
          BY <3>1, <4>1, ImageIsFinite
      <3>. QED
        BY <2>1, <3>2, <3>3 DEF ReplicasIn
    <2>2. CASE s \notin DOMAIN ScaleBased(v)
      BY <2>2, FS_EmptySet DEF ReplicasIn
    <2>. QED
      BY <2>1, <2>2
  <1>2. IsFiniteSet(ReplicasIn(NameBased(w), s))
    <2>1. CASE s \in DOMAIN NameBased(w)
      <3>. DEFINE K == Members(w, s)
                  f == [m \in K |-> Replica("name", m, FirstContainer(w, m))]
      <3>1. IsFiniteSet(K)
        BY WorldFacts, FS_Subset DEF Members
      <3>2. NameBased(w)[s] = {f[m] : m \in K}
        BY <2>1 DEF NameBased
      <3>3. IsFiniteSet({f[m] : m \in K})
        <4>1. DOMAIN f = K
          OBVIOUS
        <4>. HIDE DEF f, K
        <4>. QED
          BY <3>1, <4>1, ImageIsFinite
      <3>. QED
        BY <2>1, <3>2, <3>3 DEF ReplicasIn
    <2>2. CASE s \notin DOMAIN NameBased(w)
      BY <2>2, FS_EmptySet DEF ReplicasIn
    <2>. QED
      BY <2>1, <2>2
  <1>3. Detected(seen)[s] = ReplicasIn(ScaleBased(v), s) \union ReplicasIn(NameBased(w), s)
    BY DEF Detected, Appended
  <1>. QED
    BY <1>1, <1>2, <1>3, FS_Union

\* So what is listed of a service is a number of replicas.
Counted == \A s : LenOf(cache, s) \in Nat

LEMMA ListedIsNumber == Kept => Counted
  <1>. SUFFICES ASSUME Kept, NEW s PROVE LenOf(cache, s) \in Nat
    BY DEF Counted
  <1>1. CASE s \in DOMAIN cache
    <2>1. cache # <<>> /\ cache = Detected(seen) /\ seen \in Sights
      BY <1>1 DEF Kept
    <2>2. IsFiniteSet(cache[s])
      BY <1>1, <2>1, FoundAreFinite
    <2>. QED
      BY <1>1, <2>2, FS_CardinalityType DEF LenOf, ReplicasIn
  <1>2. CASE s \notin DOMAIN cache
    BY <1>2, FS_EmptySet DEF LenOf, ReplicasIn
  <1>. QED
    BY <1>1, <1>2

Turn ==
  /\ op \in {"update", "rollback", "version"}
  /\ pc \in {"start", "exists", "order", "list", "execute", "relist", "verify",
             "recheck", "refresh", "present", "history", "announce", "restore",
             "healthy", "complete", "done"}
  /\ from \in {"caller", "list", "execute", "relist", "verify"}
  /\ listed \in Nat /\ replica \in 1 .. listed + 1
  /\ attempt \in 0 .. MaxRetries

Tales ==
  /\ recorded \subseteq Events \X Services /\ notified \subseteq Events \X Services
  /\ outcome \in {"none", "nil", "error"}

\* A recovery called for a replica that failed has that replica at hand, and any other
\* is before the verification.
AtHand ==
  /\ pc \in {"start", "exists", "order", "list", "execute", "relist"} => replica = 1
  /\ pc \in Recovering => IF from = "verify" THEN replica <= listed ELSE replica = 1

LEMMA NextServiceKeepsTurn ==
  ASSUME Turn, AtHand, NextService, UNCHANGED <<op, from>>
  PROVE  Turn' /\ AtHand'
  BY DEF Turn, AtHand, NextService, MaxRetries, Recovering

LEMMA RecoveredKeepsTurn ==
  ASSUME Turn, AtHand, Recovered, pc \in Recovering, UNCHANGED <<op, from>>
  PROVE  Turn' /\ AtHand'
  <1>1. CASE NextService
    BY <1>1, NextServiceKeepsTurn
  <1>2. CASE /\ from \in {"list", "execute"} /\ pc' \in {"execute", "relist"}
             /\ UNCHANGED <<i, replica, listed, attempt>>
    BY <1>2 DEF Turn, AtHand, Recovering
  <1>3. CASE /\ from = "verify" /\ pc' = "verify" /\ replica' = replica + 1
             /\ UNCHANGED <<i, listed, attempt>>
    BY <1>3 DEF Turn, AtHand, Recovering
  <1>. QED
    BY <1>1, <1>2, <1>3 DEF Recovered

LEMMA UpdateKeepsTurn ==
  ASSUME Turn, AtHand, Counted', Update
  PROVE  Turn' /\ AtHand'
  <1>1. CASE \/ RecordStart \/ ServiceExists \/ ServiceMissing \/ GetUpdateOrder
             \/ NoUpdateOrder \/ Completed \/ NotCompleted
    BY <1>1
    DEF Turn, AtHand, Recovering, RecordStart, ServiceExists, ServiceMissing,
        GetUpdateOrder, NoUpdateOrder, Completed, NotCompleted, FailFor, Return
  <1>2. CASE ListReplicas \/ ListUpdatedReplicas
    BY <1>2
    DEF Counted, Turn, AtHand, Recovering, ListReplicas, ListUpdatedReplicas, Recover
  <1>3. CASE ExecuteStrategy
    BY <1>3 DEF Turn, AtHand, Recovering, ExecuteStrategy, Recover
  <1>4. CASE Verify
    BY <1>4 DEF Turn, AtHand, Recovering, Verify, Recover, MaxRetries
  <1>5. CASE ServiceDone
    BY <1>5, NextServiceKeepsTurn DEF ServiceDone
  <1>. QED
    BY <1>1, <1>2, <1>3, <1>4, <1>5 DEF Update

LEMMA RollbackFailedKeepsTurn ==
  ASSUME Turn, AtHand, RollbackFailed, UNCHANGED <<op, from>>
  PROVE  Turn' /\ AtHand'
  BY DEF Turn, AtHand, Recovering, RollbackFailed, FailFor, Return

LEMMA HandlerKeepsTurn ==
  ASSUME Turn, AtHand, HandleError \/ Rollback
  PROVE  Turn' /\ AtHand'
  <1>1. CASE HealthyAgain \/ Refreshed \/ (RollbackHealthy /\ from # "caller")
    BY <1>1, RecoveredKeepsTurn DEF HealthyAgain, Refreshed, RollbackHealthy, Recovering
  <1>2. CASE RollbackHealthy /\ from = "caller"
    BY <1>2 DEF Turn, AtHand, Recovering, RollbackHealthy, Return
  <1>3. CASE \/ StillUnhealthy \/ PersistentlyUnhealthy \/ NotRefreshed
             \/ RollbackPresent \/ AnnounceRollback
    BY <1>3
    DEF Turn, AtHand, Recovering, StillUnhealthy, PersistentlyUnhealthy, NotRefreshed,
        RollbackPresent, AnnounceRollback, MaxRetries
  <1>4. CASE RollbackAbsent \/ RollbackUnhealthy
    BY <1>4, RollbackFailedKeepsTurn DEF RollbackAbsent, RollbackUnhealthy
  <1>5. CASE RollbackHistory \/ Restore
    BY <1>5, RollbackFailedKeepsTurn
    DEF Turn, AtHand, Recovering, RollbackHistory, Restore
  <1>. QED
    BY <1>1, <1>2, <1>3, <1>4, <1>5 DEF HandleError, Rollback

\* The calls made of the collector and the notifiers are about services of the walk.
LEMMA NextKeepsTales ==
  ASSUME Walk, Tales, [Next]_vars
  PROVE  Tales'
  <1>1. svc \in Services /\ Service \in Services
    BY ServiceAtHand DEF Walk, Services
  <1>2. \A e \in Events, s \in {svc, Service} : <<e, s>> \in Events \X Services
    BY <1>1
  <1>. DEFINE calls == {<<e, s>> : e \in Events, s \in {svc, Service}}
  <1>3. \A e \in {"start", "success", "failure", "rollback"}, s \in {svc, Service} :
          <<e, s>> \in calls
    BY DEF Events
  <1>4. /\ recorded' = recorded \/ \E c \in calls : recorded' = recorded \union {c}
        /\ notified' = notified \/ \E c \in calls : notified' = notified \union {c}
        /\ outcome' \in {outcome, "nil", "error"}
    <2>. HIDE DEF calls
    <2>1. CASE UNCHANGED vars
      BY <2>1 DEF vars, reports
    <2>2. CASE Update
      BY <1>3, <2>2
      DEF Update, RecordStart, ServiceExists, ServiceMissing, GetUpdateOrder,
          NoUpdateOrder, ListReplicas, ExecuteStrategy, ListUpdatedReplicas, Verify,
          ServiceDone, Completed, NotCompleted, FailFor, Reports, Return, reports
    <2>3. CASE HandleError
      BY <2>3
      DEF HandleError, HealthyAgain, StillUnhealthy, PersistentlyUnhealthy, Refreshed,
          NotRefreshed, reports
    <2>4. CASE Rollback
      BY <1>3, <2>4
      DEF Rollback, RollbackPresent, RollbackAbsent, RollbackHistory, AnnounceRollback,
          Restore, RollbackHealthy, RollbackUnhealthy, RollbackFailed, FailFor, Reports,
          Return, reports
    <2>. QED
      BY <2>1, <2>2, <2>3, <2>4 DEF Next, Step, Returned
  <1>5. \A c \in calls : c \in Events \X Services
    <2>1. TAKE c \in calls
    <2>2. PICK e \in Events, s \in {svc, Service} : c = <<e, s>>
      BY <2>1
    <2>. HIDE DEF calls
    <2>. QED
      BY <1>2, <2>2, Zenon
  <1>. QED
    <2>. HIDE DEF calls
    <2>. QED
      BY <1>4, <1>5 DEF Tales

\* The variables have their types, whatever the detectors find.
THEOREM TypeCorrect == Spec => []TypeOK
  <1>1. Init => Kept /\ Turn /\ AtHand /\ Tales
    BY DEF Init, Kept, Turn, AtHand, Tales, MaxRetries, Recovering
  <1>2. Turn /\ AtHand /\ Counted' /\ [Next]_vars => Turn' /\ AtHand'
    <2>. SUFFICES ASSUME Turn, AtHand, Counted', [Next]_vars PROVE Turn' /\ AtHand'
      OBVIOUS
    <2>1. CASE UNCHANGED vars
      BY <2>1 DEF vars, control, Turn, AtHand
    <2>. QED
      BY <2>1, UpdateKeepsTurn, HandlerKeepsTurn DEF Next, Step, Returned
  <1>3. Walk /\ Tales /\ [Next]_vars => Tales'
    BY NextKeepsTales
  <1>4. Walk /\ Kept /\ Turn /\ Tales => TypeOK
    BY ServiceAtHand DEF Walk, Position, Kept, Turn, Tales, TypeOK
  <1>. QED
    BY <1>1, <1>2, <1>3, <1>4, NextKeepsKept, ListedIsNumber, WalkHolds, PTL DEF Spec
================================================================================
