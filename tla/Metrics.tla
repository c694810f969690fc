--------------------------------- MODULE Metrics ---------------------------------
(***************************************************************************)
(* The deployment records (internal/metrics): the collector with its map   *)
(* of deployments in progress, the SQL statements of the DAO, and the       *)
(* prunings that the retention manager starts beside them.  A statement is  *)
(* one step, a transaction too: the pool has a single connection, and what  *)
(* two statements of one function leave between them others can see.       *)
(*                                                                         *)
(* Each service is deployed by a goroutine of its own, which records a      *)
(* start and then one verdict, and rollbacks at any time.  A service that   *)
(* another one depends on may have a failure recorded without a start, for  *)
(* the version "" (NoVersion): that is what the manager passes.             *)
(*                                                                         *)
(* Rows are numbered in the order of their start times.  A file has room    *)
(* for some number of rows; deleting rows leaves it as large as it is.      *)
(***************************************************************************)
EXTENDS Naturals, FiniteSets, Functions

CONSTANTS
  Services, Versions, NoVersion,
  Pruners,     \* the prunings that may be under way at a time
  ByAge,       \* MaxAge > 0
  MaxRecords,  \* MaxRecordsPerService
  MaxSize,     \* MaxDatabaseSize, in rows
  BatchSize,   \* rows of the first batch of PruneByDatabaseSize
  MaxId,       \* bound: rows ever inserted
  MaxFaults    \* bound: statements that fail

ASSUME VersionsAssumption == NoVersion \notin Versions
ASSUME LimitsAssumption ==
  /\ ByAge \in BOOLEAN /\ MaxRecords \in Nat /\ MaxSize \in Nat
  /\ BatchSize \in Nat \ {0} /\ MaxId \in Nat /\ MaxFaults \in Nat

VARIABLES
  rows,       \* deployment_records: a function of the ids there are
  lastId,     \* the sequence AUTOINCREMENT draws from
  size,       \* number of rows the database file has room for
  tracked,    \* c.deployments
  call,       \* the call of the collector under way for each service
  pruner,     \* the prunings; seen is history: the last id when keep was selected
  faults,
  deploying,  \* history: the version whose verdict is still due
  astray      \* history: the start of that deployment could not be recorded

table == <<rows, lastId, size>>
vars  == <<table, tracked, call, pruner, faults, deploying, astray>>

Ids      == 1 .. MaxId
Verdicts == {"open", "success", "failure"}
Row == [service: Services, version: Versions \union {NoVersion},
        verdict: Verdicts, end: Nat, rollback: BOOLEAN]

Nothing == [id |-> 0, version |-> NoVersion]
Info    == [id: Ids, version: Versions] \union {Nothing}

Idle == [do |-> "idle", id |-> 0, version |-> NoVersion, verdict |-> "open"]
Call == [do: {"track", "finish"}, id: Ids, version: Versions \union {NoVersion},
         verdict: Verdicts] \union {Idle}

Resting == [do |-> "rest", todo |-> {}, of |-> {}, keep |-> {},
            seen |-> 0, batch |-> 0]
Pruning == [do: {"count", "delete", "shrink", "vacuum"},
            todo: SUBSET Services, of: SUBSET Services, keep: SUBSET Ids,
            seen: 0 .. MaxId, batch: Nat]

TypeOK ==
  /\ DOMAIN rows \subseteq 1 .. lastId /\ \A i \in DOMAIN rows : rows[i] \in Row
  /\ lastId \in 0 .. MaxId
  /\ size \in Nat /\ Cardinality(DOMAIN rows) <= size
  /\ tracked \in [Services -> Info]
  /\ call \in [Services -> Call]
  /\ pruner \in [Pruners -> Pruning \union {Resting}]
  /\ faults \in 0 .. MaxFaults
  /\ deploying \in [Services -> Versions \union {NoVersion}]
  /\ astray \in [Services -> BOOLEAN]

Init ==
  /\ rows = [i \in {} |-> Nothing] /\ lastId = 0 /\ size = 0
  /\ tracked = [s \in Services |-> Nothing]
  /\ call = [s \in Services |-> Idle]
  /\ pruner = [p \in Pruners |-> Resting]
  /\ faults = 0
  /\ deploying = [s \in Services |-> NoVersion]
  /\ astray = [s \in Services |-> FALSE]

-----------------------------------------------------------------------------
(***************************************************************************)
(* The statements.                                                         *)
(***************************************************************************)
\* A statement that returns an error changes nothing.
StatementFails == faults < MaxFaults /\ faults' = faults + 1

AtLeast(k, m) == IF k < m THEN m ELSE k

\* The end time of a row that ends now: later than those of the rows there are.
Now == 1 + CHOOSE n \in {0} \union {rows[i].end : i \in DOMAIN rows} :
             \A i \in DOMAIN rows : rows[i].end <= n

\* INSERT: the new row under the next id, in a file that grows if it must.
Insert(row) ==
  /\ lastId < MaxId /\ lastId' = lastId + 1
  /\ rows' = [i \in DOMAIN rows \union {lastId + 1} |->
                IF i = lastId + 1 THEN row ELSE rows[i]]
  /\ size' = AtLeast(size, Cardinality(DOMAIN rows) + 1)

Started(s, v) ==
  [service |-> s, version |-> v, verdict |-> "open", end |-> 0, rollback |-> FALSE]

\* DELETE.
Delete(X) == rows' = Restrict(rows, DOMAIN rows \ X)

RowsOf(s) == {i \in DOMAIN rows : rows[i].service = s}

\* ORDER BY start_time ... LIMIT k.
Newest(S, k) == {i \in S : Cardinality({j \in S : j > i}) < k}
Oldest(S, k) == {i \in S : Cardinality({j \in S : j < i}) < k}

-----------------------------------------------------------------------------
(***************************************************************************)
(* The collector.                                                          *)
(***************************************************************************)
Becomes(s, c) == call' = [call EXCEPT ![s] = c]
Returns(s)    == Becomes(s, Idle)

\* RecordDeploymentStart: the row, and then the entry of the map.
RecordDeploymentStart(s) ==
  /\ call[s] = Idle
  /\ \E v \in Versions :
       /\ deploying' = [deploying EXCEPT ![s] = v]
       /\ \/ /\ Insert(Started(s, v))
             /\ Becomes(s, [do |-> "track", id |-> lastId', version |-> v,
                            verdict |-> "open"])
             /\ UNCHANGED <<astray, faults>>
          \/ /\ StatementFails /\ astray' = [astray EXCEPT ![s] = TRUE]
             /\ UNCHANGED <<rows, lastId, size, call>>
  /\ UNCHANGED <<tracked, pruner>>

\* Slip: the entry of an earlier deployment is not overwritten.
EntryKept(s, info) == IF tracked[s] = Nothing THEN info ELSE tracked[s]

EntryOf(s, info) == info

TrackDeployment(s) ==
  /\ call[s].do = "track"
  /\ tracked' = [tracked EXCEPT ![s] =
                   EntryOf(s, [id |-> call[s].id, version |-> call[s].version])]
  /\ astray' = [astray EXCEPT ![s] = FALSE]
  /\ Returns(s)
  /\ UNCHANGED <<table, pruner, faults, deploying>>

\* Slip: the version is not compared.
AnyInProgress(s, v) == tracked[s] # Nothing

\* exists && info.Version == version
InProgress(s, v) == tracked[s] # Nothing /\ tracked[s].version = v

\* The verdict of the deployment under way has been given, recorded or not.
Answered(s, v) ==
  deploying' = IF v = deploying[s] THEN [deploying EXCEPT ![s] = NoVersion]
               ELSE deploying

\* A verdict first needs its row: the one in progress, or a new one.
FinishLater(s, id, v, verdict) ==
  Becomes(s, [do |-> "finish", id |-> id, version |-> v, verdict |-> verdict])

UseRowInProgress(s, v, verdict) ==
  /\ InProgress(s, v)
  /\ FinishLater(s, tracked[s].id, v, verdict)
  /\ UNCHANGED <<rows, lastId, size, faults, deploying>>

UseNewRow(s, v, verdict) ==
  \/ /\ Insert(Started(s, v)) /\ FinishLater(s, lastId', v, verdict)
     /\ UNCHANGED <<faults, deploying>>
  \/ /\ StatementFails
     /\ Answered(s, v)
     /\ UNCHANGED <<rows, lastId, size, call>>

\* RecordDeploymentSuccess: the row in progress is used only when the duration
\* is zero, and the entry stays in either case.
RecordDeploymentSuccess(s) ==
  /\ call[s] = Idle /\ deploying[s] # NoVersion
  /\ \/ UseRowInProgress(s, deploying[s], "success")
     \/ UseNewRow(s, deploying[s], "success")
  /\ UNCHANGED <<tracked, pruner, astray>>

\* RecordDeploymentFailure: the entry goes.
RecordDeploymentFailure(s) ==
  /\ call[s] = Idle
  /\ \E v \in {deploying[s], NoVersion} :
       IF InProgress(s, v) THEN UseRowInProgress(s, v, "failure")
       ELSE UseNewRow(s, v, "failure")
  /\ tracked' = [tracked EXCEPT ![s] = Nothing]
  /\ UNCHANGED <<pruner, astray>>

\* UpdateDeploymentSuccess, UpdateDeploymentFailure.  A row that has been pruned
\* meanwhile is updated without an error and without effect.
Finish(s) ==
  /\ call[s].do = "finish"
  /\ \/ /\ rows' = [i \in DOMAIN rows |->
                      IF i = call[s].id
                      THEN [rows[i] EXCEPT !.verdict = call[s].verdict, !.end = Now]
                      ELSE rows[i]]
        /\ UNCHANGED faults
     \/ StatementFails /\ UNCHANGED rows
  /\ Returns(s)
  /\ Answered(s, call[s].version)
  /\ UNCHANGED <<lastId, size, tracked, pruner, astray>>

\* RecordRollback, a transaction: the last success of the version left is
\* marked, and a row of its own is inserted.  One that fails changes nothing.
RecordRollback(s) ==
  /\ call[s] = Idle
  /\ \E from, to \in Versions :
       LET successes == {i \in RowsOf(s) :
                           rows[i].version = from /\ rows[i].verdict = "success"}
           last == {i \in successes : \A j \in successes : rows[j].end <= rows[i].end}
       IN  /\ lastId < MaxId /\ lastId' = lastId + 1
           /\ rows' = [i \in DOMAIN rows \union {lastId + 1} |->
                         IF i = lastId + 1
                         THEN [service |-> s, version |-> to, verdict |-> "success",
                               end |-> Now, rollback |-> TRUE]
                         ELSE IF i \in last THEN [rows[i] EXCEPT !.rollback = TRUE]
                         ELSE rows[i]]
           /\ size' = AtLeast(size, Cardinality(DOMAIN rows) + 1)
  /\ UNCHANGED <<tracked, call, pruner, faults, deploying, astray>>

-----------------------------------------------------------------------------
(***************************************************************************)
(* PruneDatabase: by age, by number, by size.                              *)
(***************************************************************************)
Goes(p, state) == pruner' = [pruner EXCEPT ![p] = state]
outside == <<lastId, tracked, call, deploying, astray>>

\* The ticker, Start and RunPruningNow each start a pruning: PruneOldRecords,
\* and the list of the services PruneExcessRecords begins with.  Any number of
\* the rows may have come of age.  What is recorded between the two statements
\* could as well come before them: it is younger than what is deleted.
PruneOldRecords(p) ==
  /\ pruner[p] = Resting
  /\ \E old \in IF ByAge THEN 0 .. lastId ELSE {0} : Delete(1 .. old)
  /\ Goes(p, [Resting EXCEPT !.do = "count",
                !.todo = IF MaxRecords = 0 THEN {}
                         ELSE {rows'[i].service : i \in DOMAIN rows'}])
  /\ UNCHANGED <<size, faults, outside>>

\* Slip: the query asks for the oldest.
IdsToKeepAscending(s) == Oldest(RowsOf(s), MaxRecords)

IdsToKeep(s) == Newest(RowsOf(s), MaxRecords)

\* One round of PruneExcessRecords: the query for the ids to keep ...
SelectIdsToKeep(p) ==
  /\ pruner[p].do = "count"
  /\ \E s \in pruner[p].todo :
       IF Cardinality(IdsToKeep(s)) < MaxRecords
       THEN Goes(p, [pruner[p] EXCEPT !.todo = @ \ {s}])
       ELSE Goes(p, [pruner[p] EXCEPT !.do = "delete", !.todo = @ \ {s},
                       !.of = {s}, !.keep = IdsToKeep(s), !.seen = lastId])
  /\ UNCHANGED <<rows, size, faults, outside>>

\* ... and the deletion of all the others of the service.
DeleteOthers(p) ==
  /\ pruner[p].do = "delete"
  /\ \E s \in pruner[p].of : Delete(RowsOf(s) \ pruner[p].keep)
  /\ Goes(p, [pruner[p] EXCEPT !.do = "count", !.of = {}, !.keep = {}, !.seen = 0])
  /\ UNCHANGED <<size, faults, outside>>

\* PruneByDatabaseSize.
PruneByDatabaseSize(p) ==
  /\ pruner[p].do = "count" /\ pruner[p].todo = {}
  /\ IF MaxSize = 0 \/ size <= MaxSize THEN Goes(p, Resting)
     ELSE Goes(p, [Resting EXCEPT !.do = "shrink", !.batch = BatchSize])
  /\ UNCHANGED <<rows, size, faults, outside>>

\* A batch of the oldest rows; then the size of the file, which has not shrunk.
Shrink(p) ==
  /\ pruner[p].do = "shrink"
  /\ Delete(Oldest(DOMAIN rows, pruner[p].batch))
  /\ IF rows = rows' \/ size <= MaxSize
     THEN Goes(p, [Resting EXCEPT !.do = "vacuum"])
     ELSE Goes(p, [pruner[p] EXCEPT !.batch = 2 * @])
  /\ UNCHANGED <<size, faults, outside>>

Vacuum(p) ==
  /\ pruner[p].do = "vacuum"
  /\ size' = Cardinality(DOMAIN rows)
  /\ Goes(p, Resting)
  /\ UNCHANGED <<rows, faults, outside>>

\* Any statement of a pruning may fail; the pruning ends with its error.  One
\* whose first statement fails has done nothing.
PruningFails(p) ==
  /\ pruner[p] # Resting /\ StatementFails
  /\ Goes(p, Resting)
  /\ UNCHANGED <<rows, size, outside>>

Recording ==
  \E s \in Services :
    \/ RecordDeploymentStart(s) \/ TrackDeployment(s)
    \/ RecordDeploymentSuccess(s) \/ RecordDeploymentFailure(s) \/ Finish(s)
    \/ RecordRollback(s)

RunPruning ==
  \E p \in Pruners :
    \/ PruneOldRecords(p) \/ SelectIdsToKeep(p) \/ DeleteOthers(p)
    \/ PruneByDatabaseSize(p) \/ Shrink(p) \/ Vacuum(p) \/ PruningFails(p)

Next == Recording \/ RunPruning
Spec == Init /\ [][Next]_vars

-----------------------------------------------------------------------------
(***************************************************************************)
(* Properties                                                              *)
(***************************************************************************)
\* A verdict that has been recorded is not rewritten: no later call finds the
\* row of a finished deployment in the map of those in progress.  A start that
\* could not be recorded leaves the entry of an earlier deployment there, which
\* the verdict then goes to.
FinishedRowsAreFinal ==
  [][ \A i \in DOMAIN rows \intersect DOMAIN rows' :
        rows[i].verdict # "open" /\ ~astray[rows[i].service] =>
          rows'[i].verdict = rows[i].verdict /\ rows'[i].end = rows[i].end ]_vars

\* "records a failed deployment", of that service and version: when the call
\* returns nil, its row says so, unless a pruning took the row meanwhile.
VerdictIsRecorded ==
  [][ \A s \in Services :
        call[s].do = "finish" /\ call'[s] = Idle /\ faults' = faults
          /\ call[s].id \in DOMAIN rows =>
            /\ rows'[call[s].id].service = s
            /\ rows'[call[s].id].version = call[s].version
            /\ rows'[call[s].id].verdict = call[s].verdict ]_vars

\* "If more records exist, the oldest ones will be removed during pruning": of
\* the rows of a service none goes before an older one, unless it was inserted
\* after the rows to keep had been selected.
OldestSeenGoFirst ==
  [][ \A i \in DOMAIN rows \ DOMAIN rows', j \in DOMAIN rows' :
        rows'[j].service = rows[i].service /\ j < i =>
          \E p \in Pruners :
            pruner[p].do = "delete" /\ pruner[p].seen < i ]_vars
================================================================================
