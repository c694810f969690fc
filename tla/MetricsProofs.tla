------------------------------ MODULE MetricsProofs ------------------------------
(***************************************************************************)
(* Proofs about the metrics package.  The deployment records: for any       *)
(* number of services, of prunings under way and of rows, a recorded        *)
(* verdict is final and in the row of its service and version, and the      *)
(* prunings take the oldest rows first.  The retention manager: for any     *)
(* number of callers, its safety properties.                               *)
(***************************************************************************)
EXTENDS Metrics, Retention, FiniteSetTheorems, TLAPS

-----------------------------------------------------------------------------
(***************************************************************************)
(* The deployment records.                                                 *)
(***************************************************************************)

RowIs(id, s, v) == id \in DOMAIN rows => rows[id].service = s /\ rows[id].version = v

IsOpen(id) == id \in DOMAIN rows => rows[id].verdict = "open"

\* What the map and the call under way say of a service is so in its rows, as far
\* as they have not been pruned; and a row that a verdict may still be given is
\* open, unless the start of the deployment could not be recorded.
CollectorInv(s) ==
  /\ tracked[s].id <= lastId /\ call[s].id <= lastId
  /\ tracked[s] # Nothing => RowIs(tracked[s].id, s, tracked[s].version)
  /\ tracked[s] # Nothing => \/ IsOpen(tracked[s].id) \/ astray[s]
                             \/ call[s].do = "track"
                             \/ deploying[s] # tracked[s].version
  /\ call[s] # Idle => RowIs(call[s].id, s, call[s].version)
  /\ call[s].do = "track" => call[s].version \in Versions /\ IsOpen(call[s].id)
  /\ call[s].do = "finish" => /\ call[s].version \in {deploying[s], NoVersion}
                              /\ IsOpen(call[s].id) \/ astray[s]

\* Of the rows there were when a pruning selected those to keep, it keeps every
\* one that is younger than one it keeps.
PrunerInv(p) ==
  /\ pruner[p].seen <= lastId
  /\ pruner[p].do = "delete" =>
       \A j \in pruner[p].keep, k \in DOMAIN rows :
         rows[k].service \in pruner[p].of /\ j < k /\ k <= pruner[p].seen =>
           k \in pruner[p].keep

EndsBounded == \E n \in Nat : \A k \in DOMAIN rows : rows[k].end <= n

IInv ==
  /\ TypeOK /\ EndsBounded
  /\ \A s \in Services : CollectorInv(s)
  /\ \A p \in Pruners : PrunerInv(p)

-----------------------------------------------------------------------------
\* Every set of numbers that is not empty has a least member.
LEMMA LeastOf ==
  ASSUME NEW T \in SUBSET Nat, T # {}
  PROVE  \E x \in T : \A y \in T : x <= y
<1>1. IsWellFoundedOn(OpToRel(<, Nat), Nat)
  BY NatLessThanWellFounded
<1>. DEFINE R == OpToRel(<, Nat)
<1>2. PICK x \in T : \A y \in T : ~ (<<y, x>> \in R)
  BY <1>1, WFMin
<1>3. \A y \in T : <<y, x>> \in Nat \X Nat /\ (<<y, x>> \in R <=> y < x)
  BY DEF OpToRel
<1>. HIDE DEF R
<1>4. \A y \in T : ~ (y < x)
  BY <1>2, <1>3
<1>5. x \in T /\ T \subseteq Nat
  BY <1>2
<1>. QED
  BY ONLY <1>4, <1>5

\* A row that ends now ends later than all the others.
LEMMA NowIsLater ==
  ASSUME TypeOK, EndsBounded
  PROVE  Now \in Nat /\ \A k \in DOMAIN rows : rows[k].end < Now
<1>. DEFINE Ends == {0} \union {rows[k].end : k \in DOMAIN rows}
            Above == {n \in Nat : \A e \in Ends : e <= n}
<1>1. Ends \subseteq Nat
  BY DEF TypeOK, Row
<1>2. Above # {}
  BY <1>1 DEF EndsBounded
<1>3. PICK m \in Above : \A n \in Above : m <= n
  BY <1>2, LeastOf
<1>4. m \in Ends
  <2>1. SUFFICES ASSUME m \notin Ends PROVE FALSE
    OBVIOUS
  <2>2. m \in Nat /\ m # 0 /\ \A e \in Ends : e <= m /\ e # m
    BY <1>3, <2>1
  <2>3. m - 1 \in Nat /\ \A e \in Ends : e <= m - 1
    BY <1>1, <2>2
  <2>. QED
    BY <1>3, <2>2, <2>3
<1>. DEFINE last == CHOOSE n \in Ends : \A k \in DOMAIN rows : rows[k].end <= n
<1>5. last \in Ends /\ \A k \in DOMAIN rows : rows[k].end <= last
  <2>1. \E n \in Ends : \A k \in DOMAIN rows : rows[k].end <= n
    BY <1>3, <1>4
  <2>. HIDE DEF Ends
  <2>. QED
    BY <2>1, Zenon
<1>6. Now = 1 + last
  BY DEF Now
<1>7. \A k \in DOMAIN rows : rows[k].end \in Nat
  BY DEF TypeOK, Row
<1>. HIDE DEF last, Ends
<1>8. last \in Nat
  BY <1>1, <1>5
<1>9. \A k \in DOMAIN rows : rows[k].end < 1 + last
  BY <1>5, <1>7, <1>8
<1>. QED
  BY <1>6, <1>8, <1>9

\* There are finitely many rows.
LEMMA RowsAreFinite ==
  ASSUME TypeOK, NEW S \in SUBSET DOMAIN rows
  PROVE  IsFiniteSet(S) /\ Cardinality(S) \in Nat
<1>1. lastId \in Int /\ S \subseteq 1 .. lastId
  BY LimitsAssumption DEF TypeOK
<1>2. IsFiniteSet(1 .. lastId)
  BY <1>1, FS_Interval
<1>. QED
  BY <1>1, <1>2, FS_Subset, FS_CardinalityType

\* LIMIT takes the rows from one end on: with a row its elders, or its juniors.
LEMMA LimitTakesAnEnd ==
  ASSUME TypeOK, NEW S \in SUBSET DOMAIN rows, NEW k \in Nat,
         NEW i \in S, NEW j \in S, j < i
  PROVE  /\ i \in Oldest(S, k) => j \in Oldest(S, k)
         /\ j \in Newest(S, k) => i \in Newest(S, k)
<1>1. i \in Nat /\ j \in Nat /\ S \subseteq Nat
  BY LimitsAssumption DEF TypeOK
<1>. DEFINE Before(x) == {y \in S : y < x}
            After(x)  == {y \in S : y > x}
<1>2. Before(j) \in SUBSET Before(i) /\ After(i) \in SUBSET After(j)
  BY <1>1
<1>3. /\ IsFiniteSet(Before(i)) /\ IsFiniteSet(After(j))
      /\ Cardinality(Before(i)) \in Nat /\ Cardinality(Before(j)) \in Nat
      /\ Cardinality(After(i)) \in Nat /\ Cardinality(After(j)) \in Nat
  BY RowsAreFinite
<1>4. /\ Cardinality(Before(j)) <= Cardinality(Before(i))
      /\ Cardinality(After(i)) <= Cardinality(After(j))
  BY <1>2, <1>3, FS_Subset
<1>5. /\ i \in Oldest(S, k) => Cardinality(Before(i)) < k
      /\ Cardinality(Before(j)) < k => j \in Oldest(S, k)
      /\ j \in Newest(S, k) => Cardinality(After(j)) < k
      /\ Cardinality(After(i)) < k => i \in Newest(S, k)
  BY DEF Oldest, Newest
<1>. HIDE DEF Before, After
<1>. QED
  BY <1>3, <1>4, <1>5

-----------------------------------------------------------------------------
\* The table with its sequence and its file.
TableOK ==
  /\ DOMAIN rows \subseteq 1 .. lastId /\ \A k \in DOMAIN rows : rows[k] \in Row
  /\ lastId \in 0 .. MaxId
  /\ size \in Nat /\ Cardinality(DOMAIN rows) <= size

\* The rows there are after a step were there before it, for the same service and
\* version, or they are new.
OldRows ==
  /\ lastId <= lastId'
  /\ \A k \in DOMAIN rows' : k <= lastId =>
       /\ k \in DOMAIN rows
       /\ rows'[k].service = rows[k].service /\ rows'[k].version = rows[k].version

\* A statement that adds one row keeps the table.
LEMMA OneMoreRow ==
  ASSUME TypeOK, lastId < MaxId, lastId' = lastId + 1,
         DOMAIN rows' = DOMAIN rows \union {lastId + 1},
         \A k \in DOMAIN rows' : rows'[k] \in Row,
         size' = AtLeast(size, Cardinality(DOMAIN rows) + 1)
  PROVE  /\ TableOK' /\ lastId' \in Ids
         /\ \A k \in DOMAIN rows' : k <= lastId <=> k \in DOMAIN rows
<1>1. lastId \in Nat /\ DOMAIN rows \subseteq 1 .. lastId /\ MaxId \in Nat
  BY LimitsAssumption DEF TypeOK
<1>2. IsFiniteSet(DOMAIN rows) /\ Cardinality(DOMAIN rows) \in Nat
  BY RowsAreFinite
<1>3. Cardinality(DOMAIN rows') = Cardinality(DOMAIN rows) + 1
  BY <1>1, <1>2, FS_AddElement
<1>4. size' \in Nat /\ Cardinality(DOMAIN rows') <= size'
  BY <1>2, <1>3 DEF TypeOK, AtLeast
<1>. QED
  BY <1>1, <1>4 DEF TableOK, Ids

\* INSERT adds the row and leaves the others alone.
LEMMA InsertFacts ==
  ASSUME TypeOK, EndsBounded, NEW s \in Services, NEW v \in Versions \union {NoVersion},
         Insert(Started(s, v))
  PROVE  /\ TableOK' /\ EndsBounded' /\ OldRows
         /\ lastId' \in Ids /\ lastId' \in DOMAIN rows' /\ lastId <= lastId'
         /\ rows'[lastId'] = Started(s, v)
         /\ \A k \in DOMAIN rows : rows'[k] = rows[k]
         /\ \A k \in DOMAIN rows' : k <= lastId <=> k \in DOMAIN rows
<1>1. Started(s, v) \in Row /\ Started(s, v).end = 0
  BY DEF Started, Row, Verdicts
<1>2. /\ lastId < MaxId /\ lastId' = lastId + 1
      /\ DOMAIN rows' = DOMAIN rows \union {lastId + 1}
      /\ \A k \in DOMAIN rows' : rows'[k] = IF k = lastId + 1 THEN Started(s, v) ELSE rows[k]
      /\ size' = AtLeast(size, Cardinality(DOMAIN rows) + 1)
  BY DEF Insert
<1>3. \A k \in DOMAIN rows' : rows'[k] \in Row
  BY <1>1, <1>2 DEF TypeOK
<1>4. /\ TableOK' /\ lastId' \in Ids
      /\ \A k \in DOMAIN rows' : k <= lastId <=> k \in DOMAIN rows
  BY <1>2, <1>3, OneMoreRow
<1>5. lastId \in Nat /\ DOMAIN rows \subseteq 1 .. lastId
  BY DEF TypeOK
<1>6. \A k \in DOMAIN rows : rows'[k] = rows[k]
  BY <1>2, <1>5
<1>7. EndsBounded'
  <2>1. PICK n \in Nat : \A k \in DOMAIN rows : rows[k].end <= n
    BY DEF EndsBounded
  <2>2. \A k \in DOMAIN rows' : rows'[k].end <= n
    BY <1>1, <1>2, <2>1
  <2>. QED
    BY <2>2 DEF EndsBounded
<1>. QED
  BY <1>2, <1>4, <1>5, <1>6, <1>7 DEF OldRows

\* DELETE takes rows away and leaves the others alone.
LEMMA DeleteFacts ==
  ASSUME TypeOK, EndsBounded, NEW X, Delete(X), lastId' = lastId, size' = size
  PROVE  /\ TableOK' /\ EndsBounded' /\ OldRows
         /\ DOMAIN rows' = DOMAIN rows \ X
         /\ \A k \in DOMAIN rows' : rows'[k] = rows[k]
<1>1. /\ DOMAIN rows' = DOMAIN rows \ X
      /\ \A k \in DOMAIN rows' : rows'[k] = rows[k]
  BY DEF Delete, Restrict
<1>2. Cardinality(DOMAIN rows') <= Cardinality(DOMAIN rows)
  <2>1. DOMAIN rows' \in SUBSET DOMAIN rows
    BY <1>1
  <2>. QED
    BY <2>1, RowsAreFinite, FS_Subset
<1>3. Cardinality(DOMAIN rows) \in Nat /\ Cardinality(DOMAIN rows') \in Nat
  BY <1>1, RowsAreFinite
<1>4. TableOK'
  BY <1>1, <1>2, <1>3 DEF TypeOK, TableOK
<1>5. EndsBounded'
  BY <1>1 DEF EndsBounded
<1>6. lastId <= lastId'
  BY DEF TypeOK
<1>. QED
  BY <1>1, <1>4, <1>5, <1>6 DEF OldRows

-----------------------------------------------------------------------------
\* What the map and the calls say of a service stays true as long as they stay,
\* and nobody rewrites the verdicts of its rows.
LEMMA ServiceKeeps ==
  ASSUME IInv, TypeOK', OldRows, NEW s \in Services,
         \A k \in DOMAIN rows' : k <= lastId /\ rows[k].service = s =>
           rows'[k].verdict = rows[k].verdict,
         call'[s] = call[s], tracked'[s] = tracked[s], astray'[s] = astray[s],
         deploying'[s] = deploying[s]
  PROVE  CollectorInv(s)'
<1>1. /\ CollectorInv(s) /\ lastId \in Nat /\ lastId' \in Nat /\ lastId <= lastId'
      /\ tracked[s].id \in Nat /\ call[s].id \in Nat
  BY LimitsAssumption DEF IInv, TypeOK, OldRows, Info, Nothing, Call, Idle, Ids
<1>2. ASSUME NEW id \in Nat, NEW v, id <= lastId, RowIs(id, s, v)
      PROVE  /\ id \in DOMAIN rows' => rows'[id].service = s /\ rows'[id].version = v
             /\ IsOpen(id) => (id \in DOMAIN rows' => rows'[id].verdict = "open")
  BY <1>2 DEF OldRows, RowIs, IsOpen
<1>3. tracked[s].id <= lastId' /\ call[s].id <= lastId'
  BY <1>1 DEF CollectorInv
<1>4. tracked[s] # Nothing =>
        /\ RowIs(tracked[s].id, s, tracked[s].version)'
        /\ IsOpen(tracked[s].id) => IsOpen(tracked[s].id)'
  BY <1>1, <1>2 DEF CollectorInv, RowIs, IsOpen
<1>5. call[s] # Idle =>
        /\ RowIs(call[s].id, s, call[s].version)'
        /\ IsOpen(call[s].id) => IsOpen(call[s].id)'
  BY <1>1, <1>2 DEF CollectorInv, RowIs, IsOpen
<1>6. call[s].do \in {"track", "finish"} => call[s] # Idle
  BY DEF Idle
<1>. QED
  BY <1>1, <1>3, <1>4, <1>5, <1>6 DEF CollectorInv, RowIs, IsOpen

\* What a pruning has selected stays so as long as the pruning stays.
LEMMA PrunerKeeps ==
  ASSUME IInv, TypeOK', OldRows, NEW p \in Pruners, pruner'[p] = pruner[p]
  PROVE  PrunerInv(p)'
<1>1. /\ PrunerInv(p) /\ lastId \in Nat /\ lastId' \in Nat /\ lastId <= lastId'
      /\ pruner[p].seen \in Nat /\ DOMAIN rows' \subseteq Nat
  BY LimitsAssumption DEF IInv, TypeOK, OldRows, Pruning, Resting
<1>2. ASSUME pruner[p].do = "delete", NEW j \in pruner[p].keep, NEW k \in DOMAIN rows',
             rows'[k].service \in pruner[p].of, j < k, k <= pruner[p].seen
      PROVE  k \in pruner[p].keep
  <2>1. k <= lastId
    BY <1>1, <1>2 DEF PrunerInv
  <2>. QED
    BY <1>1, <1>2, <2>1 DEF OldRows, PrunerInv
<1>. QED
  BY <1>1, <1>2 DEF PrunerInv

\* A step of the collector for one service leaves the others and the prunings.
LEMMA RecordingKeeps ==
  ASSUME IInv, TypeOK', EndsBounded', OldRows, pruner' = pruner,
         NEW s \in Services, CollectorInv(s)',
         \A k \in DOMAIN rows' : k <= lastId /\ rows[k].service # s =>
           rows'[k].verdict = rows[k].verdict,
         \A t \in Services \ {s} :
           /\ call'[t] = call[t] /\ tracked'[t] = tracked[t]
           /\ astray'[t] = astray[t] /\ deploying'[t] = deploying[t]
  PROVE  IInv'
<1>1. ASSUME NEW t \in Services \ {s} PROVE CollectorInv(t)'
  <2>1. \A k \in DOMAIN rows' : k <= lastId /\ rows[k].service = t =>
          rows'[k].verdict = rows[k].verdict
    OBVIOUS
  <2>. QED
    BY <2>1, ServiceKeeps
<1>2. ASSUME NEW p \in Pruners PROVE PrunerInv(p)'
  BY PrunerKeeps
<1>. QED
  BY <1>1, <1>2 DEF IInv

\* A step of a pruning leaves the collector and the other prunings.
LEMMA PruningKeeps ==
  ASSUME IInv, TypeOK', EndsBounded', OldRows,
         UNCHANGED <<tracked, call, deploying, astray>>,
         \A k \in DOMAIN rows' : rows'[k] = rows[k],
         NEW p \in Pruners, PrunerInv(p)',
         \A q \in Pruners \ {p} : pruner'[q] = pruner[q]
  PROVE  IInv'
<1>1. ASSUME NEW t \in Services PROVE CollectorInv(t)'
  BY ServiceKeeps
<1>2. ASSUME NEW q \in Pruners \ {p} PROVE PrunerInv(q)'
  BY PrunerKeeps
<1>. QED
  BY <1>1, <1>2 DEF IInv

\* Where nothing is inserted, deleted or rewritten.
LEMMA SameRows ==
  ASSUME IInv, UNCHANGED <<rows, lastId, size>>
  PROVE  TableOK' /\ EndsBounded' /\ OldRows
<1>1. TableOK /\ EndsBounded /\ lastId <= lastId' /\ DOMAIN rows' = DOMAIN rows
  BY DEF IInv, TypeOK, TableOK
<1>. QED
  BY <1>1 DEF TableOK, EndsBounded, OldRows

-----------------------------------------------------------------------------
\* RecordDeploymentStart: the new row is open; without one, the verdict has no row
\* to go to but that of an earlier deployment.
LEMMA StartKeeps ==
  ASSUME IInv, NEW s \in Services, RecordDeploymentStart(s)
  PROVE  IInv'
<1>1. /\ TypeOK /\ EndsBounded /\ CollectorInv(s) /\ call[s] = Idle
      /\ lastId \in Nat /\ tracked[s].id \in Nat
  BY LimitsAssumption
     DEF IInv, TypeOK, RecordDeploymentStart, Info, Nothing, Ids
<1>2. PICK v \in Versions :
        /\ deploying' = [deploying EXCEPT ![s] = v]
        /\ \/ /\ Insert(Started(s, v))
              /\ Becomes(s, [do |-> "track", id |-> lastId', version |-> v,
                             verdict |-> "open"])
              /\ UNCHANGED <<astray, faults>>
           \/ /\ StatementFails /\ astray' = [astray EXCEPT ![s] = TRUE]
              /\ UNCHANGED <<rows, lastId, size, call>>
  BY DEF RecordDeploymentStart
<1>3. UNCHANGED <<tracked, pruner>>
  BY DEF RecordDeploymentStart
<1>4. CASE /\ Insert(Started(s, v))
           /\ Becomes(s, [do |-> "track", id |-> lastId', version |-> v,
                          verdict |-> "open"])
           /\ UNCHANGED <<astray, faults>>
  <2>1. /\ TableOK' /\ EndsBounded' /\ OldRows
        /\ lastId' \in Ids /\ lastId <= lastId'
        /\ rows'[lastId'] = Started(s, v)
        /\ \A k \in DOMAIN rows : rows'[k] = rows[k]
        /\ \A k \in DOMAIN rows' : k <= lastId <=> k \in DOMAIN rows
    BY <1>1, <1>4, InsertFacts
  <2>2. /\ call'[s] = [do |-> "track", id |-> lastId', version |-> v, verdict |-> "open"]
        /\ \A t \in Services \ {s} :
             call'[t] = call[t] /\ deploying'[t] = deploying[t]
    BY <1>1, <1>2, <1>4 DEF Becomes, TypeOK
  <2>3. TypeOK'
    <3>1. [do |-> "track", id |-> lastId', version |-> v, verdict |-> "open"] \in Call
      BY <2>1 DEF Call, Verdicts
    <3>2. call' \in [Services -> Call]
      BY <1>1, <1>4, <3>1 DEF Becomes, TypeOK
    <3>3. deploying' \in [Services -> Versions \union {NoVersion}]
      BY <1>1, <1>2 DEF TypeOK
    <3>. QED
      BY <1>1, <1>3, <1>4, <2>1, <3>2, <3>3 DEF TypeOK, TableOK
  <2>4. CollectorInv(s)'
    <3>1. lastId' \in DOMAIN rows' => /\ rows'[lastId'].service = s
                                      /\ rows'[lastId'].version = v
                                      /\ rows'[lastId'].verdict = "open"
      BY <2>1 DEF Started
    <3>2. tracked[s] # Nothing /\ tracked[s].id \in DOMAIN rows' =>
            /\ rows'[tracked[s].id].service = s
            /\ rows'[tracked[s].id].version = tracked[s].version
      BY <1>1, <2>1 DEF CollectorInv, RowIs
    <3>3. tracked[s].id <= lastId' /\ lastId' <= lastId'
      BY <1>1, <2>1 DEF CollectorInv, Ids
    <3>. QED
      BY <1>3, <2>2, <3>1, <3>2, <3>3 DEF CollectorInv, RowIs, IsOpen
  <2>. QED
    BY <1>3, <1>4, <2>1, <2>2, <2>3, <2>4, RecordingKeeps
<1>5. CASE /\ StatementFails /\ astray' = [astray EXCEPT ![s] = TRUE]
           /\ UNCHANGED <<rows, lastId, size, call>>
  <2>1. TableOK' /\ EndsBounded' /\ OldRows
    BY <1>5, SameRows
  <2>2. /\ astray'[s]
        /\ \A t \in Services \ {s} :
             astray'[t] = astray[t] /\ deploying'[t] = deploying[t]
    BY <1>1, <1>2, <1>5 DEF TypeOK
  <2>3. TypeOK'
    <3>1. deploying' \in [Services -> Versions \union {NoVersion}]
      BY <1>1, <1>2 DEF TypeOK
    <3>2. astray' \in [Services -> BOOLEAN]
      BY <1>1, <1>5 DEF TypeOK
    <3>3. faults' \in 0 .. MaxFaults
      BY <1>1, <1>5, LimitsAssumption DEF TypeOK, StatementFails
    <3>. QED
      BY <1>1, <1>3, <1>5, <2>1, <3>1, <3>2, <3>3 DEF TypeOK, TableOK
  <2>4. CollectorInv(s)'
    BY <1>1, <1>3, <1>5, <2>2 DEF CollectorInv, RowIs, IsOpen, Idle
  <2>. QED
    BY <1>3, <1>5, <2>1, <2>2, <2>3, <2>4, RecordingKeeps
<1>. QED
  BY <1>2, <1>4, <1>5

\* The entry is that of the row that has just been inserted.
LEMMA TrackKeeps ==
  ASSUME IInv, NEW s \in Services, TrackDeployment(s)
  PROVE  IInv'
<1>1. /\ TypeOK /\ EndsBounded /\ CollectorInv(s) /\ call[s].do = "track"
      /\ call[s] # Idle /\ lastId \in Nat
  BY LimitsAssumption DEF IInv, TypeOK, TrackDeployment, Idle
<1>2. /\ tracked' = [tracked EXCEPT ![s] = [id |-> call[s].id, version |-> call[s].version]]
      /\ astray' = [astray EXCEPT ![s] = FALSE]
      /\ call' = [call EXCEPT ![s] = Idle]
      /\ UNCHANGED <<rows, lastId, size, pruner, faults, deploying>>
  BY DEF TrackDeployment, EntryOf, Returns, Becomes, table
<1>3. TableOK' /\ EndsBounded' /\ OldRows
  BY <1>2, SameRows
<1>4. [id |-> call[s].id, version |-> call[s].version] \in Info
  BY <1>1 DEF TypeOK, Call, CollectorInv, Info
<1>5. TypeOK'
  <2>1. call' \in [Services -> Call] /\ tracked' \in [Services -> Info]
    BY <1>1, <1>2, <1>4 DEF TypeOK, Call
  <2>2. astray' \in [Services -> BOOLEAN]
    BY <1>1, <1>2 DEF TypeOK
  <2>. QED
    BY <1>1, <1>2, <1>3, <2>1, <2>2 DEF TypeOK, TableOK
<1>6. /\ tracked'[s] = [id |-> call[s].id, version |-> call[s].version]
      /\ call'[s] = Idle
      /\ \A t \in Services \ {s} :
           call'[t] = call[t] /\ tracked'[t] = tracked[t] /\ astray'[t] = astray[t]
  BY <1>1, <1>2 DEF TypeOK
<1>7. CollectorInv(s)'
  BY <1>1, <1>2, <1>6 DEF CollectorInv, RowIs, IsOpen, Idle
<1>. QED
  BY <1>2, <1>3, <1>5, <1>6, <1>7, RecordingKeeps

\* A verdict that goes to the row in progress goes to an open one.
LEMMA RowInProgressKeeps ==
  ASSUME IInv, NEW s \in Services, NEW v \in {deploying[s], NoVersion},
         NEW verdict \in {"success", "failure"},
         call[s] = Idle, UseRowInProgress(s, v, verdict), UNCHANGED <<pruner, astray>>,
         tracked' \in [Services -> Info], tracked'[s] \in {tracked[s], Nothing},
         \A t \in Services \ {s} : tracked'[t] = tracked[t]
  PROVE  IInv'
<1>1. TypeOK /\ CollectorInv(s) /\ lastId \in Nat
  BY LimitsAssumption DEF IInv, TypeOK
<1>2. /\ tracked[s] # Nothing /\ tracked[s].version = v
      /\ call' = [call EXCEPT ![s] = [do |-> "finish", id |-> tracked[s].id,
                                      version |-> v, verdict |-> verdict]]
      /\ UNCHANGED <<rows, lastId, size, faults, deploying>>
  BY DEF UseRowInProgress, InProgress, FinishLater, Becomes
<1>3. TableOK' /\ EndsBounded' /\ OldRows
  BY <1>2, SameRows
<1>4. v \in Versions /\ v = deploying[s] /\ tracked[s].id \in Ids
  BY <1>1, <1>2, VersionsAssumption DEF TypeOK, Info
<1>5. [do |-> "finish", id |-> tracked[s].id, version |-> v, verdict |-> verdict] \in Call
  BY <1>4 DEF Call, Verdicts
<1>6. TypeOK'
  <2>1. call' \in [Services -> Call]
    BY <1>1, <1>2, <1>5 DEF TypeOK
  <2>. QED
    BY <1>1, <1>2, <1>3, <2>1 DEF TypeOK, TableOK
<1>7. /\ call'[s] = [do |-> "finish", id |-> tracked[s].id, version |-> v,
                     verdict |-> verdict]
      /\ \A t \in Services \ {s} : call'[t] = call[t]
  BY <1>1, <1>2 DEF TypeOK
<1>8. IsOpen(tracked[s].id) \/ astray[s]
  BY <1>1, <1>2, <1>4 DEF CollectorInv, Idle
<1>9. CollectorInv(s)'
  <2>1. Nothing.id = 0 /\ 0 <= lastId'
    BY <1>1, <1>2 DEF Nothing
  <2>2. tracked'[s].id <= lastId' /\ call'[s].id <= lastId'
    BY <1>1, <1>2, <1>7, <2>1 DEF CollectorInv
  <2>3. RowIs(tracked[s].id, s, v) /\ (tracked'[s] # Nothing => tracked'[s] = tracked[s])
    BY <1>1, <1>2 DEF CollectorInv
  <2>. QED
    BY <1>2, <1>4, <1>7, <1>8, <2>2, <2>3 DEF CollectorInv, RowIs, IsOpen
<1>. QED
  BY <1>2, <1>3, <1>6, <1>7, <1>9, RecordingKeeps

\* A verdict that finds no row gets one of its own, or none when the INSERT fails.
LEMMA NewRowKeeps ==
  ASSUME IInv, NEW s \in Services, NEW v \in {deploying[s], NoVersion},
         NEW verdict \in {"success", "failure"},
         call[s] = Idle, UseNewRow(s, v, verdict), UNCHANGED <<pruner, astray>>,
         tracked' \in [Services -> Info], tracked'[s] \in {tracked[s], Nothing},
         \A t \in Services \ {s} : tracked'[t] = tracked[t]
  PROVE  IInv'
<1>1. /\ TypeOK /\ EndsBounded /\ CollectorInv(s) /\ lastId \in Nat
      /\ v \in Versions \union {NoVersion} /\ tracked[s].id \in Nat
  BY LimitsAssumption DEF IInv, TypeOK, Info, Nothing, Ids
<1>2. Nothing.id = 0 /\ (tracked'[s] # Nothing => tracked'[s] = tracked[s])
  BY DEF Nothing
<1>3. CASE /\ Insert(Started(s, v)) /\ FinishLater(s, lastId', v, verdict)
           /\ UNCHANGED <<faults, deploying>>
  <2>1. /\ TableOK' /\ EndsBounded' /\ OldRows
        /\ lastId' \in Ids /\ lastId <= lastId'
        /\ rows'[lastId'] = Started(s, v)
        /\ \A k \in DOMAIN rows : rows'[k] = rows[k]
        /\ \A k \in DOMAIN rows' : k <= lastId <=> k \in DOMAIN rows
    BY <1>1, <1>3, InsertFacts
  <2>2. [do |-> "finish", id |-> lastId', version |-> v, verdict |-> verdict] \in Call
    BY <1>1, <2>1 DEF Call, Verdicts
  <2>3. TypeOK'
    <3>1. call' \in [Services -> Call]
      BY <1>1, <1>3, <2>2 DEF TypeOK, FinishLater, Becomes
    <3>. QED
      BY <1>1, <1>3, <2>1, <3>1 DEF TypeOK, TableOK
  <2>4. /\ call'[s] = [do |-> "finish", id |-> lastId', version |-> v, verdict |-> verdict]
        /\ \A t \in Services \ {s} : call'[t] = call[t]
    BY <1>1, <1>3 DEF TypeOK, FinishLater, Becomes
  <2>5. CollectorInv(s)'
    <3>1. /\ rows'[lastId'].service = s /\ rows'[lastId'].version = v
          /\ rows'[lastId'].verdict = "open"
      BY <2>1 DEF Started
    <3>2. tracked[s] # Nothing /\ tracked[s].id \in DOMAIN rows' =>
            /\ tracked[s].id \in DOMAIN rows
            /\ rows'[tracked[s].id] = rows[tracked[s].id]
            /\ rows'[tracked[s].id].service = s
            /\ rows'[tracked[s].id].version = tracked[s].version
      BY <1>1, <2>1 DEF CollectorInv, RowIs
    <3>3. tracked'[s].id <= lastId' /\ lastId' <= lastId'
      BY <1>1, <1>2, <2>1 DEF CollectorInv, Ids
    <3>4. tracked[s] # Nothing => \/ IsOpen(tracked[s].id) \/ astray[s]
                                  \/ deploying[s] # tracked[s].version
      BY <1>1 DEF CollectorInv, Idle
    <3>5. tracked[s] # Nothing => \/ tracked[s].id \in DOMAIN rows' =>
                                       rows'[tracked[s].id].verdict = "open"
                                  \/ astray[s] \/ deploying[s] # tracked[s].version
      BY <3>2, <3>4 DEF IsOpen
    <3>. QED
      BY <1>2, <1>3, <2>4, <3>1, <3>2, <3>3, <3>5 DEF CollectorInv, RowIs, IsOpen
  <2>. QED
    BY <1>3, <2>1, <2>3, <2>4, <2>5, RecordingKeeps
<1>4. CASE StatementFails /\ Answered(s, v) /\ UNCHANGED <<rows, lastId, size, call>>
  <2>1. TableOK' /\ EndsBounded' /\ OldRows
    BY <1>4, SameRows
  <2>2. /\ deploying' \in [Services -> Versions \union {NoVersion}]
        /\ deploying'[s] \in {deploying[s], NoVersion}
        /\ \A t \in Services \ {s} : deploying'[t] = deploying[t]
    BY <1>1, <1>4 DEF TypeOK, Answered
  <2>3. TypeOK'
    <3>1. faults' \in 0 .. MaxFaults
      BY <1>1, <1>4, LimitsAssumption DEF TypeOK, StatementFails
    <3>. QED
      BY <1>1, <1>4, <2>1, <2>2, <3>1 DEF TypeOK, TableOK
  <2>4. CollectorInv(s)'
    <3>1. tracked[s] # Nothing => tracked[s].version # NoVersion
      BY <1>1, VersionsAssumption DEF TypeOK, Info
    <3>. QED
      BY <1>1, <1>2, <1>4, <2>2, <3>1 DEF CollectorInv, RowIs, IsOpen, Idle
  <2>. QED
    BY <1>4, <2>1, <2>2, <2>3, <2>4, RecordingKeeps
<1>. QED
  BY <1>3, <1>4 DEF UseNewRow

\* RecordDeploymentSuccess keeps the entry, RecordDeploymentFailure removes it.
LEMMA VerdictKeeps ==
  ASSUME IInv, NEW s \in Services,
         RecordDeploymentSuccess(s) \/ RecordDeploymentFailure(s)
  PROVE  IInv'
<1>1. tracked \in [Services -> Info] /\ Nothing \in Info
  BY DEF IInv, TypeOK, Info
<1>2. CASE RecordDeploymentSuccess(s)
  <2>1. /\ call[s] = Idle /\ UNCHANGED <<tracked, pruner, astray>>
        /\ \/ UseRowInProgress(s, deploying[s], "success")
           \/ UseNewRow(s, deploying[s], "success")
    BY <1>2 DEF RecordDeploymentSuccess
  <2>2. /\ tracked' \in [Services -> Info] /\ tracked'[s] \in {tracked[s], Nothing}
        /\ \A t \in Services \ {s} : tracked'[t] = tracked[t]
    BY <1>1, <2>1
  <2>. QED
    BY <2>1, <2>2, RowInProgressKeeps, NewRowKeeps
<1>3. CASE RecordDeploymentFailure(s)
  <2>1. PICK v \in {deploying[s], NoVersion} :
          UseRowInProgress(s, v, "failure") \/ UseNewRow(s, v, "failure")
    BY <1>3 DEF RecordDeploymentFailure
  <2>2. /\ call[s] = Idle /\ UNCHANGED <<pruner, astray>>
        /\ tracked' = [tracked EXCEPT ![s] = Nothing]
    BY <1>3 DEF RecordDeploymentFailure
  <2>3. /\ tracked' \in [Services -> Info] /\ tracked'[s] \in {tracked[s], Nothing}
        /\ \A t \in Services \ {s} : tracked'[t] = tracked[t]
    BY <1>1, <2>2
  <2>. QED
    BY <2>1, <2>2, <2>3, RowInProgressKeeps, NewRowKeeps
<1>. QED
  BY <1>2, <1>3

\* The UPDATE of the row, and the verdict that is no longer due.
LEMMA FinishKeeps ==
  ASSUME IInv, NEW s \in Services, Finish(s)
  PROVE  IInv'
<1>1. /\ TypeOK /\ EndsBounded /\ CollectorInv(s) /\ call[s].do = "finish"
      /\ call[s] # Idle /\ lastId \in Nat /\ call[s].verdict \in Verdicts
      /\ Nothing.version = NoVersion
  <2>1. TypeOK /\ EndsBounded /\ CollectorInv(s) /\ call[s].do = "finish"
    BY DEF IInv, Finish
  <2>2. call[s] \in Call /\ call[s] # Idle
    BY <2>1 DEF TypeOK, Idle
  <2>3. call[s].verdict \in Verdicts
    BY <2>2 DEF Call
  <2>4. lastId \in Nat /\ Nothing.version = NoVersion
    BY <2>1, LimitsAssumption DEF TypeOK, Nothing
  <2>. QED
    BY <2>1, <2>2, <2>3, <2>4
<1>2. /\ call' = [call EXCEPT ![s] = Idle] /\ Answered(s, call[s].version)
      /\ UNCHANGED <<lastId, size, tracked, pruner, astray>>
  BY DEF Finish, Returns, Becomes
<1>3. /\ call' \in [Services -> Call] /\ call'[s] = Idle
      /\ deploying' \in [Services -> Versions \union {NoVersion}]
      /\ deploying'[s] = IF call[s].version = deploying[s] THEN NoVersion ELSE deploying[s]
      /\ \A t \in Services \ {s} :
           call'[t] = call[t] /\ deploying'[t] = deploying[t]
  BY <1>1, <1>2 DEF TypeOK, Call, Answered
<1>4. tracked[s] # Nothing =>
        /\ tracked[s].version # NoVersion
        /\ \/ IsOpen(tracked[s].id) \/ astray[s] \/ deploying[s] # tracked[s].version
  BY <1>1, VersionsAssumption DEF TypeOK, Info, CollectorInv
<1>5. deploying'[s] \in {deploying[s], NoVersion}
  BY <1>3
<1>6. CASE /\ rows' = [k \in DOMAIN rows |->
                         IF k = call[s].id
                         THEN [rows[k] EXCEPT !.verdict = call[s].verdict, !.end = Now]
                         ELSE rows[k]]
           /\ UNCHANGED faults
  <2>1. Now \in Nat /\ \A k \in DOMAIN rows : rows[k].end < Now
    BY <1>1, NowIsLater
  <2>2. \A k \in DOMAIN rows : rows[k] \in Row
    BY <1>1 DEF TypeOK
  <2>3. /\ DOMAIN rows' = DOMAIN rows
        /\ \A k \in DOMAIN rows :
             /\ rows'[k] \in Row
             /\ rows'[k].service = rows[k].service
             /\ rows'[k].version = rows[k].version
             /\ rows'[k].end <= Now
             /\ k # call[s].id => rows'[k] = rows[k]
    <3>1. ASSUME NEW k \in DOMAIN rows
          PROVE  /\ rows'[k] \in Row
                 /\ rows'[k].service = rows[k].service
                 /\ rows'[k].version = rows[k].version
                 /\ rows'[k].end <= Now
                 /\ k # call[s].id => rows'[k] = rows[k]
      <4>1. rows[k] \in Row /\ rows[k].end \in Nat /\ rows[k].end <= Now
        BY <2>1, <2>2 DEF Row
      <4>2. CASE k = call[s].id
        <5>1. rows'[k] = [rows[k] EXCEPT !.verdict = call[s].verdict, !.end = Now]
          BY <1>6, <4>2
        <5>2. /\ rows'[k].service = rows[k].service
              /\ rows'[k].version = rows[k].version
              /\ rows'[k].end = Now
          BY <4>1, <5>1 DEF Row
        <5>3. rows'[k] \in Row
          BY <1>1, <2>1, <4>1, <5>1 DEF Row
        <5>. QED
          BY <2>1, <4>2, <5>2, <5>3
      <4>3. CASE k # call[s].id
        BY <1>6, <4>1, <4>3
      <4>. QED
        BY <4>2, <4>3
    <3>. QED
      BY <1>6, <3>1
  <2>4. TableOK' /\ OldRows /\ EndsBounded'
    BY <1>1, <1>2, <2>1, <2>3 DEF TypeOK, TableOK, OldRows, EndsBounded
  <2>5. TypeOK'
    BY <1>1, <1>2, <1>3, <1>6, <2>4 DEF TypeOK, TableOK
  <2>6. \A k \in DOMAIN rows' : rows[k].service # s => rows'[k].verdict = rows[k].verdict
    BY <1>1, <2>3 DEF CollectorInv, RowIs
  <2>7. CollectorInv(s)'
    <3>1. tracked[s] # Nothing /\ tracked[s].id \in DOMAIN rows =>
            /\ rows'[tracked[s].id].service = s
            /\ rows'[tracked[s].id].version = tracked[s].version
      BY <1>1, <2>3 DEF CollectorInv, RowIs
    <3>2. ASSUME tracked[s] # Nothing, tracked[s].id \in DOMAIN rows,
                 tracked[s].id = call[s].id
          PROVE  deploying'[s] # tracked[s].version
      <4>1. call[s].version = tracked[s].version /\ call[s].version = deploying[s]
        BY <1>1, <1>4, <3>2 DEF CollectorInv, RowIs
      <4>. QED
        BY <1>3, <1>4, <3>2, <4>1
    <3>3. ASSUME tracked[s] # Nothing, tracked[s].id \in DOMAIN rows,
                 tracked[s].id # call[s].id
          PROVE  \/ rows'[tracked[s].id].verdict = "open" \/ astray[s]
                 \/ deploying'[s] # tracked[s].version
      BY <1>4, <1>5, <2>3, <3>3 DEF IsOpen
    <3>4. tracked[s].id <= lastId' /\ Idle.id <= lastId' /\ Idle.do = "idle"
      BY <1>1, <1>2 DEF CollectorInv, Idle
    <3>. QED
      BY <1>2, <1>3, <2>3, <3>1, <3>2, <3>3, <3>4 DEF CollectorInv, RowIs, IsOpen
  <2>. QED
    BY <1>2, <1>3, <2>4, <2>5, <2>6, <2>7, RecordingKeeps
<1>7. CASE StatementFails /\ UNCHANGED rows
  <2>1. TableOK' /\ EndsBounded' /\ OldRows
    BY <1>2, <1>7, SameRows
  <2>2. faults' \in 0 .. MaxFaults
    BY <1>1, <1>7, LimitsAssumption DEF TypeOK, StatementFails
  <2>3. TypeOK'
    BY <1>1, <1>2, <1>3, <2>1, <2>2 DEF TypeOK, TableOK
  <2>4. CollectorInv(s)'
    BY <1>1, <1>2, <1>3, <1>4, <1>5, <1>7 DEF CollectorInv, RowIs, IsOpen, Idle
  <2>. QED
    BY <1>2, <1>3, <1>7, <2>1, <2>3, <2>4, RecordingKeeps
<1>. QED
  BY <1>6, <1>7 DEF Finish

\* RecordRollback marks a row and adds one; it rewrites no verdict.
LEMMA RollbackKeeps ==
  ASSUME IInv, NEW s \in Services, RecordRollback(s)
  PROVE  IInv'
<1>1. TypeOK /\ EndsBounded /\ CollectorInv(s) /\ lastId \in Nat
  BY LimitsAssumption DEF IInv, TypeOK
<1>2. PICK to \in Versions, last \in SUBSET DOMAIN rows :
        /\ lastId < MaxId /\ lastId' = lastId + 1
        /\ rows' = [k \in DOMAIN rows \union {lastId + 1} |->
                      IF k = lastId + 1
                      THEN [service |-> s, version |-> to, verdict |-> "success",
                            end |-> Now, rollback |-> TRUE]
                      ELSE IF k \in last THEN [rows[k] EXCEPT !.rollback = TRUE]
                      ELSE rows[k]]
        /\ size' = AtLeast(size, Cardinality(DOMAIN rows) + 1)
  <2>1. PICK from \in Versions, to \in Versions :
          LET successes == {i \in RowsOf(s) :
                              rows[i].version = from /\ rows[i].verdict = "success"}
              last == {i \in successes : \A j \in successes : rows[j].end <= rows[i].end}
          IN  /\ lastId < MaxId /\ lastId' = lastId + 1
              /\ rows' = [i \in DOMAIN rows \union {lastId + 1} |->
                            IF i = lastId + 1
                            THEN [service |-> s, version |-> to, verdict |-> "success",
                                  end |-> Now, rollback |-> TRUE]
                            ELSE IF i \in last THEN [rows[i] EXCEPT !.rollback = TRUE]
                            ELSE rows[i]]
              /\ size' = AtLeast(size, Cardinality(DOMAIN rows) + 1)
    BY DEF RecordRollback
  <2>. DEFINE successes == {i \in RowsOf(s) :
                              rows[i].version = from /\ rows[i].verdict = "success"}
              last == {i \in successes : \A j \in successes : rows[j].end <= rows[i].end}
  <2>2. last \in SUBSET DOMAIN rows
    BY DEF RowsOf
  <2>. QED
    BY <2>1, <2>2
<1>3. UNCHANGED <<tracked, call, pruner, faults, deploying, astray>>
  BY DEF RecordRollback
<1>4. Now \in Nat /\ \A k \in DOMAIN rows : rows[k].end < Now
  BY <1>1, NowIsLater
<1>5. \A k \in DOMAIN rows : rows[k] \in Row /\ k # lastId + 1 /\ k <= lastId
  BY <1>1 DEF TypeOK
<1>6. [service |-> s, version |-> to, verdict |-> "success", end |-> Now,
       rollback |-> TRUE] \in Row
  BY <1>4 DEF Row, Verdicts
<1>7. /\ DOMAIN rows' = DOMAIN rows \union {lastId + 1}
      /\ rows'[lastId + 1] \in Row /\ rows'[lastId + 1].end = Now
      /\ \A k \in DOMAIN rows :
           /\ rows'[k] \in Row
           /\ rows'[k].service = rows[k].service
           /\ rows'[k].version = rows[k].version
           /\ rows'[k].verdict = rows[k].verdict
           /\ rows'[k].end = rows[k].end
  BY <1>2, <1>5, <1>6 DEF Row
<1>8. /\ TableOK' /\ \A k \in DOMAIN rows' : k <= lastId <=> k \in DOMAIN rows
  BY <1>1, <1>2, <1>7, OneMoreRow
<1>9. EndsBounded' /\ OldRows
  <2>1. \A k \in DOMAIN rows' : rows'[k].end <= Now
    <3>1. \A k \in DOMAIN rows : rows[k].end \in Nat
      BY <1>5 DEF Row
    <3>. QED
      BY <1>4, <1>7, <3>1
  <2>2. EndsBounded'
    BY <1>4, <2>1 DEF EndsBounded
  <2>3. lastId <= lastId'
    BY <1>1, <1>2
  <2>. QED
    BY <1>7, <1>8, <2>2, <2>3 DEF OldRows
<1>10. TypeOK'
  BY <1>1, <1>3, <1>8 DEF TypeOK, TableOK
<1>11. CollectorInv(s)'
  BY <1>3, <1>7, <1>8, <1>9, <1>10, ServiceKeeps
<1>. QED
  BY <1>3, <1>7, <1>8, <1>9, <1>10, <1>11, RecordingKeeps

-----------------------------------------------------------------------------
\* A pruning that goes on to a state of its type, with nothing newly selected, or
\* with what it had selected before.
LEMMA PruningGoes ==
  ASSUME IInv, NEW p \in Pruners, NEW state \in Pruning \union {Resting}, Goes(p, state),
         TableOK', EndsBounded', OldRows, faults' \in 0 .. MaxFaults,
         \A k \in DOMAIN rows' : rows'[k] = rows[k],
         state.seen <= lastId, state.do # "delete",
         UNCHANGED outside
  PROVE  IInv'
<1>1. /\ TypeOK /\ lastId' = lastId
      /\ UNCHANGED <<tracked, call, deploying, astray>>
  BY DEF IInv, outside
<1>2. /\ pruner' \in [Pruners -> Pruning \union {Resting}] /\ pruner'[p] = state
      /\ \A q \in Pruners \ {p} : pruner'[q] = pruner[q]
  BY <1>1 DEF TypeOK, Goes
<1>3. TypeOK'
  BY <1>1, <1>2 DEF TypeOK, TableOK
<1>4. PrunerInv(p)'
  BY <1>1, <1>2 DEF PrunerInv
<1>. QED
  BY <1>1, <1>2, <1>3, <1>4, PruningKeeps

\* The first statement of a pruning, and its list of services.
LEMMA PruneOldKeeps ==
  ASSUME IInv, NEW p \in Pruners, PruneOldRecords(p)
  PROVE  IInv'
<1>1. TypeOK /\ EndsBounded /\ lastId \in Nat
  BY LimitsAssumption DEF IInv, TypeOK
<1>2. PICK old : Delete(1 .. old)
  BY DEF PruneOldRecords
<1>. DEFINE todo == IF MaxRecords = 0 THEN {}
                    ELSE {rows'[i].service : i \in DOMAIN rows'}
<1>3. /\ Goes(p, [Resting EXCEPT !.do = "count", !.todo = todo])
      /\ UNCHANGED <<size, faults, outside>>
  BY DEF PruneOldRecords
<1>4. lastId' = lastId /\ size' = size /\ faults' = faults /\ UNCHANGED outside
  BY <1>3 DEF outside
<1>5. /\ TableOK' /\ EndsBounded' /\ OldRows
      /\ \A k \in DOMAIN rows' : rows'[k] = rows[k]
  BY <1>1, <1>2, <1>4, DeleteFacts
<1>6. todo \in SUBSET Services
  BY <1>5 DEF TableOK, Row
<1>. HIDE DEF todo
<1>7. /\ [Resting EXCEPT !.do = "count", !.todo = todo] \in Pruning
      /\ [Resting EXCEPT !.do = "count", !.todo = todo].seen = 0
      /\ [Resting EXCEPT !.do = "count", !.todo = todo].do = "count"
  <2>1. 0 \in 0 .. MaxId /\ 0 \in Nat /\ {} \in SUBSET Services /\ {} \in SUBSET Ids
    BY LimitsAssumption
  <2>. QED
    BY <1>6, <2>1 DEF Resting, Pruning
<1>8. Goes(p, [Resting EXCEPT !.do = "count", !.todo = todo])
  BY <1>3 DEF todo
<1>9. faults' \in 0 .. MaxFaults /\ 0 <= lastId
  BY <1>1, <1>4 DEF TypeOK
<1>. QED
  BY <1>4, <1>5, <1>7, <1>8, <1>9, PruningGoes

\* The rows to keep are the newest of those there are.
LEMMA SelectKeeps ==
  ASSUME IInv, NEW p \in Pruners, SelectIdsToKeep(p)
  PROVE  IInv'
<1>1. /\ TypeOK /\ lastId \in Nat /\ pruner[p].do = "count" /\ PrunerInv(p)
      /\ MaxRecords \in Nat /\ lastId <= MaxId /\ DOMAIN rows \subseteq 1 .. lastId
  BY LimitsAssumption DEF IInv, TypeOK, SelectIdsToKeep
<1>2. PICK s \in pruner[p].todo :
        IF Cardinality(IdsToKeep(s)) < MaxRecords
        THEN Goes(p, [pruner[p] EXCEPT !.todo = @ \ {s}])
        ELSE Goes(p, [pruner[p] EXCEPT !.do = "delete", !.todo = @ \ {s},
                        !.of = {s}, !.keep = IdsToKeep(s), !.seen = lastId])
  BY DEF SelectIdsToKeep
<1>3. /\ UNCHANGED <<rows, lastId, size>> /\ faults' = faults /\ UNCHANGED outside
      /\ UNCHANGED <<tracked, call, deploying, astray>>
  BY DEF SelectIdsToKeep, outside
<1>4. TableOK' /\ EndsBounded' /\ OldRows
  BY <1>3, SameRows
<1>5. pruner[p] \in Pruning /\ pruner[p].seen <= lastId
  BY <1>1 DEF TypeOK, Resting, PrunerInv
<1>6. s \in Services
  BY <1>2, <1>5 DEF Pruning
<1>7. RowsOf(s) \in SUBSET DOMAIN rows /\ IdsToKeep(s) \in SUBSET RowsOf(s)
  BY DEF RowsOf, IdsToKeep, Newest
<1>8. CASE Goes(p, [pruner[p] EXCEPT !.todo = @ \ {s}])
  <2>1. /\ [pruner[p] EXCEPT !.todo = @ \ {s}] \in Pruning
        /\ [pruner[p] EXCEPT !.todo = @ \ {s}].seen = pruner[p].seen
        /\ [pruner[p] EXCEPT !.todo = @ \ {s}].do = "count"
    BY <1>1, <1>5 DEF Pruning
  <2>. QED
    BY <1>1, <1>3, <1>4, <1>5, <1>8, <2>1, PruningGoes DEF TypeOK
<1>9. CASE Goes(p, [pruner[p] EXCEPT !.do = "delete", !.todo = @ \ {s},
                      !.of = {s}, !.keep = IdsToKeep(s), !.seen = lastId])
  <2>. DEFINE state == [pruner[p] EXCEPT !.do = "delete", !.todo = @ \ {s},
                          !.of = {s}, !.keep = IdsToKeep(s), !.seen = lastId]
  <2>1. IdsToKeep(s) \in SUBSET Ids /\ lastId \in 0 .. MaxId
    BY <1>1, <1>7, LimitsAssumption DEF Ids
  <2>2. /\ state \in Pruning /\ state.of = {s} /\ state.keep = IdsToKeep(s)
        /\ state.seen = lastId
    BY <1>5, <1>6, <2>1 DEF Pruning
  <2>. HIDE DEF state
  <2>3. /\ pruner' \in [Pruners -> Pruning \union {Resting}] /\ pruner'[p] = state
        /\ \A q \in Pruners \ {p} : pruner'[q] = pruner[q]
    BY <1>1, <1>9, <2>2 DEF TypeOK, Goes, state
  <2>4. TypeOK'
    BY <1>1, <1>3, <1>4, <2>3 DEF TypeOK, TableOK
  <2>5. ASSUME NEW j \in IdsToKeep(s), NEW k \in DOMAIN rows, rows[k].service = s, j < k
        PROVE  k \in IdsToKeep(s)
    <3>1. k \in RowsOf(s) /\ j \in RowsOf(s)
      BY <1>7, <2>5 DEF RowsOf
    <3>. QED
      BY <1>1, <1>7, <2>5, <3>1, LimitTakesAnEnd DEF IdsToKeep
  <2>6. PrunerInv(p)'
    BY <1>1, <1>3, <2>2, <2>3, <2>5 DEF PrunerInv
  <2>. QED
    BY <1>3, <1>4, <2>3, <2>4, <2>6, PruningKeeps
<1>. QED
  BY <1>2, <1>8, <1>9

\* The other statements of a pruning select nothing.
LEMMA PruneKeeps ==
  ASSUME IInv, NEW p \in Pruners,
         \/ DeleteOthers(p) \/ PruneByDatabaseSize(p) \/ Shrink(p) \/ Vacuum(p)
         \/ PruningFails(p)
  PROVE  IInv'
<1>1. /\ TypeOK /\ EndsBounded /\ lastId \in Nat /\ PrunerInv(p)
      /\ faults \in 0 .. MaxFaults
  BY LimitsAssumption DEF IInv, TypeOK
<1>2. /\ Resting.seen = 0 /\ 0 <= lastId /\ Resting.do = "rest"
      /\ pruner[p] \in Pruning \union {Resting} /\ pruner[p].seen <= lastId
  BY <1>1 DEF Resting, TypeOK, PrunerInv
<1>3. ASSUME UNCHANGED outside
      PROVE  lastId' = lastId
  BY <1>3 DEF outside
<1>4. CASE DeleteOthers(p)
  <2>. DEFINE state == [pruner[p] EXCEPT !.do = "count", !.of = {}, !.keep = {}, !.seen = 0]
  <2>1. PICK s \in pruner[p].of : Delete(RowsOf(s) \ pruner[p].keep)
    BY <1>4 DEF DeleteOthers
  <2>2. /\ pruner[p].do = "delete" /\ Goes(p, state) /\ size' = size
        /\ faults' = faults /\ UNCHANGED outside
    BY <1>4 DEF DeleteOthers
  <2>3. /\ TableOK' /\ EndsBounded' /\ OldRows
        /\ \A k \in DOMAIN rows' : rows'[k] = rows[k]
    BY <1>1, <1>3, <2>1, <2>2, DeleteFacts
  <2>4. pruner[p] \in Pruning
    BY <1>2, <2>2
  <2>5. state \in Pruning /\ state.seen = 0 /\ state.do = "count"
    <3>1. 0 \in 0 .. MaxId /\ {} \in SUBSET Services /\ {} \in SUBSET Ids
      BY LimitsAssumption
    <3>. QED
      BY <2>4, <3>1 DEF Pruning
  <2>. HIDE DEF state
  <2>. QED
    BY <1>1, <1>2, <2>2, <2>3, <2>5, PruningGoes
<1>5. CASE PruneByDatabaseSize(p)
  <2>. DEFINE state == [Resting EXCEPT !.do = "shrink", !.batch = BatchSize]
  <2>1. /\ Goes(p, Resting) \/ Goes(p, state)
        /\ UNCHANGED <<rows, size>> /\ faults' = faults /\ UNCHANGED outside
    BY <1>5 DEF PruneByDatabaseSize
  <2>2. TableOK' /\ EndsBounded' /\ OldRows
    BY <1>3, <2>1, SameRows
  <2>3. state \in Pruning /\ state.seen = 0 /\ state.do = "shrink"
    <3>1. 0 \in 0 .. MaxId /\ BatchSize \in Nat
      BY LimitsAssumption
    <3>. QED
      BY <3>1 DEF Resting, Pruning
  <2>. HIDE DEF state
  <2>. QED
    BY <1>1, <1>2, <2>1, <2>2, <2>3, PruningGoes
<1>6. CASE Shrink(p)
  <2>. DEFINE vacuum == [Resting EXCEPT !.do = "vacuum"]
              twice  == [pruner[p] EXCEPT !.batch = 2 * @]
  <2>1. /\ pruner[p].do = "shrink" /\ Delete(Oldest(DOMAIN rows, pruner[p].batch))
        /\ Goes(p, vacuum) \/ Goes(p, twice)
        /\ size' = size /\ faults' = faults /\ UNCHANGED outside
    BY <1>6 DEF Shrink
  <2>2. /\ TableOK' /\ EndsBounded' /\ OldRows
        /\ \A k \in DOMAIN rows' : rows'[k] = rows[k]
    BY <1>1, <1>3, <2>1, DeleteFacts
  <2>3. vacuum \in Pruning /\ vacuum.seen = 0 /\ vacuum.do = "vacuum"
    BY LimitsAssumption DEF Resting, Pruning
  <2>4. pruner[p] \in Pruning
    BY <1>2, <2>1
  <2>5. twice \in Pruning /\ twice.seen = pruner[p].seen /\ twice.do = "shrink"
    BY <2>1, <2>4 DEF Pruning
  <2>. HIDE DEF vacuum, twice
  <2>. QED
    BY <1>1, <1>2, <2>1, <2>2, <2>3, <2>5, PruningGoes
<1>7. CASE Vacuum(p)
  <2>1. /\ Goes(p, Resting) /\ rows' = rows /\ size' = Cardinality(DOMAIN rows)
        /\ faults' = faults /\ UNCHANGED outside
    BY <1>7 DEF Vacuum
  <2>2. Cardinality(DOMAIN rows) \in Nat
    BY <1>1, RowsAreFinite
  <2>3. TableOK' /\ EndsBounded' /\ OldRows
    BY <1>1, <1>3, <2>1, <2>2 DEF TypeOK, TableOK, EndsBounded, OldRows
  <2>. QED
    BY <1>1, <1>2, <2>1, <2>3, PruningGoes
<1>8. CASE PruningFails(p)
  <2>1. /\ Goes(p, Resting) /\ UNCHANGED <<rows, size>> /\ UNCHANGED outside
        /\ faults' \in 0 .. MaxFaults
    BY <1>1, <1>8, LimitsAssumption DEF PruningFails, StatementFails
  <2>2. TableOK' /\ EndsBounded' /\ OldRows
    BY <1>3, <2>1, SameRows
  <2>. QED
    BY <1>1, <1>2, <2>1, <2>2, PruningGoes
<1>. QED
  BY <1>4, <1>5, <1>6, <1>7, <1>8

-----------------------------------------------------------------------------
LEMMA InitInvariant == Init => IInv
<1>. SUFFICES ASSUME Init PROVE IInv
  OBVIOUS
<1>1. /\ rows = [k \in {} |-> Nothing] /\ lastId = 0 /\ size = 0
      /\ DOMAIN rows = {}
  BY DEF Init
<1>2. Nothing \in Info /\ Idle \in Call /\ Nothing.id = 0 /\ Idle.id = 0
      /\ Idle.do = "idle" /\ Resting.seen = 0 /\ Resting.do = "rest"
  BY DEF Info, Call, Nothing, Idle, Resting
<1>3. TypeOK
  <2>1. Cardinality(DOMAIN rows) = 0
    BY <1>1, FS_EmptySet
  <2>2. astray \in [Services -> BOOLEAN]
    BY DEF Init
  <2>3. /\ tracked \in [Services -> Info] /\ call \in [Services -> Call]
        /\ pruner \in [Pruners -> Pruning \union {Resting}]
        /\ deploying \in [Services -> Versions \union {NoVersion}]
    BY <1>2 DEF Init
  <2>4. faults \in 0 .. MaxFaults /\ lastId \in 0 .. MaxId
    BY LimitsAssumption DEF Init
  <2>. QED
    BY <1>1, <2>1, <2>2, <2>3, <2>4 DEF TypeOK
<1>4. EndsBounded
  BY <1>1 DEF EndsBounded
<1>5. ASSUME NEW s \in Services PROVE CollectorInv(s)
  BY <1>1, <1>2 DEF Init, CollectorInv
<1>6. ASSUME NEW p \in Pruners PROVE PrunerInv(p)
  BY <1>1, <1>2 DEF Init, PrunerInv
<1>. QED
  BY <1>3, <1>4, <1>5, <1>6 DEF IInv

LEMMA NextInvariant == IInv /\ [Next]_vars => IInv'
<1>. SUFFICES ASSUME IInv, [Next]_vars PROVE IInv'
  OBVIOUS
<1>1. CASE Recording
  <2>1. PICK s \in Services :
          \/ RecordDeploymentStart(s) \/ TrackDeployment(s)
          \/ RecordDeploymentSuccess(s) \/ RecordDeploymentFailure(s) \/ Finish(s)
          \/ RecordRollback(s)
    BY <1>1 DEF Recording
  <2>. QED
    BY <2>1, StartKeeps, TrackKeeps, VerdictKeeps, FinishKeeps, RollbackKeeps
<1>2. CASE RunPruning
  <2>1. PICK p \in Pruners :
          \/ PruneOldRecords(p) \/ SelectIdsToKeep(p) \/ DeleteOthers(p)
          \/ PruneByDatabaseSize(p) \/ Shrink(p) \/ Vacuum(p) \/ PruningFails(p)
    BY <1>2 DEF RunPruning
  <2>. QED
    BY <2>1, PruneOldKeeps, SelectKeeps, PruneKeeps
<1>3. CASE UNCHANGED vars
  BY <1>3 DEF vars, table, IInv, TypeOK, EndsBounded, CollectorInv, PrunerInv, RowIs,
              IsOpen
<1>. QED
  BY <1>1, <1>2, <1>3 DEF Next

\* In every reachable state the map, the calls and the prunings are in step with the
\* rows.
THEOREM Invariant == Spec => []IInv
BY InitInvariant, NextInvariant, PTL DEF Spec

\* The table, the map, the calls and the prunings keep their types, and the file
\* always has room for the rows there are.
THEOREM TypeCorrect == Spec => []TypeOK
<1>1. IInv => TypeOK
  BY DEF IInv
<1>. QED
  BY <1>1, Invariant, PTL

-----------------------------------------------------------------------------
\* INSERT leaves the rows there are.
LEMMA InsertLeaves ==
  ASSUME TypeOK, NEW s, NEW v, Insert(Started(s, v))
  PROVE  DOMAIN rows \subseteq DOMAIN rows' /\ \A k \in DOMAIN rows : rows'[k] = rows[k]
<1>1. lastId + 1 \notin DOMAIN rows
  BY LimitsAssumption DEF TypeOK
<1>. QED
  BY <1>1 DEF Insert

\* A row is rewritten by the UPDATE of the verdict it was given, or marked by a
\* rollback, and not otherwise; rows go in prunings alone.
LEMMA OnlyFinishRewrites ==
  ASSUME TypeOK, Next
  PROVE  /\ RunPruning \/ DOMAIN rows \subseteq DOMAIN rows'
         /\ \A k \in DOMAIN rows \intersect DOMAIN rows' :
              \/ rows'[k].verdict = rows[k].verdict /\ rows'[k].end = rows[k].end
              \/ \E s \in Services : Finish(s) /\ k = call[s].id
<1>1. CASE Recording
  <2>1. PICK s \in Services :
          \/ RecordDeploymentStart(s) \/ TrackDeployment(s)
          \/ RecordDeploymentSuccess(s) \/ RecordDeploymentFailure(s) \/ Finish(s)
          \/ RecordRollback(s)
    BY <1>1 DEF Recording
  <2>2. CASE rows' = rows
    BY <2>2
  <2>3. CASE \E v : Insert(Started(s, v))
    BY <2>3, InsertLeaves
  <2>4. CASE RecordDeploymentStart(s)
    BY <2>2, <2>3, <2>4 DEF RecordDeploymentStart
  <2>5. CASE TrackDeployment(s)
    BY <2>2, <2>5 DEF TrackDeployment, table
  <2>6. CASE RecordDeploymentSuccess(s)
    BY <2>2, <2>3, <2>6 DEF RecordDeploymentSuccess, UseRowInProgress, UseNewRow
  <2>7. CASE RecordDeploymentFailure(s)
    BY <2>2, <2>3, <2>7 DEF RecordDeploymentFailure, UseRowInProgress, UseNewRow
  <2>8. CASE Finish(s)
    <3>1. CASE rows' = [i \in DOMAIN rows |->
                          IF i = call[s].id
                          THEN [rows[i] EXCEPT !.verdict = call[s].verdict, !.end = Now]
                          ELSE rows[i]]
      BY <2>8, <3>1
    <3>. QED
      BY <2>2, <2>8, <3>1 DEF Finish
  <2>9. CASE RecordRollback(s)
    <3>1. PICK last :
            \E to \in Versions :
              rows' = [k \in DOMAIN rows \union {lastId + 1} |->
                         IF k = lastId + 1
                         THEN [service |-> s, version |-> to, verdict |-> "success",
                               end |-> Now, rollback |-> TRUE]
                         ELSE IF k \in last THEN [rows[k] EXCEPT !.rollback = TRUE]
                         ELSE rows[k]]
      BY <2>9 DEF RecordRollback
    <3>2. lastId + 1 \notin DOMAIN rows
      BY LimitsAssumption DEF TypeOK
    <3>3. \A k \in DOMAIN rows :
            [rows[k] EXCEPT !.rollback = TRUE].verdict = rows[k].verdict
              /\ [rows[k] EXCEPT !.rollback = TRUE].end = rows[k].end
      BY DEF TypeOK, Row
    <3>. QED
      BY <3>1, <3>2, <3>3
  <2>. QED
    BY <2>1, <2>4, <2>5, <2>6, <2>7, <2>8, <2>9
<1>2. CASE RunPruning
  <2>1. \A k \in DOMAIN rows' : rows'[k] = rows[k]
    <3>1. \/ rows' = rows
          \/ \E X : Delete(X)
      BY <1>2 DEF RunPruning, PruneOldRecords, SelectIdsToKeep, DeleteOthers,
                  PruneByDatabaseSize, Shrink, Vacuum, PruningFails
    <3>. QED
      BY <3>1 DEF Delete, Restrict
  <2>. QED
    BY <1>2, <2>1
<1>. QED
  BY <1>1, <1>2 DEF Next

\* A recorded verdict is final (collector.go): no later call rewrites the verdict or
\* the end of a finished row, unless a start of its service could not be recorded.
THEOREM VerdictsAreFinal == Spec => FinishedRowsAreFinal
<1>1. IInv /\ [Next]_vars =>
        [ \A i \in DOMAIN rows \intersect DOMAIN rows' :
            rows[i].verdict # "open" /\ ~astray[rows[i].service] =>
              rows'[i].verdict = rows[i].verdict /\ rows'[i].end = rows[i].end ]_vars
  <2>. SUFFICES ASSUME IInv, Next,
                       NEW k \in DOMAIN rows \intersect DOMAIN rows',
                       rows[k].verdict # "open", ~astray[rows[k].service]
                PROVE  rows'[k].verdict = rows[k].verdict /\ rows'[k].end = rows[k].end
    OBVIOUS
  <2>1. ASSUME NEW s \in Services, Finish(s), k = call[s].id PROVE FALSE
    <3>1. CollectorInv(s) /\ call[s].do = "finish" /\ call[s] # Idle
      <4>1. CollectorInv(s)
        BY DEF IInv
      <4>2. call[s].do = "finish"
        BY <2>1 DEF Finish
      <4>. QED
        BY <4>1, <4>2 DEF Idle
    <3>2. rows[k].service = s /\ (rows[k].verdict = "open" \/ astray[s])
      BY <2>1, <3>1 DEF CollectorInv, RowIs, IsOpen
    <3>. QED
      BY <3>2
  <2>2. TypeOK
    BY DEF IInv
  <2>. QED
    BY <2>1, <2>2, OnlyFinishRewrites
<1>. QED
  BY <1>1, Invariant, PTL DEF Spec, FinishedRowsAreFinal

\* A verdict whose call returns nil is in the row of the service and the version it
\* was given for, unless the row has been pruned (UpdateDeploymentSuccess and
\* UpdateDeploymentFailure, dao.go).
THEOREM VerdictsReachTheirRow == Spec => VerdictIsRecorded
<1>1. IInv /\ [Next]_vars =>
        [ \A s \in Services :
            call[s].do = "finish" /\ call'[s] = Idle /\ faults' = faults
              /\ call[s].id \in DOMAIN rows =>
                /\ rows'[call[s].id].service = s
                /\ rows'[call[s].id].version = call[s].version
                /\ rows'[call[s].id].verdict = call[s].verdict ]_vars
  <2>. SUFFICES ASSUME IInv, Next, NEW s \in Services,
                       call[s].do = "finish", call'[s] = Idle, faults' = faults,
                       call[s].id \in DOMAIN rows
                PROVE  /\ rows'[call[s].id].service = s
                       /\ rows'[call[s].id].version = call[s].version
                       /\ rows'[call[s].id].verdict = call[s].verdict
    OBVIOUS
  <2>1. /\ TypeOK /\ CollectorInv(s) /\ call[s] # Idle /\ call'[s] # call[s]
        /\ faults \in Nat
    BY LimitsAssumption DEF IInv, TypeOK, Idle
  <2>2. Finish(s)
    <3>1. CASE RunPruning
      BY <2>1, <3>1 DEF RunPruning, PruneOldRecords, SelectIdsToKeep, DeleteOthers,
                        PruneByDatabaseSize, Shrink, Vacuum, PruningFails, outside
    <3>2. CASE Recording
      <4>1. PICK t \in Services :
              \/ RecordDeploymentStart(t) \/ TrackDeployment(t)
              \/ RecordDeploymentSuccess(t) \/ RecordDeploymentFailure(t) \/ Finish(t)
              \/ RecordRollback(t)
        BY <3>2 DEF Recording
      <4>2. \/ call' = call \/ \E c : call' = [call EXCEPT ![t] = c]
        BY <4>1 DEF RecordDeploymentStart, TrackDeployment, RecordDeploymentSuccess,
                    RecordDeploymentFailure, UseRowInProgress, UseNewRow, FinishLater,
                    Finish, RecordRollback, Returns, Becomes
      <4>3. t = s
        BY <2>1, <4>2 DEF TypeOK
      <4>4. call[s].do # "track" /\ call[s] # Idle
        BY <2>1
      <4>5. call' # call
        BY <2>1
      <4>. QED
        BY <4>1, <4>3, <4>4, <4>5
           DEF RecordDeploymentStart, TrackDeployment, RecordDeploymentSuccess,
               RecordDeploymentFailure, RecordRollback
    <3>. QED
      BY <3>1, <3>2 DEF Next
  <2>3. rows' = [i \in DOMAIN rows |->
                   IF i = call[s].id
                   THEN [rows[i] EXCEPT !.verdict = call[s].verdict, !.end = Now]
                   ELSE rows[i]]
    <3>1. ~StatementFails
      BY <2>1 DEF StatementFails
    <3>. QED
      BY <2>2, <3>1 DEF Finish
  <2>4. /\ rows[call[s].id] \in Row /\ rows[call[s].id].service = s
        /\ rows[call[s].id].version = call[s].version
    BY <2>1 DEF TypeOK, CollectorInv, RowIs
  <2>5. rows'[call[s].id] =
          [rows[call[s].id] EXCEPT !.verdict = call[s].verdict, !.end = Now]
    BY <2>3
  <2>. QED
    BY <2>4, <2>5 DEF Row
<1>. QED
  BY <1>1, Invariant, PTL DEF Spec, VerdictIsRecorded

\* The prunings (dao.go) take the oldest rows of a service first, except for rows
\* that were inserted after the rows to keep had been selected.
THEOREM OldestAreTaken == Spec => OldestSeenGoFirst
<1>1. IInv /\ [Next]_vars =>
        [ \A i \in DOMAIN rows \ DOMAIN rows', j \in DOMAIN rows' :
            rows'[j].service = rows[i].service /\ j < i =>
              \E p \in Pruners :
                pruner[p].do = "delete" /\ pruner[p].seen < i ]_vars
  <2>. SUFFICES ASSUME IInv, Next, NEW i \in DOMAIN rows \ DOMAIN rows',
                       NEW j \in DOMAIN rows',
                       rows'[j].service = rows[i].service, j < i
                PROVE  \E p \in Pruners :
                         pruner[p].do = "delete" /\ pruner[p].seen < i
    BY DEF vars, table
  <2>1. TypeOK /\ lastId \in Nat /\ DOMAIN rows \subseteq 1 .. lastId
    BY LimitsAssumption DEF IInv, TypeOK
  <2>2. RunPruning
    BY <2>1, OnlyFinishRewrites
  <2>3. PICK p \in Pruners :
          \/ PruneOldRecords(p) \/ SelectIdsToKeep(p) \/ DeleteOthers(p)
          \/ PruneByDatabaseSize(p) \/ Shrink(p) \/ Vacuum(p) \/ PruningFails(p)
    BY <2>2 DEF RunPruning
  <2>4. ASSUME NEW X, Delete(X)
        PROVE  /\ i \in X /\ j \in DOMAIN rows /\ j \notin X
               /\ rows[j].service = rows[i].service
    BY <2>4 DEF Delete, Restrict
  <2>5. CASE PruneOldRecords(p)
    <3>1. PICK old \in 0 .. lastId : Delete(1 .. old)
      BY <2>1, <2>5 DEF PruneOldRecords
    <3>2. i \in 1 .. old /\ j \notin 1 .. old /\ j \in 1 .. lastId
      BY <2>1, <2>4, <3>1
    <3>. QED
      BY <2>1, <3>1, <3>2
  <2>6. CASE DeleteOthers(p)
    <3>1. PICK s \in pruner[p].of : Delete(RowsOf(s) \ pruner[p].keep)
      BY <2>6 DEF DeleteOthers
    <3>2. /\ i \in RowsOf(s) /\ i \notin pruner[p].keep
          /\ j \in DOMAIN rows /\ rows[j].service = rows[i].service
          /\ j \notin RowsOf(s) \/ j \in pruner[p].keep
      BY <2>4, <3>1
    <3>3. j \in pruner[p].keep /\ rows[i].service = s
      BY <3>2 DEF RowsOf
    <3>4. /\ pruner[p].do = "delete" /\ PrunerInv(p)
          /\ pruner[p].seen \in Nat /\ i \in Nat
      BY <2>1, <2>6, LimitsAssumption
         DEF DeleteOthers, IInv, TypeOK, Pruning, Resting
    <3>5. ~ (i <= pruner[p].seen)
      BY <3>1, <3>2, <3>3, <3>4 DEF PrunerInv
    <3>. QED
      BY <3>4, <3>5
  <2>7. CASE Shrink(p)
    <3>1. /\ Delete(Oldest(DOMAIN rows, pruner[p].batch)) /\ pruner[p].batch \in Nat
      BY <2>1, <2>7 DEF Shrink, TypeOK, Pruning, Resting
    <3>2. i \in Oldest(DOMAIN rows, pruner[p].batch)
          /\ j \notin Oldest(DOMAIN rows, pruner[p].batch) /\ j \in DOMAIN rows
      BY <2>4, <3>1
    <3>. QED
      BY <2>1, <3>1, <3>2, LimitTakesAnEnd
  <2>8. CASE SelectIdsToKeep(p) \/ PruneByDatabaseSize(p) \/ Vacuum(p) \/ PruningFails(p)
    BY <2>8 DEF SelectIdsToKeep, PruneByDatabaseSize, Vacuum, PruningFails
  <2>. QED
    BY <2>3, <2>5, <2>6, <2>7, <2>8
<1>. QED
  BY <1>1, Invariant, PTL DEF Spec, OldestSeenGoFirst

-----------------------------------------------------------------------------
(***************************************************************************)
(* The retention manager.                                                  *)
(***************************************************************************)
\* The lock is held across steps exactly by the caller that waits for the goroutine.
HolderWaits ==
  \A c \in Callers : pc[c] \in {"stopping", "updating"} <=> holder = c

\* Nothing can start again what it waits for.
HeldIsStopped == holder # NoCaller => ~ticking /\ stopCh = "closed"

\* A channel that is closed and not being waited for was closed by Stop.
ClosedByStop == holder = NoCaller /\ stopCh = "closed" => stopped

RunningEnabled == running => enabled

RetentionInv ==
  /\ RetentionTypeOK /\ HolderWaits /\ HeldIsStopped /\ ClosedByStop /\ RunningEnabled
  /\ RunningIsTrue /\ ClosesOnce

LEMMA RetentionInitInvariant == RetentionInit => RetentionInv
  <1> SUFFICES ASSUME RetentionInit PROVE RetentionInv
    OBVIOUS
  <1>1. RetentionTypeOK
    <2>1. loops \in 0 .. 1 /\ stopCh \in {"open", "closed"}
      BY DEF RetentionInit
    <2>2. /\ pc \in [Callers -> {"idle", "stopping", "updating", "restart"}]
          /\ wanted \in [Callers -> BOOLEAN]
      BY DEF RetentionInit
    <2>3. /\ enabled \in BOOLEAN /\ running \in BOOLEAN /\ ticking \in BOOLEAN
          /\ tick \in BOOLEAN /\ panicked \in BOOLEAN /\ stopped \in BOOLEAN
          /\ revived \in BOOLEAN /\ holder \in Callers \union {NoCaller}
      BY Zenon DEF RetentionInit
    <2>4. QED
      BY <2>1, <2>2, <2>3 DEF RetentionTypeOK
  <1>2. HolderWaits
    BY CallersAssumption DEF RetentionInit, HolderWaits
  <1>3. /\ HeldIsStopped /\ ClosedByStop /\ RunningEnabled /\ RunningIsTrue
        /\ ClosesOnce
    BY DEF RetentionInit, HeldIsStopped, ClosedByStop, RunningEnabled, RunningIsTrue, ClosesOnce
  <1>4. QED
    BY <1>1, <1>2, <1>3 DEF RetentionInv

\* The body of Start, which Start and UpdateConfig share.
LEMMA StartLoopKeeps ==
  ASSUME RetentionInv, NEW c \in Callers, holder = NoCaller, StartLoop(c),
         UNCHANGED <<enabled, stopCh, holder, wanted, panicked, stopped>>,
         pc' \in [Callers -> {"idle", "stopping", "updating", "restart"}],
         \A d \in Callers : pc'[d] \notin {"stopping", "updating"}
  PROVE  RetentionInv'
  <1>1. RetentionTypeOK'
    <2>1. loops' \in 0 .. 1
      BY DEF RetentionInv, RetentionTypeOK, RunningIsTrue, StartLoop
    <2>2. /\ running' \in BOOLEAN /\ ticking' \in BOOLEAN /\ tick' \in BOOLEAN
          /\ revived' \in BOOLEAN
      BY Zenon DEF RetentionInv, RetentionTypeOK, StartLoop
    <2>3. QED
      BY <2>1, <2>2 DEF RetentionInv, RetentionTypeOK
  <1>2. HolderWaits' /\ HeldIsStopped' /\ ClosedByStop'
    BY CallersAssumption DEF RetentionInv, HolderWaits, HeldIsStopped, ClosedByStop, StartLoop
  <1>3. RunningEnabled'
    BY DEF RetentionInv, RunningEnabled, StartLoop, MayStart
  <1>4. RunningIsTrue'
    BY DEF RetentionInv, RetentionTypeOK, RunningIsTrue, ClosedByStop, StartLoop
  <1>5. ClosesOnce'
    BY DEF RetentionInv, RetentionTypeOK, ClosesOnce, StartLoop
  <1>6. QED
    BY <1>1, <1>2, <1>3, <1>4, <1>5 DEF RetentionInv

\* The new configuration, applied to a manager whose goroutine has ended.
LEMMA ApplyKeeps ==
  ASSUME RetentionInv, NEW c \in Callers, holder \in {c, NoCaller}, loops = 0, ~ticking,
         wanted' \in [Callers -> BOOLEAN], UNCHANGED <<ticking, panicked>>, Apply(c)
  PROVE  RetentionInv'
  <1>1. RetentionTypeOK'
    BY DEF RetentionInv, RetentionTypeOK, Apply, NewChannel, ReleasedLock
  <1>2. HolderWaits'
    <2>1. \A d \in Callers \ {c} : holder # d
      BY CallersAssumption
    <2>2. QED
      BY <2>1, CallersAssumption DEF RetentionInv, RetentionTypeOK, HolderWaits, Apply, ReleasedLock
  <1>3. HeldIsStopped' /\ ClosedByStop' /\ RunningEnabled' /\ RunningIsTrue'
    BY DEF RetentionInv, HeldIsStopped, ClosedByStop, RunningEnabled, RunningIsTrue, Apply,
           NewChannel, ReleasedLock
  <1>4. ClosesOnce'
    BY DEF RetentionInv, ClosesOnce, Apply
  <1>5. QED
    BY <1>1, <1>2, <1>3, <1>4 DEF RetentionInv

\* The stop of a running manager: the channel is closed a second time only when
\* the manager has been revived.
LEMMA StopLoopKeeps ==
  ASSUME RetentionInv, NEW c \in Callers, holder = NoCaller, running,
         NEW place \in {"stopping", "updating"}, StopLoop(c, place),
         wanted' \in [Callers -> BOOLEAN],
         UNCHANGED <<enabled, running, tick, loops, history>>
  PROVE  RetentionInv'
  <1>1. RetentionTypeOK'
    BY DEF RetentionInv, RetentionTypeOK, StopLoop, history
  <1>2. HolderWaits'
    BY CallersAssumption DEF RetentionInv, RetentionTypeOK, HolderWaits, StopLoop
  <1>3. HeldIsStopped' /\ ClosedByStop' /\ RunningEnabled' /\ RunningIsTrue'
    BY CallersAssumption
    DEF RetentionInv, HeldIsStopped, ClosedByStop, RunningEnabled, RunningIsTrue, StopLoop
  <1>4. ClosesOnce'
    BY DEF RetentionInv, RunningIsTrue, ClosesOnce, StopLoop, history
  <1>5. QED
    BY <1>1, <1>2, <1>3, <1>4 DEF RetentionInv

LEMMA RetentionNextKeeps == RetentionInv /\ [RetentionNext]_retentionVars => RetentionInv'
  <1> SUFFICES ASSUME RetentionInv, [RetentionNext]_retentionVars PROVE RetentionInv'
    OBVIOUS
  <1>1. ASSUME NEW c \in Callers, Start(c) PROVE RetentionInv'
    <2>1. \A d \in Callers : pc'[d] \notin {"stopping", "updating"}
      BY <1>1, CallersAssumption DEF RetentionInv, HolderWaits, Start, calls
    <2>2. QED
      BY <1>1, <2>1, StartLoopKeeps DEF Start, calls, RetentionInv, RetentionTypeOK
  <1>2. ASSUME NEW c \in Callers, Stop(c) PROVE RetentionInv'
    BY <1>2, StopLoopKeeps DEF Stop, RetentionInv, RetentionTypeOK
  <1>3. ASSUME NEW c \in Callers, StopReturns(c) PROVE RetentionInv'
    <2>1. RetentionTypeOK'
      BY <1>3 DEF RetentionInv, RetentionTypeOK, StopReturns
    <2>2. holder = c /\ ~ticking
      BY <1>3, CallersAssumption DEF RetentionInv, HolderWaits, HeldIsStopped, StopReturns
    <2>3. HolderWaits'
      BY <1>3, <2>2, CallersAssumption DEF RetentionInv, RetentionTypeOK, HolderWaits, StopReturns
    <2>4. HeldIsStopped' /\ ClosedByStop' /\ RunningEnabled' /\ RunningIsTrue'
      BY <1>3, <2>2
      DEF HeldIsStopped, ClosedByStop, RunningEnabled, RunningIsTrue, StopReturns,
          LoopIsDone
    <2>5. ClosesOnce'
      BY <1>3 DEF RetentionInv, ClosesOnce, StopReturns
    <2>6. QED
      BY <2>1, <2>3, <2>4, <2>5 DEF RetentionInv
  <1>4. ASSUME NEW c \in Callers, UpdateConfig(c) PROVE RetentionInv'
    <2>1. wanted' \in [Callers -> BOOLEAN]
      BY <1>4 DEF RetentionInv, RetentionTypeOK, UpdateConfig
    <2>2. CASE running
      BY <1>4, <2>1, <2>2, StopLoopKeeps DEF UpdateConfig
    <2>3. CASE ~running
      BY <1>4, <2>1, <2>3, ApplyKeeps DEF RetentionInv, RunningIsTrue, UpdateConfig
    <2>4. QED
      BY <2>2, <2>3
  <1>5. ASSUME NEW c \in Callers, ApplyStopped(c) PROVE RetentionInv'
    <2>1. holder = c /\ ~ticking
      BY <1>5, CallersAssumption DEF RetentionInv, HolderWaits, HeldIsStopped, ApplyStopped
    <2>2. QED
      BY <1>5, <2>1, ApplyKeeps DEF ApplyStopped, LoopIsDone, RetentionInv, RetentionTypeOK
  <1>6. ASSUME NEW c \in Callers, Restart(c) PROVE RetentionInv'
    <2>1. /\ pc' \in [Callers -> {"idle", "stopping", "updating", "restart"}]
          /\ \A d \in Callers : pc'[d] \notin {"stopping", "updating"}
      BY <1>6, CallersAssumption DEF RetentionInv, RetentionTypeOK, HolderWaits, Restart
    <2>2. QED
      BY <1>6, <2>1, StartLoopKeeps DEF Restart
  <1>7. CASE TickerFires \/ LoopTicks
    <2>1. RetentionTypeOK'
      BY <1>7 DEF RetentionInv, RetentionTypeOK, TickerFires, LoopTicks, manager, calls, history
    <2>2. /\ HolderWaits' /\ HeldIsStopped' /\ ClosedByStop' /\ RunningEnabled'
          /\ RunningIsTrue' /\ ClosesOnce'
      BY <1>7
      DEF RetentionInv, HolderWaits, HeldIsStopped, ClosedByStop, RunningEnabled,
          RunningIsTrue, ClosesOnce, TickerFires, LoopTicks, manager, calls, history
    <2>3. QED
      BY <2>1, <2>2 DEF RetentionInv
  <1>8. CASE LoopEnds
    BY <1>8
    DEF RetentionInv, RetentionTypeOK, HolderWaits, HeldIsStopped, ClosedByStop, RunningEnabled,
        RunningIsTrue, ClosesOnce, LoopEnds, manager, calls, history
  <1>9. CASE UNCHANGED retentionVars
    BY <1>9
    DEF RetentionInv, RetentionTypeOK, HolderWaits, HeldIsStopped, ClosedByStop, RunningEnabled,
        RunningIsTrue, ClosesOnce, retentionVars, manager, calls, history
  <1>10. QED
    BY <1>1, <1>2, <1>3, <1>4, <1>5, <1>6, <1>7, <1>8, <1>9
    DEF RetentionNext, Step, Panicked, RunPruningNow

\* The invariant holds in every reachable state.
THEOREM RetentionInvariant == RetentionSpec => []RetentionInv
  BY RetentionInitInvariant, RetentionNextKeeps, PTL DEF RetentionSpec

\* The state keeps its type; in particular there is never more than one goroutine
\* waiting for the ticker.
THEOREM RetentionTypeCorrect == RetentionSpec => []RetentionTypeOK
  BY RetentionInvariant, PTL DEF RetentionInv

\* However many goroutines call Start, Stop and UpdateConfig: the channel is
\* closed twice only after a Start that came when Stop had ended the loop.
THEOREM ChannelClosedOnce == RetentionSpec => []ClosesOnce
  BY RetentionInvariant, PTL DEF RetentionInv

\* What the manager says of itself under its lock is so.
THEOREM RunningSaysTheTruth == RetentionSpec => []RunningIsTrue
  BY RetentionInvariant, PTL DEF RetentionInv

\* A manager with pruning disabled does not run.
THEOREM DisabledDoesNotRun == RetentionSpec => []RunsOnlyEnabled
  <1>1. RetentionInv => RunsOnlyEnabled
    BY DEF RetentionInv, RunningEnabled, RunsOnlyEnabled
  <1>2. QED
    BY <1>1, RetentionInvariant, PTL
================================================================================
