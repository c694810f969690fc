# A verification development of dosync

dosync keeps a Docker Compose deployment on the newest images: a polling loop
asks the registries for tags and rewrites the compose file, and a set of
packages (deployment strategies, health checks, rollback, dependency ordering,
metrics) carries out rolling updates of a service with several replicas. The
modules in this directory model the control of those parts, TLC checks them on
small instances, and TLAPS proves the main results for every value of the
constants. Paths below are relative to the root of the repository; `map` in
`PROJECT.json` names, for each definition, the lines it translates.

    tlc -workers 2 -config MCRollout.cfg MCRollout     # a run
    tlapm RolloutProofs.tla                            # the proofs of a module

## 1. The system

### 1.1 Components, their state, their operations

| component | state | operations | model |
|---|---|---|---|
| one-at-a-time, percentage, canary strategies (`internal/strategy`) | configuration, `updatedReplicas`, the two nested loops, the counters of `waitForHealth` | `Configure`, `Execute`, the rollback closure | `StrategyPlan`, `Rollout`, `Deployment` |
| blue/green strategy (`internal/strategy/blue_green.go`) | green replicas, announced traffic | `Configure`, `Execute` | `BlueGreen` |
| sync loop and compose rewriting (`internal/syncer`) | compose file, `docker-compose.backup.yml`, running containers, the snapshot of a cycle | `StartSync`, `checkAndUpdateServices`, `updateDockerComposeAndRestart` | `SyncLoop` |
| dependency manager (`internal/dependency`) | dependency graph, the marks and the result of a search | `BuildDependencyGraph`, `GetUpdateOrder`, `GetDependents`, `ShouldUpdateDependents` | `UpdateOrder` |
| rollback controller and backup manager (`internal/rollback`) | backup directory, compose file, containers | `PrepareRollback`, `Rollback`, `RollbackToVersion`, `GetRollbackHistory`, `CleanupOldBackups`, `ShouldRollback` | `Backups` |
| health checkers (`internal/health`) | status, two counters, time of the last probe | `Check`, `CheckWithDetails`, `Configure` | `HealthWait` |
| replica manager and detectors (`internal/replica`) | cache of replicas by service | `DetectReplicas` of both detectors, `GetServiceReplicas`, `GetAllReplicas`, `RefreshReplicas`, `UpdateReplica`, `RollbackReplica` | `ReplicaDetector`, the cache in `UpdateManager`, the last two in `Rollout` |
| rolling-update manager and error recovery (`internal/manager`) | none of its own; drives all of the above | `Update`, `Rollback`, `RollbackToVersion`, `HandleError`, `CleanupAfterFailure`, `EnsureCompletion` | `UpdateManager` |
| metrics store, collector, retention (`internal/metrics`) | deployment records, in-progress records; the retention goroutine, its ticker, channel and lock | `Record...`, `Prune...`; `Start`, `Stop`, `UpdateConfig`, `RunPruningNow` | `Metrics`; `Retention` |
| deployment monitor (`internal/rollback/detector.go`) | deployments under way, their attempts | `StartMonitoring`, `StopMonitoring`, `CheckDeploymentHealth`, `ShouldRollback` | `DeploymentMonitor` |
| rolling update of the CLI (`cmd/sync.go`) | the backup directory and the compose file | `handleRollingUpdate` | `RollingUpdate`, on `Backups` |
| tag selection (`syncer.go`, `SelectTagByImagePolicy`) | none | filter, extract, sort, pick | `TagPolicy`; `SyncLoop` abstracts a tag to its rank |
| registries (`internal/registry`) | HTTP clients | `ParseImageURL`, `NewRegistryClient`, `CreateAuthenticator`, `GetTags` | `Registries`, in `SyncLoop`; what the network answers is a choice |
| notifications (`internal/notification`) | SMTP client | `SendDeployment...` | not modelled; what is sent is in `UpdateManager` |
| configuration (`internal/config`) | `sync.Once`, cached config | `LoadConfig` | not modelled; the configuration is a constant |
| dashboard, logging, examples, installation | none | read-only HTTP pages, prints | not modelled: presentation and I/O |

### 1.2 How they interact

* The polling loop (`main.go` -> `cmd` -> `syncer.StartSync`) is a single
  goroutine: a ticker, a range over the services of the parsed file, and for
  each one a listing over HTTP and possibly a rewrite and a `docker compose up`.
  The file on disk, the containers and the registry are what it shares with
  the world; they change between its steps, and a crash can fall between any
  two of them.
* A strategy is called with a replica list from the replica manager and a health
  checker from the factory. One checker serves *all* the replicas of a
  deployment; both the checker and `waitForHealth` count to the thresholds.
* `Execute` runs under `context.WithTimeout`: the deadline fires beside the
  loops, and only some places look at it.
* `UpdateReplica` of the real replica manager is an operation on the whole
  service: it rewrites the compose file and runs `docker compose up` for it.
* The rollback controller, the syncer and the replica manager all write the
  same compose file; backups are whole-file copies found by a name prefix.
* The rolling-update manager calls dependency manager, replica manager,
  strategy, health checker, rollback controller, collector and notifiers in one
  call of `Update`, with recovery attempts in between. Nothing outside the
  tests constructs it; `cmd/sync.go` drives a strategy and a rollback
  controller directly, with a replica manager without detectors.

### 1.3 What is hard, and what makes each part correct

* **Strategies.** A failure, a deadline or a flapping replica at any point of
  two nested loops. Correct: success only when every replica was updated and
  found healthy; unverified new replicas stay within one batch; a failure
  takes back what was updated; the call returns.
* **Blue/green.** The deadline in the verification period. Correct: the switch
  waits for the last green replica, a failure keeps blue.
* **Sync loop.** Decisions on a stale snapshot, a line scanner for YAML, faults
  and crashes between truncating, writing and restarting. Correct: an image line
  keeps its own repository (of a line with one colon that stands before a port or a
  digest the code does not), nothing goes back to an older tag, the backup is
  the file before the change, and services converge to the newest tag.
* **Dependency order.** Recursion with two mark sets. Correct: topological,
  complete, free of repetition; a cycle is reported exactly when there is one.
* **Backups.** Names as keys, times in names, partial copies and deletions.
  Correct: a rollback restores what was prepared and can be repeated; history
  is bounded; services do not touch each other's files (those whose names share a
  prefix do).
* **Health.** Shared status, caching by time, thresholds counted twice. Correct:
  a verdict on a replica rests on probes made while it was waited for (docker and
  command probe that replica, http and tcp a placeholder); the wait ends.
* **Deployment monitor.** Attempts counted beside a controller that rewrites the
  same backups. Correct: it lets go of a deployment only when it has restored
  what was prepared.
* **Tag selection.** Five loops over lists in whatever order the registry has.
  Correct: the best of the eligible tags, and no change of mind over a tag that is
  not the best.
* **Metrics.** Recording calls of several statements, beside prunings of several
  statements. Correct: a verdict goes to the row of its deployment and stays;
  prunings take the oldest rows.
* **Retention.** A goroutine, a ticker, a channel that can be closed once, and a
  lock that `UpdateConfig` lets go of in the middle. Correct: what the manager says
  of itself is true, a disabled one does not run, nothing panics, every call
  returns.
* **Replica manager.** Replicas are recognised by names, by two detectors whose
  answers are appended, and cached. Correct: the cache holds what each of them found
  when it looked, each container once.
* **Rolling update of the CLI.** A walk over services that prepares, fails and
  rolls back whole files, in any order. Correct: a walk that updates nothing changes
  nothing.
* **Registries.** The registry is guessed from the shape of the name. Correct: the
  tags of an image come from where it is pulled from.
* **Manager.** Every call can fail, recovery can fail in its turn, and after a
  recovery `Update` goes on with what it holds. Correct: nothing broken is left
  behind the walk, nothing rolled back is updated again, and the answer is what
  was recorded and notified (an error of the final checks is neither).

`PROJECT.json` lists the hazards at their lines, with the properties that watch
them.

## 2. Modules and how they correspond to the code

Module names in this section carry their MC module: `MC<Name>.tla` gives the
constants their values, `MC<Name>.cfg` the run that must pass.

**`StrategyPlan`** is the arithmetic: defaults and validation, batch sizes and
ends, thresholds. Everything is integer arithmetic as in the code
(`int(float64(n)*p/100)` and `(n*p)/100` agree on the values `Validate` lets
through). **`Rollout`** is one call of `Execute`. `pc` is the place in the
function; `base` the number of replicas in finished batches, `next` and
`check` the positions of the update loop and the health loop; `ok` and `bad`
the counters of `waitForHealth`. `Expire` is the timer of the context. Each
error return goes through `Fail`, which is the rollback closure, or `Abort`,
where the code returns without calling it. `executeCommand` is a placeholder
that always fails, so a configured hook always fails. The constant
`PerReplica` chooses between the replica manager the strategy interface
describes and the real one. `culprit`, `undoFailed`, `dummyUndo`, `run`,
`late` are history for the properties; `run` counts, for each replica, the checks in
a row that passed, in the `waitForHealth` that verifies it. **`Deployment`** is the abstract
specification: waves of bounded size, each opened only when the earlier ones are
confirmed, success only with everything confirmed, after a failure replicas
are only taken back. `KeepsPromise` is the refinement, by `Promise`.

**`BlueGreen`** is `Execute` of the fourth strategy. Switching and removing are
prints in the code, so `traffic` and `blueRemoved` stand for what it announces.

**`SyncLoop`** is the polling loop. A compose file is the sequence of the lines
the line scanner distinguishes: bare keys, and image lines with the form of the value
and quotes. `Forms` says where the colons stand: none, one before a tag, one before
a port (`host:5000/web`) or a digest (`web@sha256:hex`), two or more. The code takes any
one colon for that of a tag (`OneColon`), so that of the two forms in the middle
(`Misread`) `Rewrite` makes `host:` and the new tag, or `web@sha256:` and the new tag;
`lost` are the lines that name no repository of their own any more. `CurrentTag` is
likewise what stands behind the first colon. A tag is its service and rank. Opening for write truncates (`Create`), writing is a separate step
(`Flush`), and a crash in between leaves a prefix of the lines. `Publish` is
the registry. `RegistryIgnoresTag` says whether a registry lists the tags of
`repo:tag`, which is the path the code asks for.

**`Registries`** is the part of a cycle between an image and its tags: the type that
`ParseImageURL` guesses from the name, the client and the authenticator there are
for the type, and what each `GetTags` needs and asks. `Reference` holds what the
guess looks at (a dot in the first part, the number of slashes) and where docker
really pulls the image from; `Configuration` what `dosync.yaml` and the environment
say. A registry is taken not to have the repositories of another one. `SyncLoop`
uses it in `HasTagList`.

**`UpdateOrder`** is the depth-first search of `GetUpdateOrder`. The recursive
closure `visit` is an explicit stack of frames, a frame being a service and
its dependencies still to be visited; `Visit` is the head of the function
(temporary mark, visited, or enter), `Leave` its end. No operator is recursive.

**`Backups`** is the backup manager with the controller on top. A name is
the sequence of its parts between dashes, because that is what
`GetBackupHistory` splits; `names` gives each service one of the `Namings`, and
`Entries` are the files that begin with the name and a dash, of whatever service.
`Mistaken(s, t)` says that the files of `t` are among those of `s`, as with `web` and
`web-api`. Times only move forward: a clock set back is not modelled. `Timestamp` is the time in the name (local time read
as UTC, hence `Offset`) or, when it is not found, the modification time.
`Excess` and `LeftOver` are the deletions of the pruning and those left when
one fails. Where `sort.Slice` leaves the order of equal times open, so do they.

**`DeploymentMonitor`** extends `Backups` with the monitor of `detector.go`, which
reads the same directory and copies a backup over the same compose file. Every
step of `Backups` may come between two of its own (`MonitorNext`). `monitored` is
`CurrentDeployments`; of the attempts it keeps how many are left, since the code
only compares their number with the maximum. `Deployments` says what
`StartMonitoring` is called with. Its rollback replaces the file and
restarts nothing, so `running` is unchanged.

**`RollingUpdate`** extends that with the walks of `dosync sync --rolling-update`. `walk`
is the place in the loop (`next`, `prepare`, `execute`, `rollback`), the services
left, the one at hand and the flag. Preparing and rolling back are the actions of
`Backups` on the same directory. `Execute` always fails: `handleRollingUpdate` makes
its replica manager with `NewReplicaManager`, which has no detectors, and
`detectReplicas` is an error then (`replica/manager.go:111`). A behaviour has either the
controller and the monitor at work (`walk.step = "off"`), or walks, with updates by
other means between them.

**`TagPolicy`** is `SelectTagByImagePolicy`. A tag, and what the capture group
finds in it, is a record of what the code asks of a text: its place as a string, as a
version, as a number, and whether it is digits or a release. The lists the code
makes of the list (filtered, extracted, parsed, in the range) are sets of its positions:
each is a part of it, in its order. `PublishTag` inserts a
tag anywhere in the list, and `selected` is the answer for the list there is. The
properties define the best tags over the *set* of tags, without loops or
positions, from the description of the policies. They make two exceptions
(`Misled`): a list for the semver policy whose first value is all digits is taken for
one without versions, and a list for the numerical policy whose first number is NaN,
which `ParseFloat` accepts, is decided by that tag, since no comparison displaces it.

**`HealthWait`** is a checker under the wait of a strategy. `age` is the number
of seconds since the last probe; `ShouldCheck` is the cache; `Count` is one
round of `waitForHealth`. The four kinds differ in whether the answer is the
status or the probe (`Answer`), in what a probe can find (`Findings`), and in what is
probed (`Target`): docker and command checkers probe the container of the replica,
http and tcp checkers `localhost`, whatever replica they are given (`http.go:69`,
`tcp.go:62`). `lastProbe` is history: for each replica the last probe made while it was
waited for, what it was of and what it found.

**`Metrics`** is the collector, its map of deployments in progress, and the
statements of the DAO. A statement or a transaction is a step (the pool has one
connection); a call of the collector is two steps, a pruning as many as it has
statements, and anything may come between them. `call` and `pruner` are the
calls under way with their local variables. `size` is the size of the file in rows: it
only shrinks at `VACUUM`. `deploying` and `astray` are history.

**`Retention`** is the life cycle of the manager of those prunings. Callers are
goroutines; what one does under `runningMu` without blocking is a step, and `holder`
is who keeps the lock while waiting for the goroutine (`wg.Wait()`). `UpdateConfig`
is three steps when the manager runs: close and wait, apply and release the lock,
and `Restart`. The goroutine takes a tick or ends on a closed channel. Closing a
closed channel is a panic, which ends the process. `stopped` and `revived` are
history: whether `Start` was called after a `Stop`, with no `UpdateConfig` between.

**`ReplicaDetector`** is what a detector finds in a world, that is the compose file
and the containers Docker lists when it looks. Each of the two reads and lists for
itself, so each has a world of its own (`seen.scale` and `seen.name`), which need have
nothing in common. Within one detector the file and the list may be of different moments
as well: a world may have containers of services that its file does not have, and
services without containers. A name is the sequence of its words and
separators, so that what the two regular expressions and the split at underscores cut
is a set of positions in it. The replicas of a service are a set, each with the detector
and the service it was found for: nobody looks at their order. `Detected` is the merge.

**`UpdateManager`** is one call of `Update`, `Rollback` or `RollbackToVersion`.
`pc` is the call it is about to make, `from` the place to which `HandleError`
returns; the strategy, the health checker, the dependency manager and the
rollback controller answer in every way their interfaces allow. The replica
manager is modelled with its cache: `GetAllReplicas` only detects when the
cache is empty, `GetServiceReplicas` only when the service is not in it; what a
detection finds is `Detected` of what the two detectors see (`Sights`), which may be
another at each detection.
`Recovered` is how `Update` goes on after a recovery: after a listing that
failed it holds an empty list, whatever the refresh has found. `state` says what
became of each service, `recorded` and `notified` what the collector and the
notifiers have been told.

**`RolloutProofs`**, **`BlueGreenProofs`**, **`SyncLoopProofs`** (for `TagPolicy`, too),
**`UpdateOrderProofs`**, **`BackupsProofs`** (for `DeploymentMonitor` and
`RollingUpdate`, too), **`HealthWaitProofs`**, **`MetricsProofs`** (for `Retention`,
too) and **`UpdateManagerProofs`** hold the theorems. The definitions of `Retention` and
`TagPolicy` that others have as well carry a prefix, because a module of proofs extends
them beside another component.

The type invariants are proved. No run spends time on them: add one as INVARIANT after
a change.

A definition marked *Slip* is a mistake the code could have made and does not
make. Put in the place of the definition after it, it must break the property
in the table: `mutants` in `PROJECT.json` lists them.

| run | property | definition -> slip |
|---|---|---|
| rollout | `SuccessMeansVerified` | `NextCheck` -> `NextCheckShort` |
| | `BlastRadius` | `WaitForBatch` -> `WaitForLast` |
| | `RollbackCoversUpdated` | `RollbackReplica` -> `RollbackReplicaOrStop` |
| | `FailureLeavesOnlyCulprit` | `Remember` -> `RememberLast` |
| | `LateUpdatesBounded` | `ChecksContext` -> `NeverChecksContext` |
| | `VerdictsAreEarned` | `NextCheck` -> `NextCheckKeepsCounts` |
| | `KeepsPromise` | `BatchSize` -> `BatchSizeAllTheRest` |
| blue_green | `SwitchOnlyWhenHealthy` | `LastGreen` -> `LastGreenEarly` |
| | `FailureKeepsBlue` | `Switch` -> `SwitchAndRemove` |
| sync_loop | `TagsBelong` | `Rewritten` -> `AnyImageLine` |
| | `BackupBeforeModification` | `WritesBackup` -> `KeepsOldBackup` |
| | `NeverBack` | `Selected` -> `AnyTag` |
| | `Convergence` | `GoesOn` -> `GivesUpCycle` |
| update_order | `VerdictIsRight` | `Unmark` -> `KeepMark` |
| | `DependenciesFirst` | `Done` -> `NotWaiting` |
| | `NoRepetition` | `Remember` -> `Forget` |
| | `Terminates` | `Without` -> `StaysAt` |
| backups | `RollbackRestoresPrepared` | `Newest` -> `Oldest` |
| | `RollbackCanBeRepeated` | `Untouched` -> `Consumed` |
| | `HistoryBounded` | `Kept` -> `KeptOneMore` |
| | `CleanupSparesOthers` | `Entries` -> `AnyFile` |
| | `DroppedOnlyRestored` | `KeepUnrestored` -> `ForgetUnrestored` |
| | `WalkLeavesFile` | `AfterFailedPrepare` -> `GoesOn` |
| health_wait | `HealthyRestsOnProbe` | `ShouldCheck` -> `CachesLonger` |
| | `UnhealthyRestsOnProbe`, `Decides` | `StatusUpdated` -> `StatusUntouched` |
| | `StatusIsEarned` | `ForgetSuccesses` -> `KeepSuccesses` |
| metrics | `FinishedRowsAreFinal` | `EntryOf` -> `EntryKept` |
| | `VerdictIsRecorded` | `InProgress` -> `AnyInProgress` |
| | `OldestSeenGoFirst` | `IdsToKeep` -> `IdsToKeepAscending` |
| retention | `ClosesOnce` | `NewChannel` -> `SameChannel` |
| | `RunningIsTrue` | `LoopIsDone` -> `NotAwaited` |
| | `RunsOnlyEnabled` | `MayStart` -> `AsDecided` |
| | `CallsReturn` | `ReleasedLock` -> `KeptLock` |
| manager | `CacheIsTrue` | `Appended` -> `Overwritten` |
| | `NoneLeftBroken` | `RollbackFailed` -> `CarriesOn` |
| | `AnswerIsTold` | `FailFor` -> `Untold` |
| | `RolledBackStays` | `Recovered` -> `RecoveredList` |
| tag_policy | `SelectsTheBest` | `Number` -> `NumberAsText` |
| | `NewTagOrSame` | `FirstHighest` -> `LastAboveFirst` |

## 3. The runs, and what they show

### Runs that pass

* **rollout** (80,330 states): the three batch strategies against a replica
  manager that does what its interface says. The configurations cover every
  hook and rollback setting with zero and three replicas, thresholds of
  one and two and the defaults, percentages on both sides of what `Validate`
  accepts, lists of one, two, four and five replicas (batches that divide the
  list and batches that do not) and nine for a canary with wide steps. Larger
  lists only repeat batches. `VerdictsAreEarned` counts the checks of each replica for
  itself, in batches of several too. `RollbackCoversUpdated` also says what the failed
  post-update command of canary leaves, the one error return without a rollback
  (`UnrolledBack`): the whole service on the new image, every replica of it verified. Besides its safety properties the run shows
  that it implements `Deployment`, and with it that `Execute` always returns.
* **blue_green** (904 states): up to four replicas, hooks, thresholds,
  and a threshold that is refused.
* **sync_loop** (911,833 states): two services, three tags, seven compose files (plain,
  `depends_on` with nested keys, an image without tag, one with a registry
  port and a tag, one below a nested key, a quoted one, and one whose images have
  a port or a digest and no tag) with images of Docker Hub, GHCR,
  DigitalOcean, Google, a configured registry and two that are not, at most two
  faults of any kind.
  Two services are enough for a line of one to be taken for the other's; three
  tags for a tag to become stale twice; two faults for a fault during the
  recovery from another. `TagsBelong` says of every line that it names a published tag
  of its own repository, or has been spoilt: only lines with a port or a digest in the
  place of a tag are, and only when their registry has listed tags. `Convergence` is claimed
  for the services the rewriting can manage (`Managed`), and as long as no write fails
  and the process does not die. After a restart that failed the file still comes
  to name the latest tag, but nothing is claimed of what runs: the code compares with
  the file, not with what runs, and does not try again.
* **update_order** (77,477 states): all graphs of three services, and of
  four with at most one dependency each, self-loops included, and every list
  of services.
* **backups** (1,083,782 states): two services, one with a dash in its name, which are
  `web` and `api-db` or `web` and `web-api`, at most
  one backup each, so that every backup prunes; three seconds, so that two backups can
  share one or not; an offset from UTC larger than the whole run, so that times
  from names and modification times are never comparable; one fault of four
  kinds. The first service is monitored, with two attempts and a tag to go back
  to, which every backup has. In the walks of the command line the second walk finds the
  backups of the first, and an update between them that an old backup would undo.
  `HistoryBounded` and `CleanupSparesOthers` are claimed whatever the names.
  `config.go` speaks of a maximum per service; the code counts the files of
  `web` and of `web-api` together when it prunes `web`, so `CleanupSparesOthers` states
  this exception (`Mistaken`), and that a file of another service only goes while as many as
  `MaxHistory` of both stay. What is said of rollbacks holds of names that can be told apart
  (`ToldApart`): otherwise `Rollback` of `web` may take a file of `web-api`.
* **health_wait** (103,605 states): all four checkers, failure thresholds of one to four
  and success thresholds of one to three, intervals below, at and above the period of
  the ticker, three replicas. `HealthyRestsOnProbe` and `UnhealthyRestsOnProbe` say when a
  verdict rests on a probe made while the replica was waited for; that this was a probe *of*
  the replica they say of docker and command checkers only, because the other two
  never make one. Their bounds are the best: with `>=` for `>` in
  `config.success > config.retry + 1`, or in `config.failure > (config.success - 1) *
  (config.retry + 2)`, TLC finds a violation, and also without the exception of `http`.
* **metrics** (1,447,953 states): two services, two versions, three rows ever
  inserted, one pruning by age, number and size at a time, one failing
  statement. One row per service is kept and the file holds two, so the third
  row makes both kinds of pruning delete. `FinishedRowsAreFinal` leaves out
  deployments whose start could not be recorded: the entry of an earlier
  deployment of the same version then takes their verdict.
* **retention** (1,149 states): three callers: one in the middle of `UpdateConfig`, and two
  that come between. `ClosesOnce` and `RunningIsTrue` except the one misuse that
  breaks them in the code, `Start` after `Stop` (the history variable `revived`).
* **manager** (80,212 states): a service with a dependency or without, fourteen worlds
  (scaled services, groups of named ones, both, members of a group with no
  container or with two, services gone from the file that still run), any two of them for
  the two detectors, every answer of the components. `CacheIsTrue` says of each service
  what the detectors met, each at its own moment: it is not claimed, and not true, that
  the whole cache was true of one. `AnswerIsTold` leaves one error untold, that of the final
  checks (`EnsureCompletion`), and no other. `CacheIsTrue` is claimed for
  containers named `<project>_<service>_<number>` and for no other underscore in a name
  (`PlainNames`): services `a_1` and `a_2` are a group to `dashPattern`, but their
  containers are those of a service `a` to the split.
* **tag_policy** (474,741 states): every policy, filter, range and order, and every
  list of at most four of ten tags, among them two that are one version, a
  pre-release, a number, NaN, and three only the pattern matches. Four are enough
  for a tie, something better and something the filter leaves out.

### Runs that find a disagreement

Each checks one sentence of the documentation or of a comment, and TLC's trace
shows what the code does instead; `findings` has the quotations.

* **compose_blast_radius**: with the real replica manager the first
  `UpdateReplica` puts every container of the service on the new image.
* **sync_tag_in_path**: the path sent to the registry still has the tag, so a
  service with a tag never gets a listing, unless the registry ignores the tag.

### Disagreements without a run

Read in the code, plain enough not to need a state space: with the default thresholds a
replica whose own probe failed is found healthy by what the previous one left in the
shared status (`http.go:112`; `HealthyRestsOnProbe` without its premise shows it);
`base.go:145` has a check made "on the specified replica", where the http and tcp checkers
probe `localhost` (`http.go:69`, `tcp.go:62`), so that no verdict of theirs is about a replica;
`syncer.go:275` has the image tag of a service updated, where an image with a port or a
digest and no tag becomes another name, `host:` and the tag or `web@sha256:` and the tag
(`syncer.go:322`; `MCSyncLoop` with `JustColons` for `Layouts` shows it on `NothingLost`);
`cmd/root.go:27` lists GCR, ACR, ECR, Harbor and Quay as supported, which have no
authenticator and so never a client (`authenticator.go:298`); an image of any other domain is
asked for at the custom URL, whatever the domain, and `localhost:5000/web` at Docker
Hub (`detector.go:97`); `ubuntu` is asked for without `library/`; only the first page of a
listing is read (`client.go:115`); DigitalOcean falls back to the variable
`GITHUB_PAT` (`syncer.go:190`); the rolling update of the command line never updates
anything, for want of detectors; containers named `project-service-1`, as current
versions of Compose do, belong to no service, nor do those of a project or service
with an underscore (`scale_detector.go:168`), and `internal/replica/README.md:153` has
`service_1` among the names that work, which never finds its container; a group of named
services is updated under the name of the group, which is no service
(`manager.go:138`); the list verified after an update is the one cached before it;
canary takes up to
seven steps for eight replicas where its comment says four (`canary.go:166`,
`:25`); the post-update command of canary fails without a rollback
(`canary.go:209`); `RollbackReplica` of the real manager always fails
(`replica/manager.go:142`); blue/green deploys nothing; a failed
`docker compose up` of the loop is never retried; an image line that stands below a
`depends_on` with a condition gets the tag of the service depended on
(`syncer.go:309`; `MCSyncLoop` with `JustAbove` for `Layouts` shows it on `TagsBelong`); a failed copy is a
warning and the file is rewritten anyway; a torn backup counts as the most recent one;
`RollbackToVersion` only ever finds the version `latest` (or the second part of
a name with a dash); restoring the whole file for one service reverts the
image lines of the others; a crash between truncating and writing the compose
file is followed, at the next update, by a backup of the truncated file over the
only whole copy (`syncer.go:285`); a backup of `web` prunes the backups of
`web-api`, which share its prefix (`backup.go:138`); with a success threshold
above the failure threshold a replica that passes every probe is given up
(`base.go:99`); `Update` records a success after a recovery that rolled the
service back, where `recovery.go:199` speaks of a deployment that completed; an error
of `EnsureCompletion` is neither recorded nor notified; the failure of a
dependency is recorded under its name, with an empty version;
`RecordRollback` counts a success before the rollback is tried;
`RecordDeploymentSuccess` with a duration inserts a new record
and leaves the start record open; `PruneByDatabaseSize` looks at the size of
the file before `VACUUM` and so deletes everything; `Start` after `Stop` of
the retention manager finds its channel closed (`retention.go:77`); the e-mail notifier keeps a
client it has already said `Quit` to; `LoadConfig` returns an
invalid configuration to the second caller after its panic; a row inserted
between the two statements of `PruneExcessRecords` is deleted while older ones
stay (`dao.go:328` to `:360`, where `metrics/config.go:15` says that the oldest ones will be removed); the monitor's rollback replaces the
compose file and does not restart the service (`detector.go:202`), and a target
version is only found when it is `latest`, the tag of every backup; a semver
policy selects nothing when the first value listed is all digits
(`syncer.go:497`), and a numerical policy the tag "nan" when it is the first number listed
(`syncer.go:594`, `:629`); without a policy releases are compared as strings, so that
1.9.0 wins over 1.10.0 (`syncer.go:388`).

## 4. Fairness

* `Rollout`, for `KeepsPromise`: `WF(Execute)`, because the goroutine runs on (every call
  of the replica manager and the checker returns); `WF(Expire)`, because
  `context.WithTimeout` fires; `WF(ContextDone)`, because a `select` with
  several ready cases picks one at random, so a wait that finds the
  context done again and again takes that branch. Nothing is assumed of the answers of the
  health checks.
* `SyncLoop`: `WF(Sync)`: the ticker ticks and commands return. Faults, crashes
  and publications are never fair. A restart by systemd is part of `Crash`.
* `UpdateOrder`: `WF(Step)`: a sequential function runs on.
* `HealthWait`: `WF(Tick)`: the ticker of the wait. `Decides` does not rely on
  the deadline; the world is only assumed to settle, which is its premise.
* `Retention`, for `CallsReturn`: `WF` of the end of the goroutine and of the two returns
  from `wg.Wait()`, because goroutines run on; `SF(Restart)`, because a mutex of Go
  hands itself to the goroutine that has waited for a millisecond, so that a caller
  that finds it free again and again gets it.
* `BlueGreen`, `Backups`, `DeploymentMonitor`, `RollingUpdate`, `Metrics`, `UpdateManager` and
  `TagPolicy` have no liveness.

## 5. What is proved

TLAPS checks every step; the constants are arbitrary up to the assumptions named
in the modules (configurations are records of the right type, services are
numbers, lists are subsets). Nothing else is assumed.

* **`RolloutProofs`**: for any set of configurations (any number of replicas, any
  percentage and thresholds). The safety properties are not inductive: that
  `outcome = "success"` implies everything verified needs to know, at every
  `pc`, how far the two loops have come. `InductiveInvariant` adds
  `LoopPosition` (at `pc = "health"`, `updated = 1..BatchStop` and
  `verified = 1..check-1`), `ImagesFollowUpdates`, `RollbackPosition`,
  `LatePosition`, `RunPosition` and `RestorePosition`. The arithmetic of
  batches enters through one lemma (a batch is not empty and does not pass
  the end of the list). From the invariant follow `SuccessIsEarned`,
  `RollbackIsComplete`, `LatenessIsBounded` (for both replica managers),
  `BlastRadiusIsOneBatch` and `OnlyTheCulpritIsLeft` (when `PerReplica`), and,
  as an action property, `VerdictsRestOnRuns`.
  `PromiseIsKept` is the safety part of the refinement `KeepsPromise` (when `PerReplica`):
  the initial states of `Rollout` are initial states of `Deployment`, and each of its steps
  is one of the abstract steps or changes nothing of what is mapped. Which one it
  is depends on the invariant: a health loop that comes to its end confirms a wave
  only because `LoopPosition` says everybody in it is verified.
* **`UpdateOrderProofs`**: for every set of graphs. The invariant says that the stack
  is a chain of marked services without repetition, and that a dependency of a
  service on the stack is still to be visited, visited, or the next on the
  stack (`Dealt`). Then `Leave` appends a service all of whose dependencies
  are in the result: `OrderIsTopological`; `OrderHasNoRepetition` and
  `NothingIsLeftOut` follow from `ResultIsVisited` and `InputDealt`. `CyclesAreFound` is the
  verdict: a cycle is reported exactly when services that must be visited depend on each
  other in a circle. What must be visited is in every set that contains the input and is
  closed under dependencies, and a circle is a set of services each of which depends on
  one of it; neither needs an iteration. One direction is `MustBeOrdered` (whatever is
  visited, or on the stack, must be) with the stack, which closes a circle when a
  marked service is met; the other is `VisitedIsOrdered`: what is visited was finished
  after its dependencies, so that the first finished of a circle would have to be
  finished before itself.
* **`BackupsProofs`**: for any services, times, versions, faults, and any number of
  them, over `WalkSpec`, that is the backups with the monitor and the walks. The
  directory holds at most one file of a service for a second and none from the
  future, and every file is of the time and the form its name says (`DirInv`), so
  that the pruning keeps the most recent ones: `HistoryIsBounded` counts one file more
  for each deletion or copy that failed, whatever the services are called; for
  `PreparationSparesOthers`, a file of another service that is pruned begins with the name
  of this one, and as many as `MaxHistory` stay. When the names can be told apart and
  unless a copy failed, the most recent file of a
  service is what its last `PrepareRollback` saw (`LatestIsPrepared`), a rollback takes that
  file and leaves it there: `RollbackIsRight`, `RollbackIsRepeatable`, `DroppedIsRestored` of
  the monitor. A walk that has prepared a service will roll back to what is there
  (`WalkInv`): `WalkIsHarmless`. `NamedInv` is this part of the invariant, under the condition
  `ToldApart`, which the four properties state as well and the code needs. `Separate`: no name
  of a service begins the file names of another, since the history of a service is found by
  that prefix. And when deletions may fail, the names do not begin with the same
  part either. `CleanupOldBackups` groups the files by it (`backup.go:265-299`) and stops at the
  first failure, so that with `api-web` and `api-db` it may keep an old file of one service and
  lose the prepared one of the other.
* **`HealthWaitProofs`**: for every number of replicas, every threshold up to ten
  and every interval. The invariant ties the two counters of the checker
  to the run of equal probes (`CountersFollowRun`), says when the first tick
  of a wait must probe and that what is probed is the `Target` (`FirstProbeIsDue`), what the
  status says of the replica at hand (`StatusFollowsProbes`: with a threshold of one it
  is what the last probe found, and after a healthy predecessor it is good until a probe
  fails), and how much of the counts of the wait the cache can have given
  (`CountsFollowProbes`). `HealthyVerdicts` and `UnhealthyVerdicts` follow, for docker and
  command checkers with the replica as what was probed, and `StatusEarned`.
* **`MetricsProofs`**: for any services, versions, rows, and prunings under way. The
  collector keeps the number of a row across the statements of others, so the invariant
  (`CollectorInv`) says what that number still stands for: the row, as far as it has not been
  pruned, is of the service and the version the call has in hand, and it is open if the call
  may still give it a verdict. Row numbers are not reused, and a row that ends now ends later
  than the others (`NowIsLater`). From it `VerdictsAreFinal` and `VerdictsReachTheirRow`.
  `PrunerInv` says that the rows a pruning keeps are, of those it saw, closed upwards,
  whatever has been added or deleted since: `OldestAreTaken`.
  For `Retention`, with any number of callers of `Start`, `Stop` and
  `UpdateConfig`, the invariant says who holds the lock across a wait
  (`HolderWaits`), and that then the ticker is stopped and the channel closed
  (`HeldIsStopped`), so nothing can start again what the holder waits for; and that a
  closed channel nobody waits for was closed by `Stop` (`ClosedByStop`). From
  it `ClosesOnce`, `RunningIsTrue` and `RunsOnlyEnabled`.
* **`BlueGreenProofs`**: for any number of replicas and any thresholds. The
  invariant says how far the loop has come (`WaitPosition`: those before the replica
  at hand are verified) and that the removal of blue is the last thing `Execute`
  does (`RemovalIsLast`): `SwitchOnlyWhenHealthy`, `FailureKeepsBlue`.
* **`SyncLoopProofs`**: for any services, compose files, tags, and faults of any
  number. `Base` holds of every file: types, and what the backup is at each step
  (`Copied`); it gives `BackupBeforeModification`. `Owned` needs `WellLaidOut`:
  no image line stands right below a bare key that is the name of another
  service, and a service has one image line. Without it the code itself breaks
  `TagsBelong` (see the disagreements). Nothing is assumed of the form of the images: that
  only lines of the forms `Misread` are spoilt, after their registry has listed tags, is part of
  what is proved. `Owned` puts the tags in order: the running
  tag is not ahead of the file (`FileLeads`), the file not of the selected tag
  (`SelectionIsNewer`, although tags are published after the selection), the
  rewritten lines between the two (`RewritingIsNewer`), and the selected tag not ahead of
  the registry. From it `TagsBelong` and the action property `NeverBack`.
  For `TagPolicy`, with any tags, texts, policies and lists, the answer is the first of
  those that take part whose score is the highest (`SelectionIs`; that there is one is
  `HasHighest`, by the least number for which there would be none), hence
  `BestIsSelected`, but for the lists that mislead. Inserting a tag moves the others without changing their
  order (`MovedFacts`) nor who takes part, unless it is the first release there is
  (`OthersTakePart`), so whoever is first with the highest score afterwards was so before,
  or is the new tag: `NoThirdTag`.
* **`UpdateManagerProofs`**: for any orders of any length and whatever the detectors
  find. `Walk` says that only the service at hand can
  be broken, and only on its way to the rollback or when the call has failed
  (`BrokenIsAtHand`), that what the walk has not come to is untouched
  (`LaterAreOld`, from the distinctness of an order), and that the strategy is handed no
  replicas of a service that was recovered before it (`HandedOnce`): the
  properties `NoneLeftBroken` and `RolledBackStays`. `Told` adds that the recovery
  answers to `Update` and not to its caller; with `Walk` it gives `AnswerIsTold`, an
  action property, since the state before the answer tells which error it is.
  The cache is empty or what the detectors found in the worlds they met (`Kept`), whatever fails, so
  that `CacheIsTrue` is a fact about the detectors: a container is recognised as one of
  its own service and no other (`OwnServiceOnly`), the patterns can cut a
  name only before its last word (`CutsAre`, because no two words are adjacent), what
  `findNamedServiceGroups` finds are the groups (`GroupsAreFound`), and then each
  container is counted, once (`OncePerContainer`, `OncePerMember`, `Placeholders`), for any
  number of services, containers and words in a name. The assumptions on a world
  (`WorldsAssumption`) are what Compose and Docker guarantee: finitely many services, names
  of words with separators between them, containers of services of the file, none listed
  twice. `TypeCorrect` needs `AtHand`: a recovery that returns to the verification has
  a listed replica at hand.

Only model-checked: all liveness (`Terminates` of `UpdateOrder`, `Convergence`, `Decides`,
`CallsReturn`, and the liveness part of `KeepsPromise`), which is beyond this prover.
Every safety property that a passing run checks is the statement of a theorem; that of
`KeepsPromise` is `PromiseIsKept`. No module uses a RECURSIVE operator.

## 6. What is not modelled, and why

* Names, tags, URLs, commands, messages: model values or ranks, unless the
  code's decision depends on their shape (parts between colons and dashes,
  quotes, prefixes).
* `docker`, `docker compose`, the registries and the file system beyond
  truncation, partial writes and failures: external, modelled by their
  outcomes.
* Image pruning after a restart, logging, metrics and notification text: no
  decision reads them.
* Notifications, configuration loading, the dashboard and the examples: they format, send,
  read or show, and nothing in the system reads back what they did. What the
  configuration decides (strategies, thresholds, retention, registries, policies)
  is in the constants of the modules that use it.
* `GetDependents` of the dependency manager, which only its tests call, and the helpers
  of `cmd` that no command reaches.
* What restoring the whole file for one service does to the image lines of the
  services updated since: `Backups` follows the file of one update at a time. It
  is plain from the code, and listed among the disagreements.

## 7. What is left

The metrics store's pruning by size (`dao.go:441`) has no property: whether the file
shrinks is SQLite's. `CacheIsTrue` says nothing of names with further underscores, and
`dashPattern` and the split disagree on them. A clock that is set back (`backup.go:194`), times
of both kinds in one history (`backup.go:155`), a restart that is not tried again
(`syncer.go:359`) and a row inserted between the two statements of a pruning (`dao.go:359`)
have no property that would catch them; `hazards` says why. Liveness is checked on the instances of the
runs and not proved.
