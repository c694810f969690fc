--------------------------------- MODULE Backups ---------------------------------
(***************************************************************************)
(* The backup manager and the rollback controller (internal/rollback):      *)
(* whole copies of the compose file, named                                  *)
(* <service>-latest-<date>-<time>.yml, found again by the prefix            *)
(* "<service>-" of their names, ordered by the time in the name, pruned to  *)
(* MaxHistory, and copied back over the compose file.                       *)
(*                                                                         *)
(* A name is the sequence of its parts between dashes.  A compose file is   *)
(* the version of each service's image and whether the file is whole: a     *)
(* copy that fails or is interrupted leaves a torn one.                     *)
(*                                                                         *)
(* Faults: copy (making a backup), remove (deleting an old one), restore    *)
(* (writing the compose file), up (docker-compose up), MaxFaults in all.    *)
(***************************************************************************)
EXTENDS Integers, Sequences, FiniteSets
LOCAL INSTANCE SequencesExt

CONSTANTS
  Services,
  Namings,     \* the names the services may have, split at their dashes
  MaxHistory,  \* config.MaxHistory
  Offset,      \* local time minus UTC, in units of the clock
  MaxTime,     \* bound: the last second
  MaxVersion,  \* bound: the last version deployed
  Faults, MaxFaults

ASSUME NamingsAssumption == Namings \subseteq [Services -> Seq(STRING) \ {<<>>}]
ASSUME NumbersAssumption ==
  /\ MaxHistory \in Nat \ {0} /\ Offset \in Int
  /\ MaxTime \in Nat /\ MaxVersion \in Nat /\ MaxFaults \in Nat

VARIABLES
  names,     \* the name of each service
  now,       \* the clock, in seconds
  compose,   \* the compose file
  backups,   \* the files of BackupDir
  running,   \* the version each service runs
  prepared,  \* history: the compose file at the last PrepareRollback that
             \* returned nil, for each service; {} before it
  last,      \* history: the operation that has just ended
  faults,    \* how many faults have struck
  torn       \* history: a copy has failed

vars == <<names, now, compose, backups, running, prepared, last, faults, torn>>

Versions == 0 .. MaxVersion
Images   == [version: [Services -> Versions], whole: BOOLEAN]
Files    == [service: Services, at: 0 .. MaxTime, image: Images]
Ended    == [op: {"none", "prepare", "rollback", "check", "other"},
             service: Services \union {"none"}, ok: BOOLEAN]

TypeOK ==
  /\ names \in Namings
  /\ now \in 0 .. MaxTime
  /\ compose \in Images
  /\ backups \subseteq Files
  /\ running \in [Services -> Versions]
  /\ prepared \in [Services -> SUBSET Images]
  /\ last \in Ended
  /\ faults \in 0 .. MaxFaults /\ torn \in BOOLEAN

Init ==
  /\ names \in Namings
  /\ now = 0
  /\ compose = [version |-> [s \in Services |-> 0], whole |-> TRUE]
  /\ backups = {}
  /\ running = [s \in Services |-> 0]
  /\ prepared = [s \in Services |-> {}]
  /\ last = [op |-> "none", service |-> "none", ok |-> TRUE]
  /\ faults = 0 /\ torn = FALSE

Strikes(kind) ==
  /\ kind \in Faults /\ faults < MaxFaults
  /\ faults' = faults + 1

Ends(op, s, ok) == last' = [op |-> op, service |-> s, ok |-> ok]
Torn(image) == [image EXCEPT !.whole = FALSE]

-----------------------------------------------------------------------------
(***************************************************************************)
(* GetBackupHistory.                                                       *)
(***************************************************************************)
FileName(f) == names[f.service] \o <<"latest", "date", "time">>

\* Slip: every file of the directory is an entry.
AnyFile(name, B) == B

\* The files whose names start with name and a dash.
Entries(name, B) == {f \in B : IsPrefix(name, FileName(f))}

\* parts[1], whatever it is.
ImageTag(f) == FileName(f)[2]

\* The time in the name is local time read as UTC; when the name of the service
\* has a dash, it is not found, and the modification time, which is right,
\* takes its place.
Timestamp(f) == IF Len(names[f.service]) = 1 THEN f.at + Offset ELSE f.at

\* Slip: least recent first.
Oldest(E) == {f \in E : \A g \in E : Timestamp(f) <= Timestamp(g)}

\* entries[0]: the order of equal timestamps is left open by sort.Slice.
Newest(E) == {f \in E : \A g \in E : Timestamp(g) <= Timestamp(f)}

\* Slip: one entry more is kept.
KeptOneMore == MaxHistory + 1

Kept == MaxHistory

\* entries[MaxHistory:], one set for each order of equal timestamps.
Excess(E) ==
  IF Cardinality(E) <= Kept THEN {{}}
  ELSE {X \in kSubset(Cardinality(E) - Kept, E) :
          \A x \in X, e \in E \ X : Timestamp(x) <= Timestamp(e)}

\* What is left of X when the deletion stops at the first error.
LeftOver(X) ==
  {Y \in (SUBSET X) \ {{}} : \A y \in Y, x \in X \ Y : Timestamp(y) <= Timestamp(x)}

-----------------------------------------------------------------------------
\* An update of service s: the compose file and the containers.
Deploy ==
  /\ compose.whole
  /\ \E s \in Services :
       /\ compose.version[s] < MaxVersion
       /\ compose' = [compose EXCEPT !.version[s] = @ + 1]
       /\ running' = [running EXCEPT ![s] = compose'.version[s]]
  /\ Ends("other", "none", TRUE)
  /\ UNCHANGED <<names, now, backups, prepared, faults, torn>>

\* The backup directory once a file for service s has been written; one made in
\* the same second has the same name.
WithBackup(s, image) ==
  {f \in backups : ~(f.service = s /\ f.at = now)}
    \union {[service |-> s, at |-> now, image |-> image]}

\* PrepareRollback: CreateBackup, and the cleanup it ends with.  An error of
\* the cleanup is printed.
PrepareRollback(s) ==
  /\ LET B == WithBackup(s, compose)
     IN  \E X \in Excess(Entries(names[s], B)) :
           \/ backups' = B \ X /\ UNCHANGED faults
           \/ /\ Strikes("remove")
              /\ \E Y \in LeftOver(X) : backups' = B \ (X \ Y)
  /\ prepared' = [prepared EXCEPT ![s] = {compose}]
  /\ Ends("prepare", s, TRUE)
  /\ UNCHANGED <<names, now, compose, running, torn>>

\* copyFile fails before it has made a file, or it fails or the process dies
\* afterwards and the torn file stays.
PrepareFails(s) ==
  /\ Strikes("copy")
  /\ \/ UNCHANGED <<backups, torn>>
     \/ backups' = WithBackup(s, Torn(compose)) /\ torn' = TRUE
  /\ Ends("prepare", s, FALSE)
  /\ UNCHANGED <<names, now, compose, running, prepared>>

\* Slip: the entry is moved, not copied.
Consumed(f) == backups' = backups \ {f}

Untouched(f) == UNCHANGED backups

\* RestoreFromBackup and the restart of service s, from the first of E.  The
\* pre-rollback copy it makes is never read by the code and not kept here.  What
\* docker-compose makes of a torn file depends on the lines it still has.
Restore(s, E) ==
  /\ \E f \in Newest(E) :
       /\ Untouched(f)
       /\ \/ /\ compose' = f.image
             /\ \/ /\ running' = [running EXCEPT ![s] = f.image.version[s]]
                   /\ Ends("rollback", s, TRUE) /\ UNCHANGED faults
                \/ /\ IF f.image.whole THEN Strikes("up") ELSE UNCHANGED faults
                   /\ Ends("rollback", s, FALSE) /\ UNCHANGED running
          \/ /\ Strikes("restore")
             /\ compose' = Torn(f.image) /\ Ends("rollback", s, FALSE)
             /\ UNCHANGED running
  /\ UNCHANGED <<names, now, prepared, torn>>

\* Without an entry both return an error and change nothing.
Rollback(s) == Restore(s, Entries(names[s], backups))

\* The first of the entries of a version: those whose ImageTag it is.
RollbackToVersion(s) ==
  \E f \in backups :
    Restore(s, {e \in Entries(names[s], backups) : ImageTag(e) = ImageTag(f)})

\* GetServices: the first part of each name.
ServicesWithBackups == {<<FileName(f)[1]>> : f \in backups}

\* CleanupOldBackups of the controller: the services in any order, up to the
\* first deletion that fails.
CleanupOldBackups ==
  /\ \E done \in SUBSET ServicesWithBackups, X \in SUBSET backups :
       LET part(name) == X \intersect Entries(name, backups)
       IN  /\ \A name \in done : part(name) \in Excess(Entries(name, backups))
           /\ \/ done = ServicesWithBackups /\ UNCHANGED faults
              \/ /\ Strikes("remove")
                 /\ \E culprit \in ServicesWithBackups \ done :
                      /\ \E W \in Excess(Entries(culprit, backups)) :
                           \E Y \in LeftOver(W) : part(culprit) = W \ Y
                      /\ \A name \in ServicesWithBackups \ (done \union {culprit}) :
                           part(name) = {}
           /\ backups' = backups \ X
  /\ Ends("other", "none", TRUE)
  /\ UNCHANGED <<names, now, compose, running, prepared, torn>>

Tick ==
  /\ now < MaxTime
  /\ now' = now + 1
  /\ UNCHANGED <<names, compose, backups, running, prepared, last, faults, torn>>

Next ==
  \/ Deploy \/ CleanupOldBackups \/ Tick
  \/ \E s \in Services :
       \/ PrepareRollback(s) \/ PrepareFails(s)
       \/ Rollback(s) \/ RollbackToVersion(s)

Spec == Init /\ [][Next]_vars

-----------------------------------------------------------------------------
(***************************************************************************)
(* Properties.  The directory has no other mark of the owner of a file than *)
(* its name, so what is said of a rollback is said of services that can be  *)
(* told apart by their names.                                              *)
(***************************************************************************)
\* A file of t is taken for one of s, whose name it starts with: web and web-api.
Mistaken(s, t) ==
  s # t /\ IsPrefix(names[s], names[t] \o <<"latest", "date", "time">>)

Separate == \A s, t \in Services : ~Mistaken(s, t)

\* When deletions may fail, not even the first parts are the same: the cleanup
\* of all services goes by these, and one that stops halfway keeps the oldest.
ToldApart ==
  /\ Separate
  /\ "remove" \in Faults =>
       \A s, t \in Services : s # t => names[s][1] # names[t][1]

\* "Rollback returns the service to its previous state (most recent backup)":
\* a rollback that succeeds leaves the compose file as it was when the last
\* PrepareRollback of the service returned, and the service running it.  A copy
\* that has failed spoils it: the torn file is the most recent backup.
RollbackRestoresPrepared ==
  last.op = "rollback" /\ last.ok /\ ~torn /\ ToldApart =>
    /\ compose \in prepared[last.service]
    /\ running[last.service] = compose.version[last.service]

\* A rollback that fails halfway can be repeated: the backup it came from is
\* still there (when no torn file has taken its name).
RollbackCanBeRepeated ==
  last.op = "rollback" /\ ~torn /\ ToldApart =>
    \E f \in backups : f.image \in prepared[last.service]

\* MaxHistory bounds the backups of each service, whatever other services are
\* called, but for the deletions that failed.
HistoryBounded ==
  \A s \in Services :
    last.op = "prepare" /\ last.ok /\ last.service = s =>
      Cardinality({f \in backups : f.service = s}) <= MaxHistory + faults

\* "the maximum number of backup entries to keep per service": making a backup
\* of a service deletes a backup of another one only when that one's name goes on
\* where the first one's ends, as in web and web-api, and only while MaxHistory of
\* their files are left.  The comment has no such exception; the code does.
CleanupSparesOthers ==
  [][ last'.op = "prepare" =>
        \A f \in backups \ backups' :
          \/ f.service = last'.service
          \/ /\ Mistaken(last'.service, f.service)
             /\ Cardinality(Entries(names[last'.service], backups')) >= MaxHistory ]_vars
================================================================================
