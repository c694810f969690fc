-------------------------------- MODULE SyncLoop --------------------------------
(***************************************************************************)
(* The polling loop of "dosync sync" (internal/syncer/syncer.go): every     *)
(* cycle parses the compose file, asks the registry for the tags of each   *)
(* service and, for a tag that differs from the file's, copies the file to *)
(* docker-compose.backup.yml, rewrites the image line of the service and   *)
(* runs "docker compose up" for it.                                        *)
(*                                                                         *)
(* The compose file is a sequence of the lines the rewriting looks at: a    *)
(* bare key ("web:") or an image line.  A tag is <<service, number>>, its   *)
(* number the position SelectTagByImagePolicy gives it among the tags of    *)
(* the repository of that service.  Pruning images after a restart changes *)
(* nothing that is modelled here.                                          *)
(*                                                                         *)
(* Faults that may strike, MaxFaults times in all:                         *)
(*   fetch    listing the tags fails       backup   the copy fails         *)
(*   create   the file cannot be opened    flush    writing it fails        *)
(*   restart  docker compose up fails      crash    the process dies        *)
(***************************************************************************)
EXTENDS Integers, Sequences, FiniteSetsExt, Registries

CONSTANTS
  Services,
  Layouts,             \* the compose files the loop may be started on
  MaxTag,              \* bound: number of the last tag ever published
  RegistryIgnoresTag,  \* the registry lists the tags of "repo:tag", too
  Config,              \* what the configuration says of the registries
  Faults, MaxFaults    \* which faults may strike, and how often in all

\* How an image is written:
\*   untagged  repo                  digest  repo@sha256:hex
\*   tagged    repo:tag              many    two colons or more, as in
\*   ported    host:port/repo                host:port/repo:tag
Forms == {"untagged", "tagged", "ported", "digest", "many"}

KeyLine   == [line: {"key"}, name: STRING]
ImageLine == [line: {"image"}, owner: Services, ref: Reference, form: Forms,
              quoted: BOOLEAN]

ASSUME LayoutsAssumption == Layouts \subseteq Seq(KeyLine \union ImageLine)
ASSUME ConfigAssumption == Config \in Configuration
ASSUME MaxTagAssumption == MaxTag \in Nat \ {0}
ASSUME FaultsAssumption == MaxFaults \in Nat /\ RegistryIgnoresTag \in BOOLEAN

VARIABLES
  layout,    \* the lines of the compose file
  file,      \* what is on disk: [len, tag, lost, broken]
  backup,    \* docker-compose.backup.yml
  running,   \* the tag each service runs
  latest,    \* number of the newest tag of each service in the registry
  pc,        \* where the process stands
  snapshot,  \* the file as parsed at the start of the cycle
  todo,      \* services the range over compose.Services has still to visit
  cur, sel,  \* serviceName and selectedTag
  new,       \* updatedLines
  before,    \* history: the file when os.Create was called
  faults,    \* how many faults have struck
  struck     \* history: their kinds

vars == <<layout, file, backup, running, latest, pc, snapshot, todo, cur, sel,
          new, before, faults, struck>>

Lines      == DOMAIN layout
ImageLines == {l \in Lines : layout[l].line = "image"}
Tags       == Services \X (1 .. MaxTag)

\* A file: its first len lines, the tag of each image line, the lines that a
\* rewriting has turned into something else than a name of their own repository,
\* and whether one has made the file unreadable as YAML.
Files  == [len: 0 .. Len(layout), tag: [ImageLines -> Tags],
           lost: SUBSET ImageLines, broken: BOOLEAN]
Nobody == ""
NoTag  == <<Nobody, 0>>

TypeOK ==
  /\ layout \in Layouts
  /\ file \in Files /\ backup \in Files /\ snapshot \in Files
  /\ new \in Files /\ before \in Files
  /\ running \in [Services -> Tags]
  /\ latest \in [Services -> 1 .. MaxTag]
  /\ pc \in {"start", "poll", "loop", "backup", "scan", "create", "flush", "up",
             "stopped"}
  /\ todo \subseteq Services
  /\ cur \in Services \union {Nobody}
  /\ sel \in Tags \union {NoTag}
  /\ faults \in 0 .. MaxFaults /\ struck \subseteq Faults

Init ==
  /\ layout \in Layouts
  /\ file = [len |-> Len(layout), lost |-> {}, broken |-> FALSE,
             tag |-> [l \in ImageLines |-> <<layout[l].owner, 1>>]]
  /\ backup = file /\ snapshot = file /\ new = file /\ before = file
  /\ running = [s \in Services |-> <<s, 1>>]
  /\ latest = [s \in Services |-> 1]
  /\ pc = "start" /\ todo = {} /\ cur = Nobody /\ sel = NoTag
  /\ faults = 0 /\ struck = {}

Strikes(kind) ==
  /\ kind \in Faults /\ faults < MaxFaults
  /\ faults' = faults + 1 /\ struck' = struck \union {kind}

-----------------------------------------------------------------------------
(***************************************************************************)
(* Reading the file: as YAML, and line by line.                            *)
(***************************************************************************)
\* compose.Services of a file: the image lines that are in it.
ImagesIn(f) == {l \in ImageLines : l <= f.len}
ServicesIn(f) == {layout[l].owner : l \in ImagesIn(f)}
ImageOf(f, s) == CHOOSE l \in ImagesIn(f) : layout[l].owner = s

\* currentService: the last bare key above the line, of whatever nesting.
KeysAbove(l) == {k \in Lines : k < l /\ layout[k].line = "key"}
CurrentService(l) ==
  IF KeysAbove(l) = {} THEN "" ELSE layout[Max(KeysAbove(l))].name

\* strings.Split(image, ":") has two parts, which is taken for repo:tag.
OneColon(l) == layout[l].form \in {"tagged", "ported", "digest"}
Misread(l)  == layout[l].form \in {"ported", "digest"}

\* Slip: the scanner does not look which service an image line belongs to.
AnyImageLine(f, s) == {l \in ImagesIn(f) : OneColon(l)}

\* The image lines the rewriting of service s replaces: those under a key with
\* its name whose value has exactly one colon, be it before a tag or not.
Rewritten(f, s) == {l \in ImagesIn(f) : CurrentService(l) = s /\ OneColon(l)}

\* parts[0] + ":" + newTag.  Only behind the colon of a tag this names the
\* repository that was there: "host:5000/web" becomes "host:" + newTag, and
\* "web@sha256:hex" "web@sha256:" + newTag.  A closing quote goes with the rest.
Rewrite(f, s, t) ==
  [len    |-> f.len,
   tag    |-> [l \in ImageLines |-> IF l \in Rewritten(f, s) THEN t ELSE f.tag[l]],
   lost   |-> f.lost \union {l \in Rewritten(f, s) : Misread(l)},
   broken |-> f.broken \/ \E l \in Rewritten(f, s) : layout[l].quoted]

\* A file of which only some lines have reached the disk.
Partly(f) == {[f EXCEPT !.len = k] : k \in 0 .. Len(layout) - 1}

\* extractTagFromImage: the text between the first colon and the next, which is
\* a tag only behind the colon of one, or where a rewriting has put it; "5000/web"
\* and the hex of a digest are no tags.
CurrentTag(l) ==
  IF layout[l].form = "tagged" \/ l \in snapshot.lost THEN snapshot.tag[l] ELSE NoTag

\* info.Path keeps the tag or the digest, so that is what GetTags asks for; a
\* port goes with the registry before the first slash.
HasTagList(l) ==
  /\ Lists(layout[l].ref, Config)
  /\ RegistryIgnoresTag \/ layout[l].form \in {"untagged", "ported"}

\* What is left of host:port/repo has no slash: Docker Hub is asked for a
\* repository of the name of the host, which it does not have.
Listable(l) ==
  HasTagList(l) /\ ~(layout[l].form = "ported" /\ l \in snapshot.lost)

-----------------------------------------------------------------------------
\* StartSync: gives up when the file cannot be parsed.
Start ==
  /\ pc = "start"
  /\ pc' = IF file.broken THEN "stopped" ELSE "poll"
  /\ UNCHANGED <<layout, file, backup, running, latest, snapshot, todo, cur, sel,
                 new, before, faults, struck>>

\* The head of checkAndUpdateServices.
Poll ==
  /\ pc = "poll"
  /\ IF file.broken THEN UNCHANGED <<pc, snapshot, todo>>
     ELSE pc' = "loop" /\ snapshot' = file /\ todo' = ServicesIn(file)
  /\ UNCHANGED <<layout, file, backup, running, latest, cur, sel, new, before,
                 faults, struck>>

\* Slip: any tag of the repository will do.
AnyTag(s) == {<<s, n>> : n \in 1 .. latest[s]}

\* The tag the policy selects; a policy nothing matches skips the service, as
\* a failed listing does.
Selected(s) == {<<s, latest[s]>>}

\* The body of the range: the tags cannot be listed, or the selected one is
\* compared with the one of the snapshot.
Visit ==
  /\ pc = "loop"
  /\ \E s \in todo :
       /\ todo' = todo \ {s}
       /\ LET l == ImageOf(snapshot, s)
          IN  \E t \in Selected(s) :
                IF Listable(l) /\ t # CurrentTag(l)
                THEN pc' = "backup" /\ cur' = s /\ sel' = t
                ELSE UNCHANGED <<pc, cur, sel>>
  /\ UNCHANGED <<layout, file, backup, running, latest, snapshot, new, before,
                 faults, struck>>

FetchFails ==
  /\ pc = "loop" /\ Strikes("fetch")
  /\ \E s \in todo : todo' = todo \ {s}
  /\ UNCHANGED <<layout, file, backup, running, latest, pc, snapshot, cur, sel,
                 new, before>>

\* The ticker: the next cycle.
CycleOver ==
  /\ pc = "loop" /\ todo = {}
  /\ pc' = "poll"
  /\ UNCHANGED <<layout, file, backup, running, latest, snapshot, todo, cur, sel,
                 new, before, faults, struck>>

-----------------------------------------------------------------------------
(***************************************************************************)
(* updateDockerComposeAndRestart.                                          *)
(***************************************************************************)
\* Slip: the file is not copied when there is a copy already.
KeepsOldBackup == UNCHANGED backup

WritesBackup == backup' = file

BackUp ==
  /\ pc = "backup"
  /\ WritesBackup /\ pc' = "scan"
  /\ UNCHANGED <<layout, file, running, latest, snapshot, todo, cur, sel, new,
                 before, faults, struck>>

\* os.WriteFile failed, after truncating: a warning.
BackUpFails ==
  /\ pc = "backup" /\ Strikes("backup")
  /\ backup' \in Partly(file) \union {backup} /\ pc' = "scan"
  /\ UNCHANGED <<layout, file, running, latest, snapshot, todo, cur, sel, new,
                 before>>

\* Slip: a service that cannot be updated ends the cycle.
GivesUpCycle == todo' = {}

\* The error is logged and the range goes on.
GoesOn == UNCHANGED todo

Scan ==
  /\ pc = "scan"
  /\ IF Rewritten(file, cur) = {}
     THEN pc' = "loop" /\ GoesOn /\ UNCHANGED new
     ELSE pc' = "create" /\ new' = Rewrite(file, cur, sel) /\ UNCHANGED todo
  /\ UNCHANGED <<layout, file, backup, running, latest, snapshot, cur, sel,
                 before, faults, struck>>

\* os.Create truncates the file; only Flush writes it.
Create ==
  /\ pc = "create"
  /\ before' = file /\ file' = [new EXCEPT !.len = 0, !.broken = FALSE]
  /\ pc' = "flush"
  /\ UNCHANGED <<layout, backup, running, latest, snapshot, todo, cur, sel, new,
                 faults, struck>>

CreateFails ==
  /\ pc = "create" /\ Strikes("create")
  /\ pc' = "loop"
  /\ UNCHANGED <<layout, file, backup, running, latest, snapshot, todo, cur, sel,
                 new, before>>

Flush ==
  /\ pc = "flush"
  /\ file' = new /\ pc' = "up"
  /\ UNCHANGED <<layout, backup, running, latest, snapshot, todo, cur, sel, new,
                 before, faults, struck>>

FlushFails ==
  /\ pc = "flush" /\ Strikes("flush")
  /\ file' \in Partly(new) /\ pc' = "loop"
  /\ UNCHANGED <<layout, backup, running, latest, snapshot, todo, cur, sel, new,
                 before>>

\* docker compose up -d --no-deps cur: external, and hopeless on a file that is
\* not YAML, does not declare the service, or names no image for it that exists.
Restart ==
  /\ pc = "up"
  /\ running' = IF \/ file.broken \/ cur \notin ServicesIn(file)
                   \/ ImageOf(file, cur) \in file.lost
                THEN running
                ELSE [running EXCEPT ![cur] = file.tag[ImageOf(file, cur)]]
  /\ pc' = "loop"
  /\ UNCHANGED <<layout, file, backup, latest, snapshot, todo, cur, sel, new,
                 before, faults, struck>>

RestartFails ==
  /\ pc = "up" /\ Strikes("restart")
  /\ pc' = "loop"
  /\ UNCHANGED <<layout, file, backup, running, latest, snapshot, todo, cur, sel,
                 new, before>>

-----------------------------------------------------------------------------
\* The process dies and systemd starts it again; a file being written keeps
\* the lines that had reached the disk.
Crash ==
  /\ pc \notin {"start", "stopped"} /\ Strikes("crash")
  /\ file' \in IF pc = "flush" THEN Partly(new) ELSE {file}
  /\ backup' \in IF pc = "backup" THEN {backup} \union Partly(file) ELSE {backup}
  /\ pc' = "start" /\ todo' = {}
  /\ cur' = Nobody /\ sel' = NoTag /\ snapshot' = file' /\ new' = file'
  /\ UNCHANGED <<layout, running, latest, before>>

\* A new tag is pushed to the repository of a service.
Publish ==
  /\ \E s \in Services :
       /\ latest[s] < MaxTag
       /\ latest' = [latest EXCEPT ![s] = @ + 1]
  /\ UNCHANGED <<layout, file, backup, running, pc, snapshot, todo, cur, sel, new,
                 before, faults, struck>>

Stopped == pc = "stopped" /\ UNCHANGED vars

Sync ==
  \/ Start \/ Poll \/ Visit \/ CycleOver
  \/ BackUp \/ Scan \/ Create \/ Flush \/ Restart

Fault ==
  \/ FetchFails \/ BackUpFails \/ CreateFails \/ FlushFails \/ RestartFails
  \/ Crash

Next == Sync \/ Fault \/ Publish \/ Stopped

\* The loop runs on: the ticker ticks, every command it waits for returns.
Spec == Init /\ [][Next]_vars /\ WF_vars(Sync)

-----------------------------------------------------------------------------
(***************************************************************************)
(* Properties                                                              *)
(***************************************************************************)
\* "restart only the affected services": an image line names a published tag of
\* the repository of its own service, unless its one colon stood before a port or
\* a digest: such a line the code spoils, once its registry has listed tags.  A
\* tagged line is never spoilt, nor one whose registry has not answered.
TagsBelong ==
  \A l \in ImagesIn(file) :
    IF l \in file.lost THEN Misread(l) /\ HasTagList(l)
    ELSE /\ file.tag[l][1] = layout[l].owner
         /\ file.tag[l][2] <= latest[layout[l].owner]

\* "updateDockerComposeAndRestart updates the image tag for a service": no line
\* comes to name anything but its own repository.  True of compose files without
\* the two forms above, and of no use to those with them.
NothingLost == file.lost = {}

\* "Backup creation of Docker Compose files before modifications": while the
\* file is being rewritten, and while the service is restarted from it, the
\* backup is the file as it was, unless a copy has failed: that is a warning.
BackupBeforeModification ==
  pc \in {"flush", "up"} /\ "backup" \notin struck => backup = before

\* The loop decides on a snapshot and on tags that may be stale when it writes,
\* yet neither the file nor a service ever goes back to an older tag.
NeverBack ==
  [][ /\ \A l \in ImageLines : file.tag[l][2] <= file'.tag[l][2]
      /\ \A s \in Services : running[s][2] <= running'[s][2] ]_vars

\* Where the loop can list tags: Docker Hub, GHCR, DigitalOcean when there is
\* something to authenticate with, and the registry configured as custom.
Supported(ref) ==
  \/ ref.registry \in {"docker.io", "ghcr.io", Config.url}
  \/ /\ ref.registry = "registry.digitalocean.com"
     /\ Config.token \/ Config.password \/ Config.pat

\* The services the loop can manage: an image of such a registry with a plain tag
\* right below the service's key, in a file no rewriting makes unreadable.
Managed ==
  {layout[l].owner : l \in {i \in ImageLines :
     /\ CurrentService(i) = layout[i].owner /\ layout[i].form = "tagged"
     /\ Supported(layout[i].ref)
     /\ \A k \in ImageLines : ~layout[k].quoted}}

\* "to ensure your deployments are always running the latest versions": once
\* nothing new is published, the file comes to name the latest tag of every such
\* service, whichever listings, copies, openings and restarts failed on the way,
\* and the service to run it, unless a restart has failed: the loop compares with
\* the file, not with what runs, so it is not tried again.  A torn write or a
\* crash ends the promise.
Convergence ==
  \A s \in Services :
    <>[](s \in Managed /\ struck \intersect {"flush", "crash"} = {} =>
           /\ \A l \in ImageLines :
                layout[l].owner = s => file.tag[l] = <<s, latest[s]>>
           /\ "restart" \in struck \/ running[s] = <<s, latest[s]>>)
================================================================================
