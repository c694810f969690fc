----------------------------- MODULE SyncLoopProofs -----------------------------
(* The safety properties of SyncLoop, for any services, compose files, tags     *)
(* and faults; and those of TagPolicy, for any tags, policies and lists.        *)
EXTENDS SyncLoop, TagPolicy, WellFoundedInduction, TLAPS

-----------------------------------------------------------------------------
(***************************************************************************)
(* The polling loop.                                                       *)
(***************************************************************************)

\* While a service is updated, there is one, and a tag selected for it.
AtWork ==
  pc \in {"backup", "scan", "create", "flush", "up"} =>
    cur \in Services /\ sel \in Tags

\* Unless a copy failed, the backup is the file about to be written, then the
\* file that was overwritten.
Copied ==
  "backup" \notin struck =>
    /\ pc \in {"scan", "create"} => backup = file
    /\ pc \in {"flush", "up"} => backup = before

Base == TypeOK /\ AtWork /\ Copied

-----------------------------------------------------------------------------
(***************************************************************************)
(* What is known of files.                                                 *)
(***************************************************************************)
LEMMA LayoutFacts ==
  ASSUME layout \in Layouts
  PROVE  /\ Len(layout) \in Nat
         /\ \A l \in ImageLines : layout[l].owner \in Services
  <1>1. layout \in Seq(KeyLine \union ImageLine)
    BY LayoutsAssumption
  <1>2. \A l \in Lines : layout[l] \in KeyLine \union ImageLine
    BY <1>1 DEF Lines
  <1>3. \A l \in ImageLines : layout[l] \in ImageLine
    BY <1>2 DEF ImageLines, KeyLine
  <1>4. QED
    BY <1>1, <1>3 DEF ImageLine

\* A file that is cut off is a file.
LEMMA PartsAreFiles ==
  ASSUME layout \in Layouts, NEW f \in Files, NEW g \in Partly(f)
  PROVE  g \in Files /\ g.tag = f.tag /\ g.lost = f.lost
  <1>1. PICK k \in 0 .. Len(layout) - 1 : g = [f EXCEPT !.len = k]
    BY DEF Partly
  <1>2. k \in 0 .. Len(layout)
    BY LayoutFacts
  <1>3. QED
    BY <1>1, <1>2 DEF Files

\* So is one whose lines have been rewritten.
LEMMA RewritingGivesFiles ==
  ASSUME NEW f \in Files, NEW s \in Services, NEW t \in Tags
  PROVE  Rewrite(f, s, t) \in Files
  <1>1. [l \in ImageLines |-> IF l \in Rewritten(f, s) THEN t ELSE f.tag[l]]
          \in [ImageLines -> Tags]
    BY DEF Files
  <1>2. (f.broken \/ \E l \in Rewritten(f, s) : layout[l].quoted) \in BOOLEAN
    BY Zenon
  <1>3. f.lost \union {l \in Rewritten(f, s) : Misread(l)} \in SUBSET ImageLines
    BY DEF Files, Rewritten, ImagesIn
  <1>4. QED
    BY <1>1, <1>2, <1>3 DEF Files, Rewrite

\* And one that has just been created.
LEMMA EmptyIsFile ==
  ASSUME layout \in Layouts, NEW f \in Files
  PROVE  /\ [f EXCEPT !.len = 0, !.broken = FALSE] \in Files
         /\ [f EXCEPT !.len = 0, !.broken = FALSE].tag = f.tag
         /\ [f EXCEPT !.len = 0, !.broken = FALSE].lost = f.lost
  <1>1. 0 \in 0 .. Len(layout)
    BY LayoutFacts
  <1>2. [f EXCEPT !.len = 0] \in Files
    BY <1>1 DEF Files
  <1>3. QED
    BY <1>2 DEF Files

-----------------------------------------------------------------------------
(***************************************************************************)
(* Types, and the order of the copy and the writing.                       *)
(***************************************************************************)
LEMMA InitBase == Init => Base
  <1> SUFFICES ASSUME Init PROVE Base
    OBVIOUS
  <1>1. file \in Files
    <2>1. \A l \in ImageLines : <<layout[l].owner, 1>> \in Tags
      BY LayoutFacts, MaxTagAssumption DEF Init, Tags
    <2>2. Len(layout) \in 0 .. Len(layout)
      BY LayoutFacts DEF Init
    <2>3. QED
      BY <2>1, <2>2 DEF Init, Files
  <1>2. TypeOK
    <2>1. /\ running \in [Services -> Tags] /\ latest \in [Services -> 1 .. MaxTag]
      BY MaxTagAssumption DEF Init, Tags
    <2>2. /\ todo \subseteq Services /\ cur \in Services \union {Nobody}
          /\ sel \in Tags \union {NoTag} /\ faults \in 0 .. MaxFaults
          /\ struck \subseteq Faults /\ layout \in Layouts
          /\ pc \in {"start", "poll", "loop", "backup", "scan", "create", "flush", "up",
                    "stopped"}
      BY FaultsAssumption DEF Init
    <2>3. /\ backup \in Files /\ snapshot \in Files /\ new \in Files /\ before \in Files
      BY <1>1 DEF Init
    <2>4. QED
      BY <1>1, <2>1, <2>2, <2>3 DEF TypeOK
  <1>3. AtWork /\ Copied
    BY DEF Init, AtWork, Copied
  <1>4. QED
    BY <1>2, <1>3 DEF Base

\* A fault takes one from the allowance.
LEMMA StrikeKeepsType ==
  ASSUME faults \in 0 .. MaxFaults, struck \subseteq Faults, NEW kind, Strikes(kind)
  PROVE  faults' \in 0 .. MaxFaults /\ struck' \subseteq Faults
  BY FaultsAssumption DEF Strikes

\* The steps that look for something to update.
LEMMA LoopKeepsBase ==
  ASSUME Base, Start \/ Poll \/ CycleOver \/ FetchFails \/ Publish
  PROVE  Base'
  <1> USE DEF Base
  <1>0. Files' = Files
    BY DEF Start, Poll, CycleOver, FetchFails, Publish, Files, ImageLines, Lines
  <1>1. CASE Start \/ Poll \/ CycleOver
    <2>1. /\ UNCHANGED <<layout, file, backup, running, latest, cur, sel, new, before,
                        faults, struck>>
          /\ pc' \in {"poll", "loop", "stopped"} /\ snapshot' \in {snapshot, file}
          /\ todo' \in {todo, ServicesIn(file)}
      BY <1>1 DEF Start, Poll, CycleOver
    <2>2. ServicesIn(file) \subseteq Services
      BY LayoutFacts DEF TypeOK, ServicesIn, ImagesIn
    <2>3. TypeOK'
      BY <1>0, <2>1, <2>2 DEF TypeOK, Tags
    <2>4. AtWork' /\ Copied'
      BY <2>1 DEF AtWork, Copied
    <2>5. QED
      BY <2>3, <2>4
  <1>2. CASE FetchFails
    <2>1. faults' \in 0 .. MaxFaults /\ struck' \subseteq Faults
      BY <1>2, StrikeKeepsType DEF TypeOK, FetchFails
    <2>2. TypeOK'
      BY <1>0, <1>2, <2>1 DEF TypeOK, Tags, FetchFails
    <2>3. AtWork' /\ Copied'
      BY <1>2 DEF AtWork, Copied, FetchFails
    <2>4. QED
      BY <2>2, <2>3
  <1>3. CASE Publish
    <2>1. latest' \in [Services -> 1 .. MaxTag]
      BY <1>3, MaxTagAssumption DEF Publish, TypeOK
    <2>2. TypeOK'
      BY <1>0, <1>3, <2>1 DEF TypeOK, Tags, Publish
    <2>3. AtWork' /\ Copied'
      BY <1>3 DEF AtWork, Copied, Publish, Tags
    <2>4. QED
      BY <2>2, <2>3
  <1>4. QED
    BY <1>1, <1>2, <1>3

LEMMA VisitKeepsBase == ASSUME Base, Visit PROVE Base'
  <1> USE DEF Base
  <1>0. Files' = Files /\ Tags' = Tags
    BY DEF Visit, Files, ImageLines, Lines, Tags
  <1>1. PICK s \in todo : todo' = todo \ {s} /\ \E t \in Selected(s) :
          \/ pc' = "backup" /\ cur' = s /\ sel' = t
          \/ pc = "loop" /\ UNCHANGED <<pc, cur, sel>>
    BY Zenon DEF Visit
  <1>2. s \in Services /\ Selected(s) \subseteq Tags
    BY <1>1, MaxTagAssumption DEF TypeOK, Selected, Tags
  <1>3. TypeOK'
    BY <1>0, <1>1, <1>2 DEF TypeOK, Visit
  <1>4. AtWork'
    BY <1>0, <1>1, <1>2 DEF AtWork
  <1>5. Copied'
    BY <1>1 DEF Copied
  <1>6. QED
    BY <1>3, <1>4, <1>5

\* updateDockerComposeAndRestart, up to the writing of the file.
LEMMA CopyKeepsBase ==
  ASSUME Base, BackUp \/ BackUpFails \/ Scan \/ CreateFails PROVE Base'
  <1> USE DEF Base
  <1>0. Files' = Files /\ Tags' = Tags
    BY DEF BackUp, BackUpFails, Scan, CreateFails, Files, ImageLines, Lines, Tags
  <1>1. CASE BackUp
    <2>1. TypeOK'
      BY <1>0, <1>1 DEF TypeOK, BackUp, WritesBackup
    <2>2. AtWork' /\ Copied'
      BY <1>0, <1>1 DEF AtWork, Copied, BackUp, WritesBackup
    <2>3. QED
      BY <2>1, <2>2
  <1>2. CASE BackUpFails
    <2>1. faults' \in 0 .. MaxFaults /\ struck' \subseteq Faults
      BY <1>2, StrikeKeepsType DEF TypeOK, BackUpFails
    <2>2. backup' \in Files
      BY <1>2, PartsAreFiles DEF TypeOK, BackUpFails
    <2>3. TypeOK'
      BY <1>0, <1>2, <2>1, <2>2 DEF TypeOK, BackUpFails
    <2>4. AtWork' /\ "backup" \in struck'
      BY <1>0, <1>2 DEF AtWork, BackUpFails, Strikes
    <2>5. QED
      BY <2>3, <2>4 DEF Copied
  <1>3. CASE Scan
    <2>1. cur \in Services /\ sel \in Tags /\ file \in Files
      BY <1>3 DEF AtWork, Scan, TypeOK
    <2>2. new' \in Files /\ pc' \in {"loop", "create"}
      BY <1>3, <2>1, RewritingGivesFiles DEF TypeOK, Scan
    <2>3. TypeOK'
      BY <1>0, <1>3, <2>2 DEF TypeOK, Scan, GoesOn
    <2>4. AtWork' /\ Copied'
      BY <1>0, <1>3, <2>1, <2>2 DEF AtWork, Copied, Scan
    <2>5. QED
      BY <2>3, <2>4
  <1>4. CASE CreateFails
    <2>1. faults' \in 0 .. MaxFaults /\ struck' \subseteq Faults
      BY <1>4, StrikeKeepsType DEF TypeOK, CreateFails
    <2>2. TypeOK'
      BY <1>0, <1>4, <2>1 DEF TypeOK, CreateFails
    <2>3. AtWork' /\ Copied'
      BY <1>4 DEF AtWork, Copied, CreateFails
    <2>4. QED
      BY <2>2, <2>3
  <1>5. QED
    BY <1>1, <1>2, <1>3, <1>4

\* The writing of the file, whole or in part, and the restart.
LEMMA WriteKeepsBase ==
  ASSUME Base, Create \/ Flush \/ FlushFails \/ Restart \/ RestartFails PROVE Base'
  <1> USE DEF Base
  <1>0. Files' = Files /\ Tags' = Tags
    BY DEF Create, Flush, FlushFails, Restart, RestartFails, Files, ImageLines, Lines, Tags
  <1>1. CASE Create
    <2>1. file' \in Files
      BY <1>1, EmptyIsFile DEF TypeOK, Create
    <2>2. TypeOK'
      BY <1>0, <1>1, <2>1 DEF TypeOK, Create
    <2>3. AtWork' /\ Copied'
      BY <1>0, <1>1 DEF AtWork, Copied, Create
    <2>4. QED
      BY <2>2, <2>3
  <1>2. CASE Flush
    <2>1. TypeOK'
      BY <1>0, <1>2 DEF TypeOK, Flush
    <2>2. AtWork' /\ Copied'
      BY <1>0, <1>2 DEF AtWork, Copied, Flush
    <2>3. QED
      BY <2>1, <2>2
  <1>3. CASE FlushFails
    <2>1. faults' \in 0 .. MaxFaults /\ struck' \subseteq Faults
      BY <1>3, StrikeKeepsType DEF TypeOK, FlushFails
    <2>2. file' \in Files
      BY <1>3, PartsAreFiles DEF TypeOK, FlushFails
    <2>3. TypeOK'
      BY <1>0, <1>3, <2>1, <2>2 DEF TypeOK, FlushFails
    <2>4. AtWork' /\ Copied'
      BY <1>3 DEF AtWork, Copied, FlushFails
    <2>5. QED
      BY <2>3, <2>4
  <1>4. CASE Restart
    <2>1. ASSUME cur \in ServicesIn(file)
          PROVE  file.tag[ImageOf(file, cur)] \in Tags
      BY <2>1 DEF ServicesIn, ImageOf, ImagesIn, TypeOK, Files
    <2>2. running' \in [Services -> Tags]
      BY <1>4, <2>1 DEF Restart, TypeOK
    <2>3. TypeOK'
      BY <1>0, <1>4, <2>2 DEF TypeOK, Restart
    <2>4. AtWork' /\ Copied'
      BY <1>4 DEF AtWork, Copied, Restart
    <2>5. QED
      BY <2>3, <2>4
  <1>5. CASE RestartFails
    <2>1. faults' \in 0 .. MaxFaults /\ struck' \subseteq Faults
      BY <1>5, StrikeKeepsType DEF TypeOK, RestartFails
    <2>2. TypeOK'
      BY <1>0, <1>5, <2>1 DEF TypeOK, RestartFails
    <2>3. AtWork' /\ Copied'
      BY <1>5 DEF AtWork, Copied, RestartFails
    <2>4. QED
      BY <2>2, <2>3
  <1>6. QED
    BY <1>1, <1>2, <1>3, <1>4, <1>5

LEMMA CrashKeepsBase == ASSUME Base, Crash PROVE Base'
  <1> USE DEF Base
  <1>0. Files' = Files /\ Tags' = Tags
    BY DEF Crash, Files, ImageLines, Lines, Tags
  <1>1. faults' \in 0 .. MaxFaults /\ struck' \subseteq Faults
    BY StrikeKeepsType DEF TypeOK, Crash
  <1>2. file' \in Files /\ backup' \in Files
    BY PartsAreFiles DEF TypeOK, Crash
  <1>3. TypeOK'
    BY <1>0, <1>1, <1>2 DEF TypeOK, Crash
  <1>4. AtWork' /\ Copied'
    BY DEF AtWork, Copied, Crash
  <1>5. QED
    BY <1>3, <1>4

LEMMA NextKeepsBase == Base /\ [Next]_vars => Base'
  <1> SUFFICES ASSUME Base, [Next]_vars PROVE Base'
    OBVIOUS
  <1>1. CASE UNCHANGED vars
    <2>1. Files' = Files /\ Tags' = Tags
      BY <1>1 DEF vars, Files, ImageLines, Lines, Tags
    <2>2. TypeOK'
      BY <1>1, <2>1 DEF vars, Base, TypeOK
    <2>3. AtWork' /\ Copied'
      BY <1>1, <2>1 DEF vars, Base, AtWork, Copied
    <2>4. QED
      BY <2>2, <2>3 DEF Base
  <1>2. QED
    BY <1>1, LoopKeepsBase, VisitKeepsBase, CopyKeepsBase, WriteKeepsBase, CrashKeepsBase
    DEF Next, Sync, Fault, Stopped

\* Types, the service at work and the order of the copy and the writing.
THEOREM BaseHolds == Spec => []Base
  BY InitBase, NextKeepsBase, PTL DEF Spec

\* The state keeps its type, whatever strikes.
THEOREM TypeCorrect == Spec => []TypeOK
  BY BaseHolds, PTL DEF Base

\* Unless the copy itself failed, what is being written over is in the backup.
THEOREM CopiedFirst == Spec => []BackupBeforeModification
  <1>1. Base => BackupBeforeModification
    BY DEF Base, Copied, BackupBeforeModification
  <1>2. QED
    BY <1>1, BaseHolds, PTL

-----------------------------------------------------------------------------
(***************************************************************************)
(* Whose tags the lines name.  The scanner takes any bare key for a         *)
(* service, so what follows is for files in which no image line stands      *)
(* right below a key that is the name of another service, and, as in any    *)
(* compose file, a service has one image line.                              *)
(***************************************************************************)
ImagesUnderOwners ==
  \A l \in ImageLines : CurrentService(l) \in Services => CurrentService(l) = layout[l].owner

OneImageEach ==
  \A l, m \in ImageLines : layout[l].owner = layout[m].owner => l = m

WellLaidOut == ImagesUnderOwners /\ OneImageEach

\* A file whose lines name published tags of their own repositories.
Belongs(f) ==
  \A l \in ImageLines :
    f.tag[l][1] = layout[l].owner /\ f.tag[l][2] <= latest[layout[l].owner]

\* A file none of whose lines was spoilt but by the one colon it had, and the tags
\* its registry listed.
Spoilt(l) == Misread(l) /\ HasTagList(l)
LostAreSpoilt(f) == \A l \in ImageLines : l \in f.lost => Spoilt(l)

\* A service is worked on because the tags of its image were listed.
WorkIsListed ==
  pc \in {"backup", "scan"} =>
    \A l \in ImageLines : layout[l].owner = cur => HasTagList(l)

\* The tag selected was the newest when it was selected, and the file has
\* not changed since.
SelectionIsNewer ==
  pc \in {"backup", "scan", "create"} =>
    /\ sel[1] = cur /\ sel[2] <= latest[cur]
    /\ \A l \in ImageLines : layout[l].owner = cur => file.tag[l][2] <= sel[2]

\* What will be written is ahead of the file until it is what the file becomes.
RewritingIsNewer ==
  /\ pc = "create" => \A l \in ImageLines : file.tag[l][2] <= new.tag[l][2]
  /\ pc = "flush" => file.tag = new.tag /\ file.lost = new.lost

\* No service runs ahead of its image line.
FileLeads ==
  \A l \in ImageLines : running[layout[l].owner][2] <= file.tag[l][2]

Owned ==
  /\ WellLaidOut /\ Belongs(file) /\ Belongs(new)
  /\ LostAreSpoilt(file) /\ LostAreSpoilt(new) /\ WorkIsListed
  /\ SelectionIsNewer /\ RewritingIsNewer /\ FileLeads

\* The lines of the file are not moved.
LEMMA LayoutStays ==
  ASSUME WellLaidOut, layout' = layout
  PROVE  /\ WellLaidOut' /\ ImageLines' = ImageLines
         /\ \A l \in ImageLines : Spoilt(l)' <=> Spoilt(l)
         /\ \A l \in ImageLines : HasTagList(l)' <=> HasTagList(l)
  <1>1. Lines' = Lines /\ ImageLines' = ImageLines
    BY Zenon DEF Lines, ImageLines
  <1>2. ASSUME NEW l PROVE CurrentService(l)' = CurrentService(l)
    <2>1. KeysAbove(l)' = KeysAbove(l)
      BY <1>1, Zenon DEF KeysAbove
    <2>2. QED
      BY <2>1, Zenon DEF CurrentService
  <1>3. /\ \A l \in ImageLines : Spoilt(l)' <=> Spoilt(l)
        /\ \A l \in ImageLines : HasTagList(l)' <=> HasTagList(l)
    BY Zenon DEF Spoilt, Misread, HasTagList
  <1>4. WellLaidOut'
    BY <1>1, <1>2 DEF WellLaidOut, ImagesUnderOwners, OneImageEach
  <1>5. QED
    BY <1>1, <1>3, <1>4

\* Tags are numbers, files name some tag on every line.
LEMMA TagNumbers ==
  ASSUME Base
  PROVE  /\ \A s \in Services : latest[s] \in Nat /\ running[s][2] \in Nat
         /\ \A f \in Files : \A l \in ImageLines : f.tag[l][2] \in Nat
         /\ \A t \in Tags : t[2] \in Nat
         /\ \A l \in ImageLines : layout[l].owner \in Services
  <1> USE DEF Base
  <1>1. \A t \in Tags : t[2] \in Nat
    BY MaxTagAssumption DEF Tags
  <1>2. \A s \in Services : latest[s] \in Nat /\ running[s][2] \in Nat
    BY <1>1, MaxTagAssumption DEF TypeOK
  <1>3. \A f \in Files : \A l \in ImageLines : f.tag[l][2] \in Nat
    BY <1>1 DEF Files
  <1>4. QED
    BY <1>1, <1>2, <1>3, LayoutFacts DEF TypeOK

\* Rewriting gives the lines of the service its tag and leaves the others alone.
LEMMA RewritingIsOwn ==
  ASSUME Base, WellLaidOut, NEW f \in Files, NEW s \in Services, NEW t \in Tags
  PROVE  \A l \in ImageLines :
           /\ layout[l].owner # s => Rewrite(f, s, t).tag[l] = f.tag[l]
           /\ Rewrite(f, s, t).tag[l] \in {t, f.tag[l]}
           /\ l \in Rewrite(f, s, t).lost =>
                l \in f.lost \/ (layout[l].owner = s /\ Misread(l))
  BY DEF Rewrite, Rewritten, WellLaidOut, ImagesUnderOwners, ImagesIn

\* The range goes over services of the snapshot.
TodoInFile == todo \subseteq ServicesIn(snapshot)

LEMMA TodoHolds == Spec => []TodoInFile
  <1>1. Init => TodoInFile
    BY DEF Init, TodoInFile
  <1>2. TodoInFile /\ [Next]_vars => TodoInFile'
    <2> SUFFICES ASSUME TodoInFile, [Next]_vars PROVE TodoInFile'
      OBVIOUS
    <2>1. /\ layout' = layout
          /\ \/ todo' \subseteq todo /\ snapshot' = snapshot
             \/ todo' = ServicesIn(file) /\ snapshot' = file
             \/ todo' = {}
      BY DEF Next, Sync, Fault, Stopped, vars, Start, Poll, Visit, CycleOver, BackUp,
             BackUpFails, Scan, GoesOn, Create, CreateFails, Flush, FlushFails, Restart,
             RestartFails, FetchFails, Crash, Publish
    <2>2. ServicesIn(snapshot)' = ServicesIn(snapshot')
      BY <2>1 DEF ServicesIn, ImagesIn, ImageLines, Lines
    <2>3. QED
      BY <2>1, <2>2 DEF TodoInFile
  <1>3. QED
    BY <1>1, <1>2, PTL DEF Spec

LEMMA InitOwned == Init /\ WellLaidOut => Owned
  <1> SUFFICES ASSUME Init, WellLaidOut PROVE Owned
    OBVIOUS
  <1>1. /\ layout \in Layouts /\ \A l \in ImageLines : layout[l].owner \in Services
        /\ \A s \in Services : latest[s] = 1 /\ running[s] = <<s, 1>>
        /\ \A l \in ImageLines : file.tag[l] = <<layout[l].owner, 1>>
        /\ new = file /\ file.lost = {}
    BY LayoutFacts DEF Init
  <1>2. Belongs(file) /\ Belongs(new) /\ FileLeads
        /\ LostAreSpoilt(file) /\ LostAreSpoilt(new)
    BY <1>1 DEF Belongs, FileLeads, LostAreSpoilt
  <1>3. SelectionIsNewer /\ RewritingIsNewer /\ WorkIsListed
    BY DEF Init, SelectionIsNewer, RewritingIsNewer, WorkIsListed
  <1>4. QED
    BY <1>2, <1>3 DEF Owned

\* No step takes a line of the file or a service back.
Forward ==
  /\ \A l \in ImageLines : file.tag[l][2] <= file'.tag[l][2]
  /\ \A s \in Services : running[s][2] <= running'[s][2]

\* The steps that change no tag.
LEMMA QuietKeepsOwned ==
  ASSUME Base, Owned, UNCHANGED <<layout, running>>,
         file'.tag = file.tag, new'.tag \in {new.tag, file.tag},
         file'.lost = file.lost, new'.lost \in {new.lost, file.lost},
         WorkIsListed',
         \A s \in Services : latest[s] <= latest'[s] /\ latest'[s] \in Nat,
         SelectionIsNewer', RewritingIsNewer'
  PROVE  Owned' /\ Forward
  <1>1. /\ ImageLines' = ImageLines /\ WellLaidOut'
        /\ \A l \in ImageLines : Spoilt(l)' <=> Spoilt(l)
    BY LayoutStays DEF Owned
  <1>2. \A l \in ImageLines :
          file.tag[l][2] \in Nat /\ new.tag[l][2] \in Nat /\ layout[l].owner \in Services
    BY TagNumbers DEF Base, TypeOK
  <1>3. \A s \in Services : latest[s] \in Nat /\ running[s][2] \in Nat
    BY TagNumbers
  <1>4. Belongs(file)' /\ Belongs(new)'
    BY <1>1, <1>2, <1>3 DEF Owned, Belongs
  <1>5. FileLeads' /\ Forward
    BY <1>1, <1>2, <1>3 DEF Owned, FileLeads, Forward
  <1>6. LostAreSpoilt(file)' /\ LostAreSpoilt(new)'
    BY <1>1 DEF Owned, LostAreSpoilt
  <1>7. QED
    BY <1>1, <1>4, <1>5, <1>6 DEF Owned

\* The steps of the loop and of the copy, and everything that goes wrong.
LEMMA LoopKeepsOwned ==
  ASSUME Base, Owned,
         \/ Start \/ Poll \/ CycleOver \/ FetchFails \/ BackUp \/ BackUpFails
         \/ CreateFails \/ RestartFails \/ UNCHANGED vars
  PROVE  Owned' /\ Forward
  <1>1. /\ UNCHANGED <<layout, running, file, new, latest, cur, sel>>
        /\ pc' \in {"backup", "scan"} => pc \in {"backup", "scan"}
        /\ pc' = "create" => pc = "create"
        /\ pc' = "flush" => pc = "flush"
    BY DEF Start, Poll, CycleOver, FetchFails, BackUp, BackUpFails, CreateFails,
           RestartFails, vars
  <1>2. ImageLines' = ImageLines
    BY <1>1 DEF ImageLines, Lines
  <1>3. SelectionIsNewer' /\ RewritingIsNewer'
    BY <1>1, <1>2 DEF Owned, SelectionIsNewer, RewritingIsNewer
  <1>4. \A s \in Services : latest[s] \in Nat
    BY TagNumbers
  <1>5. WorkIsListed'
    BY <1>1, <1>2, LayoutStays DEF Owned, WorkIsListed
  <1>6. QED
    BY <1>1, <1>3, <1>4, <1>5, QuietKeepsOwned

LEMMA PublishKeepsOwned == ASSUME Base, Owned, Publish PROVE Owned' /\ Forward
  <1>1. \A s \in Services : latest[s] \in Nat
    BY TagNumbers
  <1>2. \A s \in Services : latest[s] <= latest'[s] /\ latest'[s] \in Nat
    BY <1>1 DEF Publish, Base, TypeOK
  <1>3. /\ UNCHANGED <<layout, running, file, new, pc, cur, sel>>
        /\ ImageLines' = ImageLines
    BY DEF Publish, ImageLines, Lines
  <1>4. pc \in {"backup", "scan", "create"} => cur \in Services /\ sel[2] \in Nat
    BY TagNumbers DEF Base, AtWork
  <1>5. SelectionIsNewer' /\ RewritingIsNewer'
    <2>1. ASSUME pc \in {"backup", "scan", "create"} PROVE sel[2] <= latest'[cur]
      <3>1. /\ sel[2] <= latest[cur] /\ cur \in Services /\ sel[2] \in Nat
        BY <1>4, <2>1 DEF Owned, SelectionIsNewer
      <3>2. QED
        BY <1>1, <1>2, <3>1
    <2>2. QED
      BY <1>3, <2>1 DEF Owned, SelectionIsNewer, RewritingIsNewer
  <1>6. WorkIsListed'
    BY <1>3, LayoutStays DEF Owned, WorkIsListed
  <1>7. QED
    BY <1>2, <1>3, <1>5, <1>6, QuietKeepsOwned

LEMMA VisitKeepsOwned ==
  ASSUME Base, Owned, TodoInFile, Visit PROVE Owned' /\ Forward
  <1>1. PICK s \in todo : \E t \in Selected(s) :
          \/ /\ pc' = "backup" /\ cur' = s /\ sel' = t
             /\ Listable(ImageOf(snapshot, s))
          \/ pc = "loop" /\ UNCHANGED <<pc, cur, sel>>
    BY Zenon DEF Visit
  <1>2. /\ UNCHANGED <<layout, running, file, new, latest>> /\ ImageLines' = ImageLines
    BY DEF Visit, ImageLines, Lines
  <1>3. /\ s \in Services /\ \A r \in Services : latest[r] \in Nat
    BY <1>1, TagNumbers DEF Base, TypeOK
  <1>4. SelectionIsNewer' /\ RewritingIsNewer'
    <2>1. CASE pc' = "backup" /\ cur' = s /\ sel' = <<s, latest[s]>>
      BY <1>2, <1>3, <2>1 DEF Owned, Belongs, SelectionIsNewer, RewritingIsNewer
    <2>2. CASE pc' = "loop"
      BY <2>2 DEF SelectionIsNewer, RewritingIsNewer
    <2>3. QED
      BY <1>1, <2>1, <2>2 DEF Selected
  <1>5. WorkIsListed'
    <2>1. CASE pc' = "backup" /\ cur' = s /\ Listable(ImageOf(snapshot, s))
      <3>1. /\ ImageOf(snapshot, s) \in ImageLines
            /\ layout[ImageOf(snapshot, s)].owner = s
        BY <1>1 DEF TodoInFile, ServicesIn, ImageOf, ImagesIn
      <3>2. HasTagList(ImageOf(snapshot, s))
        BY <2>1 DEF Listable
      <3>3. \A l \in ImageLines : layout[l].owner = s => HasTagList(l)
        BY <3>1, <3>2 DEF Owned, WellLaidOut, OneImageEach
      <3>4. QED
        BY <1>2, <2>1, <3>3, LayoutStays DEF Owned, WorkIsListed
    <2>2. CASE pc' = "loop"
      BY <2>2 DEF WorkIsListed
    <2>3. QED
      BY <1>1, <2>1, <2>2
  <1>6. QED
    BY <1>2, <1>3, <1>4, <1>5, QuietKeepsOwned

\* The new lines are those of the file, but for the one that gets the selected tag.
LEMMA ScanKeepsOwned == ASSUME Base, Owned, Scan PROVE Owned' /\ Forward
  <1>1. /\ UNCHANGED <<layout, running, file, latest, cur, sel>>
        /\ ImageLines' = ImageLines
    BY DEF Scan, ImageLines, Lines
  <1>2. /\ file \in Files /\ cur \in Services /\ sel \in Tags
        /\ \A s \in Services : latest[s] \in Nat /\ running[s][2] \in Nat
        /\ \A l \in ImageLines : file.tag[l][2] \in Nat /\ layout[l].owner \in Services
        /\ sel[2] \in Nat
    BY TagNumbers DEF Base, AtWork, TypeOK, Scan
  <1>3. /\ sel[1] = cur /\ sel[2] <= latest[cur]
        /\ \A l \in ImageLines : layout[l].owner = cur => file.tag[l][2] <= sel[2]
        /\ \A l \in ImageLines : layout[l].owner = cur => HasTagList(l)
    BY DEF Owned, SelectionIsNewer, WorkIsListed, Scan
  <1>4. CASE pc' = "loop" /\ new' = new
    BY <1>1, <1>2, <1>4, QuietKeepsOwned
    DEF SelectionIsNewer, RewritingIsNewer, WorkIsListed
  <1>5. CASE pc' = "create" /\ new' = Rewrite(file, cur, sel)
    <2>1. \A l \in ImageLines :
            /\ layout[l].owner # cur => new'.tag[l] = file.tag[l]
            /\ new'.tag[l] \in {sel, file.tag[l]}
            /\ l \in new'.lost => l \in file.lost \/ (layout[l].owner = cur /\ Misread(l))
      BY <1>2, <1>5, RewritingIsOwn DEF Owned
    <2>2. Belongs(file)' /\ Belongs(new)'
      BY <1>1, <1>2, <1>3, <2>1 DEF Owned, Belongs
    <2>3. RewritingIsNewer'
      BY <1>1, <1>2, <1>3, <1>5, <2>1 DEF RewritingIsNewer
    <2>4. SelectionIsNewer' /\ FileLeads' /\ Forward
      BY <1>1, <1>2, <1>3, <1>5 DEF Owned, SelectionIsNewer, FileLeads, Forward
    <2>5. /\ WellLaidOut' /\ WorkIsListed'
          /\ \A l \in ImageLines : Spoilt(l)' <=> Spoilt(l)
      BY <1>1, <1>5, LayoutStays DEF Owned, WorkIsListed
    <2>6. LostAreSpoilt(file)' /\ LostAreSpoilt(new)'
      <3>1. \A l \in ImageLines : l \in new'.lost => Spoilt(l)
        BY <1>3, <2>1 DEF Owned, LostAreSpoilt, Spoilt
      <3>2. QED
        BY <1>1, <2>5, <3>1 DEF Owned, LostAreSpoilt
    <2>7. QED
      BY <2>2, <2>3, <2>4, <2>5, <2>6 DEF Owned
  <1>6. QED
    BY <1>4, <1>5 DEF Scan

\* The file becomes the rewritten one, though no line of it may be there yet.
LEMMA CreateKeepsOwned == ASSUME Base, Owned, Create PROVE Owned' /\ Forward
  <1>1. /\ UNCHANGED <<layout, running, latest, new>> /\ ImageLines' = ImageLines
        /\ pc' = "flush" /\ file'.tag = new.tag /\ file'.lost = new.lost
    BY EmptyIsFile DEF Create, ImageLines, Lines, Base, TypeOK
  <1>2. /\ \A l \in ImageLines : file.tag[l][2] <= new.tag[l][2]
        /\ \A l \in ImageLines : file.tag[l][2] \in Nat /\ new.tag[l][2] \in Nat
                                  /\ layout[l].owner \in Services
        /\ \A s \in Services : running[s][2] \in Nat
    BY TagNumbers DEF Owned, RewritingIsNewer, Create, Base, TypeOK
  <1>3. Belongs(file)' /\ Belongs(new)'
    BY <1>1 DEF Owned, Belongs
  <1>4. SelectionIsNewer' /\ RewritingIsNewer' /\ FileLeads' /\ Forward
    BY <1>1, <1>2 DEF Owned, SelectionIsNewer, RewritingIsNewer, FileLeads, Forward
  <1>5. /\ WellLaidOut' /\ WorkIsListed'
        /\ \A l \in ImageLines : Spoilt(l)' <=> Spoilt(l)
    BY <1>1, LayoutStays DEF Owned, WorkIsListed
  <1>6. LostAreSpoilt(file)' /\ LostAreSpoilt(new)'
    BY <1>1, <1>5 DEF Owned, LostAreSpoilt
  <1>7. QED
    BY <1>3, <1>4, <1>5, <1>6 DEF Owned

\* Whether it is written whole, in part or not at all, the lines are the same.
LEMMA WriteKeepsOwned ==
  ASSUME Base, Owned, Flush \/ FlushFails \/ Crash PROVE Owned' /\ Forward
  <1>1. /\ UNCHANGED <<layout, running, latest>> /\ ImageLines' = ImageLines
        /\ pc' \in {"up", "loop", "start"}
    BY DEF Flush, FlushFails, Crash, ImageLines, Lines
  <1>2. pc = "flush" => file.tag = new.tag /\ file.lost = new.lost
    BY DEF Owned, RewritingIsNewer
  <1>3. \A f \in Partly(new) : f.tag = new.tag /\ f.lost = new.lost
    BY PartsAreFiles DEF Base, TypeOK
  <1>4. /\ file'.tag = file.tag /\ new'.tag \in {new.tag, file.tag}
        /\ file'.lost = file.lost /\ new'.lost \in {new.lost, file.lost}
    BY <1>2, <1>3 DEF Flush, FlushFails, Crash
  <1>5. SelectionIsNewer' /\ RewritingIsNewer' /\ WorkIsListed'
    BY <1>1 DEF SelectionIsNewer, RewritingIsNewer, WorkIsListed
  <1>6. \A s \in Services : latest[s] \in Nat
    BY TagNumbers
  <1>7. QED
    BY <1>1, <1>4, <1>5, <1>6, QuietKeepsOwned

\* docker compose up gives the service the tag of its only image line.
LEMMA RestartKeepsOwned == ASSUME Base, Owned, Restart PROVE Owned' /\ Forward
  <1>1. /\ UNCHANGED <<layout, file, latest, new>> /\ ImageLines' = ImageLines
        /\ pc' = "loop"
    BY DEF Restart, ImageLines, Lines
  <1>2. ASSUME cur \in ServicesIn(file)
        PROVE  /\ ImageOf(file, cur) \in ImageLines
               /\ layout[ImageOf(file, cur)].owner = cur
    BY <1>2 DEF ServicesIn, ImageOf, ImagesIn
  <1>3. /\ \A l \in ImageLines : file.tag[l][2] \in Nat /\ layout[l].owner \in Services
        /\ \A s \in Services : running[s][2] \in Nat
        /\ running \in [Services -> Tags] /\ cur \in Services
    BY TagNumbers DEF Base, TypeOK, AtWork, Restart
  <1>4. CASE UNCHANGED running
    <2>1. SelectionIsNewer' /\ RewritingIsNewer' /\ WorkIsListed'
      BY <1>1 DEF SelectionIsNewer, RewritingIsNewer, WorkIsListed
    <2>2. /\ file'.tag = file.tag /\ new'.tag \in {new.tag, file.tag}
          /\ file'.lost = file.lost /\ new'.lost \in {new.lost, file.lost}
      BY <1>1
    <2>3. \A s \in Services : latest[s] \in Nat
      BY TagNumbers
    <2>4. QED
      BY <1>1, <1>4, <2>1, <2>2, <2>3, QuietKeepsOwned
  <1>5. CASE /\ cur \in ServicesIn(file)
             /\ running' = [running EXCEPT ![cur] = file.tag[ImageOf(file, cur)]]
    <2>1. \A l \in ImageLines : layout[l].owner = cur => l = ImageOf(file, cur)
      BY <1>2, <1>5 DEF Owned, WellLaidOut, OneImageEach
    <2>2. \A l \in ImageLines : running[layout[l].owner][2] <= file.tag[l][2]
      BY DEF Owned, FileLeads
    <2>3. FileLeads'
      BY <1>1, <1>3, <1>5, <2>1, <2>2 DEF FileLeads
    <2>4. Forward
      BY <1>1, <1>2, <1>3, <1>5, <2>2 DEF Forward
    <2>5. /\ Belongs(file)' /\ Belongs(new)' /\ SelectionIsNewer' /\ RewritingIsNewer'
          /\ WellLaidOut' /\ WorkIsListed'
          /\ \A l \in ImageLines : Spoilt(l)' <=> Spoilt(l)
      BY <1>1, LayoutStays
      DEF Owned, SelectionIsNewer, RewritingIsNewer, WorkIsListed, Belongs
    <2>6. LostAreSpoilt(file)' /\ LostAreSpoilt(new)'
      BY <1>1, <2>5 DEF Owned, LostAreSpoilt
    <2>7. QED
      BY <2>3, <2>4, <2>5, <2>6 DEF Owned
  <1>6. QED
    BY <1>4, <1>5 DEF Restart

LEMMA NextKeepsOwned ==
  Base /\ TodoInFile /\ Owned /\ [Next]_vars => Owned' /\ Forward
  BY LoopKeepsOwned, PublishKeepsOwned, VisitKeepsOwned, ScanKeepsOwned,
     CreateKeepsOwned, WriteKeepsOwned, RestartKeepsOwned
  DEF Next, Sync, Fault, Stopped

\* The inductive invariant holds wherever images stand under their owners.
THEOREM OwnedHolds == Spec /\ WellLaidOut => []Owned
  BY InitOwned, BaseHolds, TodoHolds, NextKeepsOwned, PTL DEF Spec

\* Then no line ever names a tag of another repository or one that was not
\* published, whatever fails and whenever the process dies, but for the lines with
\* a port or a digest in the place of the tag: of those, the ones whose registry
\* lists tags may be spoilt.
THEOREM OnlyOwnTags == Spec /\ WellLaidOut => []TagsBelong
  <1>1. Owned => TagsBelong
    BY DEF Owned, Belongs, LostAreSpoilt, Spoilt, TagsBelong, ImagesIn
  <1>2. QED
    BY <1>1, OwnedHolds, PTL

\* And neither the file nor a service ever goes back, although the loop decides
\* on a snapshot and on listings that are old when it writes.
THEOREM NothingGoesBack == Spec /\ WellLaidOut => NeverBack
  <1>1. Base /\ TodoInFile /\ Owned /\ [Next]_vars =>
          [ /\ \A l \in ImageLines : file.tag[l][2] <= file'.tag[l][2]
            /\ \A s \in Services : running[s][2] <= running'[s][2] ]_vars
    BY NextKeepsOwned DEF Forward
  <1>2. QED
    BY <1>1, BaseHolds, TodoHolds, OwnedHolds, PTL DEF Spec, NeverBack

-----------------------------------------------------------------------------
(***************************************************************************)
(* The selection of a tag.                                                 *)
(***************************************************************************)
\* Every set of numbers that is not empty has a least member.
LEMMA LeastOf ==
  ASSUME NEW T \in SUBSET Nat, T # {}
  PROVE  \E x \in T : \A y \in T : x <= y
<1>1. IsWellFoundedOn(OpToRel(<, Nat), Nat)
  BY NatLessThanWellFounded
<1>. DEFINE R == OpToRel(<, Nat)
<1>2. PICK x \in T : \A y \in T : ~ (<<y, x>> \in R)
  BY <1>1, WFMin
<1>3. \A y \in T : <<y, x>> \in Nat \X Nat /\ (<<y, x>> \in R <=> y < x)
  BY DEF OpToRel
<1>. HIDE DEF R
<1>4. \A y \in T : ~ (y < x)
  BY <1>2, <1>3
<1>5. x \in T /\ T \subseteq Nat
  BY <1>2
<1>. QED
  BY ONLY <1>4, <1>5

\* Min is the first of a set of positions.
LEMMA MinIsFirst ==
  ASSUME NEW K \in SUBSET Nat, K # {}
  PROVE  Min(K) \in K /\ \A j \in K : Min(K) <= j
  BY LeastOf DEF Min

\* A measure has a highest value on a list.
LEMMA HasHighest ==
  ASSUME NEW n \in Nat, NEW K \in SUBSET (1 .. n), K # {}, NEW m \in [K -> Int]
  PROVE  \E k \in K : \A j \in K : m[j] <= m[k]
<1>. DEFINE Upto(i) == K \cap (1 .. i)
            Topped(i) == \E k \in Upto(i) : \A j \in Upto(i) : m[j] <= m[k]
            Bad == {i \in 1 .. n : Upto(i) # {} /\ ~Topped(i)}
<1>1. SUFFICES Bad = {}
  <2>1. Upto(n) = K
    OBVIOUS
  <2>2. n \in 1 .. n
    <3>1. PICK x \in K : TRUE
      OBVIOUS
    <3>2. x \in 1 .. n
      BY <3>1
    <3>. QED
      BY ONLY n \in Nat, <3>2
  <2>. QED
    BY <2>1, <2>2
<1>2. SUFFICES ASSUME Bad # {} PROVE FALSE
  OBVIOUS
<1>3. PICK b \in Bad : \A i \in Bad : b <= i
  <2>1. Bad \in SUBSET Nat
    OBVIOUS
  <2>. HIDE DEF Bad
  <2>. QED
    BY <2>1, <1>2, LeastOf
<1>4. b \in 1 .. n /\ Upto(b) # {} /\ ~Topped(b)
  BY <1>3
<1>5. b - 1 \in Nat /\ b - 1 \notin Bad
  BY <1>3, <1>4
<1>6. Upto(b) = IF b \in K THEN Upto(b - 1) \union {b} ELSE Upto(b - 1)
  BY <1>4
<1>7. CASE Upto(b - 1) = {}
  <2>1. Upto(b) = {b} /\ b \in K
    BY <1>4, <1>6, <1>7
  <2>. QED
    BY <1>4, <2>1
<1>8. CASE Upto(b - 1) # {}
  <2>1. b - 1 \in 1 .. n
    BY <1>4, <1>8
  <2>2. PICK k \in Upto(b - 1) : \A j \in Upto(b - 1) : m[j] <= m[k]
    BY <1>5, <1>8, <2>1
  <2>3. b \in K /\ ~ (m[b] <= m[k])
    BY <1>4, <1>6, <2>2
  <2>4. \A j \in Upto(b) : m[j] <= m[b]
    BY <1>6, <2>2, <2>3
  <2>. QED
    BY <1>4, <1>6, <2>3, <2>4
<1>. QED
  BY <1>7, <1>8

\* k is the first of those positions where the measure is highest.
IsFirstHighest(k, m) ==
  k \in DOMAIN m /\ \A j \in DOMAIN m : m[j] <= m[k] /\ (j < k => m[j] < m[k])

\* So there is one such position.
LEMMA HasFirstHighest ==
  ASSUME NEW n \in Nat, NEW K \in SUBSET (1 .. n), K # {}, NEW m \in [K -> Int]
  PROVE  \E k \in K : IsFirstHighest(k, m)
<1>1. PICK h \in K : \A j \in K : m[j] <= m[h]
  BY HasHighest
<1>. DEFINE Highest == {j \in K : m[j] = m[h]}
<1>2. Highest \in SUBSET Nat /\ Highest # {}
  <2>1. h \in Highest
    OBVIOUS
  <2>2. K \subseteq Nat
    OBVIOUS
  <2>. QED
    BY <2>1, <2>2
<1>. HIDE DEF Highest
<1>3. PICK k \in Highest : \A j \in Highest : k <= j
  BY <1>2, LeastOf
<1>. USE DEF Highest
<1>4. k \in K /\ m[k] = m[h]
  BY <1>3
<1>5. \A j \in K : j < k => m[j] # m[h]
  BY <1>3
<1>6. \A j \in K : m[j] <= m[k] /\ (j < k => m[j] < m[k])
  BY <1>1, <1>4, <1>5
<1>. QED
  BY <1>4, <1>6 DEF IsFirstHighest

\* And the loop finds it.
LEMMA LoopFindsIt ==
  ASSUME NEW n \in Nat, NEW K \in SUBSET (1 .. n), NEW m \in [K -> Int],
         NEW k \in K, IsFirstHighest(k, m), NEW list
  PROVE  FirstHighest(list, m) = list[k]
<1>1. \A l \in K : IsFirstHighest(l, m) => l = k
  BY DEF IsFirstHighest
<1>2. k = CHOOSE l \in DOMAIN m : \A j \in DOMAIN m :
                  m[j] <= m[l] /\ (j < l => m[j] < m[l])
  BY <1>1 DEF IsFirstHighest
<1>. QED
  BY <1>2 DEF FirstHighest

-----------------------------------------------------------------------------
\* The list may be any list of tags without repetition.
PolicyInv ==
  /\ policy \in Policies /\ tags \in Seq(TagNames)
  /\ \A i, j \in DOMAIN tags : tags[i] = tags[j] => i = j
  /\ selected = SelectTag(policy, tags)

\* What an answer rests on: the positions that take part, what is compared, and
\* the cases that are refused.
Versions(p, list) == {k \in TagValues(p, list) : Value(p, list[k]).version # 0}
Releases(list)    == {k \in DOMAIN list : Text[list[k]].release}

TakesPart(p, list) ==
  CASE p.kind = "semver" ->
         {k \in Versions(p, list) :
            p.range = "none" \/ Value(p, list[k]).version \in InRange}
    [] p.kind = "numerical" -> {k \in TagValues(p, list) :
                                  Value(p, list[k]).number \notin {0, NaN}}
    [] p.kind = "nil" -> IF Releases(list) = {} THEN DOMAIN list ELSE Releases(list)
    [] OTHER -> TagValues(p, list)

Score(p, t) ==
  CASE p.kind = "semver"       -> Value(p, t).version
    [] p.kind = "numerical"    -> Ordered(p, Value(p, t).number)
    [] p.kind = "alphabetical" -> Ordered(p, Value(p, t).order)
    [] OTHER -> Text[t].order

Scores(p, list) == [k \in TakesPart(p, list) |-> Score(p, list[k])]

Refused(p, list) ==
  \/ p.kind # "nil" /\ p.filter.pattern = "invalid" /\ list # <<>>
  \/ p.kind = "semver" /\ p.range = "invalid" /\ Versions(p, list) # {}

PolicyKinds == {"nil", "semver", "numerical", "alphabetical", "unset"}

LEMMA PolicyFacts ==
  ASSUME NEW p \in Policies
  PROVE  /\ p.kind \in PolicyKinds /\ p.order \in {"asc", "desc"}
         /\ p.range \in {"none", "valid", "invalid"} /\ p.filter \in Filters
  BY PoliciesAssumption DEF PolicyKinds

LEMMA ValuesAreTexts ==
  ASSUME NEW p \in Policies, NEW list \in Seq(TagNames)
  PROVE  /\ TagValues(p, list) \subseteq DOMAIN list
         /\ \A k \in DOMAIN list : Text[list[k]] \in Texts
         /\ \A k \in TagValues(p, list) : Value(p, list[k]) \in Texts
<1>1. TagValues(p, list) \subseteq Filtered(p, list) /\ Filtered(p, list) \subseteq DOMAIN list
  BY DEF TagValues, Filtered
<1>2. \A k \in DOMAIN list : Text[list[k]] \in Texts
  BY TextsAssumption
<1>3. \A k \in Filtered(p, list) : Extracts(p) => list[k] \in Matches
  BY DEF Filtered, Extracts
<1>4. \A k \in Filtered(p, list) : Value(p, list[k]) \in Texts
  BY <1>1, <1>2, <1>3, TextsAssumption DEF Value
<1>. QED
  BY <1>1, <1>2, <1>4

LEMMA ScoresAreNumbers ==
  ASSUME NEW p \in Policies, NEW list \in Seq(TagNames)
  PROVE  /\ TakesPart(p, list) \subseteq DOMAIN list
         /\ Scores(p, list) \in [TakesPart(p, list) -> Int]
<1>1. TakesPart(p, list) \subseteq DOMAIN list
  BY ValuesAreTexts DEF TakesPart, Versions, Releases
<1>2. p.kind \in {"semver", "numerical", "alphabetical"} =>
        TakesPart(p, list) \subseteq TagValues(p, list)
  BY DEF TakesPart, Versions
<1>3. \A k \in TakesPart(p, list) : Score(p, list[k]) \in Int
  <2>1. TAKE k \in TakesPart(p, list)
  <2>2. Text[list[k]].order \in Nat
    BY <1>1, ValuesAreTexts DEF Texts
  <2>3. CASE p.kind \in {"semver", "numerical", "alphabetical"}
    <3>1. Value(p, list[k]) \in Texts
      BY <1>2, <2>3, ValuesAreTexts
    <3>2. /\ Value(p, list[k]).order \in Nat /\ Value(p, list[k]).number \in Int
          /\ Value(p, list[k]).version \in Nat
      BY <3>1 DEF Texts, NaN
    <3>. QED
      BY <2>3, <3>2 DEF Score, Ordered
  <2>4. CASE p.kind \notin {"semver", "numerical", "alphabetical"}
    BY <2>2, <2>4 DEF Score
  <2>. QED
    BY <2>3, <2>4
<1>. QED
  BY <1>1, <1>3 DEF Scores

\* The answer is the first of the tags that take part whose score is the highest.
LEMMA SelectionIs ==
  ASSUME NEW p \in Policies, NEW list \in Seq(TagNames), ~Misled(p, list)
  PROVE  SelectTag(p, list) =
           IF Refused(p, list) THEN Invalid ELSE FirstHighest(list, Scores(p, list))
<1>. DEFINE values == TagValues(p, list)
<1>1. DOMAIN Scores(p, list) = TakesPart(p, list)
  BY DEF Scores
<1>2. TakesPart(p, list) = {} => FirstHighest(list, Scores(p, list)) = Empty
  BY <1>1 DEF FirstHighest
<1>3. list = <<>> <=> DOMAIN list = {}
  OBVIOUS
<1>4. values \subseteq DOMAIN list /\ Versions(p, list) \subseteq values
  BY ValuesAreTexts DEF Versions
<1>5. CASE p.kind = "nil"
  <2>1. TakesPart(p, list) = IF Releases(list) = {} THEN DOMAIN list ELSE Releases(list)
    BY <1>5 DEF TakesPart
  <2>2. Scores(p, list) = [k \in TakesPart(p, list) |-> Text[list[k]].order]
    BY <1>5 DEF Scores, Score
  <2>3. ~Refused(p, list)
    BY <1>5 DEF Refused
  <2>4. WithoutPolicy(list) = FirstHighest(list, Scores(p, list))
    BY <2>1, <2>2 DEF WithoutPolicy, Releases
  <2>5. list = <<>> => TakesPart(p, list) = {}
    BY <1>3, <2>1 DEF Releases
  <2>. QED
    BY <1>2, <1>5, <2>3, <2>4, <2>5 DEF SelectTag
<1>6. CASE p.kind # "nil" /\ (values = {} \/ p.filter.pattern = "invalid")
  <2>1. values = {} => TakesPart(p, list) = {} /\ Versions(p, list) = {}
    BY <1>6 DEF TakesPart, Versions
  <2>2. list = <<>> => values = {}
    BY <1>3, <1>4
  <2>. QED
    BY <1>2, <1>6, <2>1, <2>2 DEF SelectTag, Refused
<1>7. CASE /\ p.kind # "nil" /\ values # {} /\ p.filter.pattern # "invalid"
           /\ p.kind = "semver"
  <2>1. list # <<>>
    BY <1>3, <1>4, <1>7
  <2>2. SelectTag(p, list) = ApplySemver(p, list, values)
    BY <1>7, <2>1 DEF SelectTag
  <2>3. ~Value(p, list[Min(values)]).digits
    BY <1>7 DEF Misled, BeginsWithNumber
  <2>4. TakesPart(p, list) = {k \in Versions(p, list) :
            p.range = "none" \/ Value(p, list[k]).version \in InRange}
    BY <1>7 DEF TakesPart
  <2>5. Scores(p, list) = [k \in TakesPart(p, list) |-> Value(p, list[k]).version]
    BY <1>7 DEF Scores, Score
  <2>6. ApplySemver(p, list, values) =
          IF Versions(p, list) = {} THEN Empty
          ELSE IF p.range = "invalid" THEN Invalid ELSE FirstHighest(list, Scores(p, list))
    BY <2>3, <2>4, <2>5 DEF ApplySemver, Versions
  <2>7. Versions(p, list) = {} => TakesPart(p, list) = {}
    BY <2>4
  <2>. QED
    BY <1>2, <1>7, <2>2, <2>6, <2>7 DEF Refused
<1>8. CASE /\ p.kind \in {"numerical", "alphabetical", "unset"}
           /\ values # {} /\ p.filter.pattern # "invalid"
  <2>1. list # <<>> /\ ~Refused(p, list)
    BY <1>3, <1>4, <1>8 DEF Refused
  <2>2. CASE p.kind = "numerical"
    <3>1. SelectTag(p, list) = ApplyNumerical(p, list, values)
      BY <1>8, <2>1, <2>2 DEF SelectTag
    <3>. DEFINE parsed  == {k \in values : Value(p, list[k]).number # 0}
                numbers == {k \in parsed : Value(p, list[k]).number # NaN}
    <3>2. TakesPart(p, list) = numbers
      BY <2>2 DEF TakesPart
    <3>3. Scores(p, list) =
            [k \in TakesPart(p, list) |-> Ordered(p, Number(p, list[k]))]
      BY <2>2 DEF Scores, Score, Number
    <3>4. parsed # {} => Min(parsed) \in parsed
      <4>1. parsed \in SUBSET Nat
        BY <1>4
      <4>. QED
        BY <4>1, MinIsFirst
    <3>5. parsed # {} => Value(p, list[Min(parsed)]).number # NaN
      BY <2>2 DEF Misled, BeginsWithNaN
    <3>. QED
      BY <2>1, <3>1, <3>2, <3>3, <3>4, <3>5 DEF ApplyNumerical
  <2>3. CASE p.kind = "alphabetical"
    <3>1. SelectTag(p, list) = ApplyAlphabetical(p, list, values)
      BY <1>8, <2>1, <2>3 DEF SelectTag
    <3>2. TakesPart(p, list) = values
      BY <2>3 DEF TakesPart
    <3>3. Scores(p, list) = [k \in values |-> Ordered(p, Value(p, list[k]).order)]
      BY <2>3, <3>2 DEF Scores, Score
    <3>. QED
      BY <2>1, <3>1, <3>2, <3>3 DEF ApplyAlphabetical
  <2>4. CASE p.kind = "unset"
    <3>1. SelectTag(p, list) = ApplyUnset(list, values)
      BY <1>8, <2>1, <2>4 DEF SelectTag
    <3>2. TakesPart(p, list) = values
      BY <2>4 DEF TakesPart
    <3>3. Scores(p, list) = [k \in values |-> Text[list[k]].order]
      BY <2>4, <3>2 DEF Scores, Score
    <3>. QED
      BY <2>1, <3>1, <3>2, <3>3 DEF ApplyUnset
  <2>. QED
    BY <1>8, <2>2, <2>3, <2>4
<1>. QED
  BY <1>5, <1>6, <1>7, <1>8, PolicyFacts DEF PolicyKinds

\* So, unless a policy is refused, no tag is selected exactly when none takes part,
\* and the tag that is selected is the first with the highest score.
LEMMA AnswerIs ==
  ASSUME NEW p \in Policies, NEW list \in Seq(TagNames), ~Misled(p, list)
  PROVE  \/ Refused(p, list) /\ SelectTag(p, list) = Invalid
         \/ ~Refused(p, list) /\ TakesPart(p, list) = {} /\ SelectTag(p, list) = Empty
         \/ /\ ~Refused(p, list)
            /\ \E k \in TakesPart(p, list) : /\ IsFirstHighest(k, Scores(p, list))
                                             /\ SelectTag(p, list) = list[k]
<1>1. SelectTag(p, list) =
        IF Refused(p, list) THEN Invalid ELSE FirstHighest(list, Scores(p, list))
  BY SelectionIs
<1>2. DOMAIN Scores(p, list) = TakesPart(p, list)
  BY DEF Scores
<1>3. CASE TakesPart(p, list) = {}
  BY <1>1, <1>2, <1>3 DEF FirstHighest
<1>4. CASE TakesPart(p, list) # {}
  <2>1. Len(list) \in Nat /\ TakesPart(p, list) \in SUBSET (1 .. Len(list))
    BY ScoresAreNumbers
  <2>2. Scores(p, list) \in [TakesPart(p, list) -> Int]
    BY ScoresAreNumbers
  <2>3. PICK k \in TakesPart(p, list) : IsFirstHighest(k, Scores(p, list))
    BY <1>4, <2>1, <2>2, HasFirstHighest
  <2>4. FirstHighest(list, Scores(p, list)) = list[k]
    BY <2>1, <2>2, <2>3, LoopFindsIt
  <2>. QED
    BY <1>1, <2>3, <2>4
<1>. QED
  BY <1>3, <1>4

-----------------------------------------------------------------------------
LEMMA PolicyStarts == PolicyInit => PolicyInv
  BY DEF PolicyInit, PolicyInv

LEMMA Joined ==
  ASSUME NEW S, NEW a \in Seq(S), NEW b \in Seq(S), NEW c, c = a \o b
  PROVE  /\ c \in Seq(S) /\ Len(c) = Len(a) + Len(b)
         /\ \A i \in 1 .. Len(a) + Len(b) :
              c[i] = IF i <= Len(a) THEN a[i] ELSE b[i - Len(a)]
  BY SMT

Inserted(list, t, k) == SubSeq(list, 1, k) \o <<t>> \o SubSeq(list, k + 1, Len(list))

\* A push to the registry puts one tag between two parts of the list.
LEMMA OneIsInserted ==
  ASSUME NEW list \in Seq(TagNames), NEW t \in TagNames, NEW k \in 0 .. Len(list)
  PROVE  /\ Inserted(list, t, k) \in Seq(TagNames)
         /\ Len(Inserted(list, t, k)) = Len(list) + 1
         /\ Inserted(list, t, k)[k + 1] = t
         /\ \A i \in 1 .. k : Inserted(list, t, k)[i] = list[i]
         /\ \A i \in k + 1 .. Len(list) : Inserted(list, t, k)[i + 1] = list[i]
<1>. DEFINE front == SubSeq(list, 1, k)  back == SubSeq(list, k + 1, Len(list))
            longer == Inserted(list, t, k)
<1>1. Len(list) \in Nat /\ k \in Nat /\ k <= Len(list)
  OBVIOUS
<1>2. front \in Seq(TagNames) /\ Len(front) = k /\ \A i \in 1 .. k : front[i] = list[i]
  BY <1>1
<1>3. /\ back \in Seq(TagNames) /\ Len(back) = Len(list) - k
      /\ \A i \in 1 .. Len(list) - k : back[i] = list[k + i]
  BY <1>1
<1>. HIDE DEF front, back, longer
<1>4. /\ front \o <<t>> \in Seq(TagNames) /\ Len(front \o <<t>>) = k + 1
      /\ (front \o <<t>>)[k + 1] = t
      /\ \A i \in 1 .. k : (front \o <<t>>)[i] = front[i]
  BY <1>1, <1>2
<1>. DEFINE upto == front \o <<t>>
<1>5. longer = upto \o back
  BY DEF front, back, longer, Inserted
<1>. HIDE DEF upto
<1>6. upto \in Seq(TagNames) /\ Len(upto) = k + 1 /\ upto[k + 1] = t
  BY <1>4 DEF upto
<1>7. \A i \in 1 .. k : upto[i] = list[i]
  BY <1>2, <1>4 DEF upto
<1>8. /\ longer \in Seq(TagNames) /\ Len(longer) = Len(list) + 1
      /\ \A i \in 1 .. Len(list) + 1 :
           longer[i] = IF i <= k + 1 THEN upto[i] ELSE back[i - (k + 1)]
  <2>1. /\ longer \in Seq(TagNames) /\ Len(longer) = Len(upto) + Len(back)
        /\ \A i \in 1 .. Len(upto) + Len(back) :
             longer[i] = IF i <= Len(upto) THEN upto[i] ELSE back[i - Len(upto)]
    <3>1. upto \in Seq(TagNames) /\ back \in Seq(TagNames) /\ longer = upto \o back
      BY <1>3, <1>5, <1>6
    <3>. QED
      BY ONLY <3>1, Joined
  <2>2. Len(upto) + Len(back) = Len(list) + 1
    BY <1>1, <1>3, <1>6
  <2>. QED
    BY <1>6, <2>1, <2>2
<1>9. \A i \in 1 .. k + 1 : longer[i] = upto[i]
  <2>1. \A i \in 1 .. k + 1 : i \in 1 .. Len(list) + 1 /\ i <= k + 1
    BY <1>1
  <2>. QED
    BY ONLY <1>8, <2>1
<1>10. \A i \in k + 1 .. Len(list) : longer[i + 1] = list[i]
  <2>1. TAKE i \in k + 1 .. Len(list)
  <2>2. /\ i - k \in 1 .. Len(list) - k /\ (i + 1) - (k + 1) = i - k
        /\ k + (i - k) = i /\ i + 1 \in 1 .. Len(list) + 1 /\ ~ (i + 1 <= k + 1)
    BY <1>1
  <2>3. longer[i + 1] = back[i - k]
    BY <1>8, <2>2
  <2>. QED
    BY <1>3, <2>2, <2>3
<1>11. longer[k + 1] = t /\ \A i \in 1 .. k : longer[i] = list[i]
  <2>1. k + 1 \in 1 .. k + 1 /\ \A i \in 1 .. k : i \in 1 .. k + 1
    BY <1>1
  <2>. QED
    BY ONLY <1>6, <1>7, <1>9, <2>1
<1>. QED
  BY <1>8, <1>10, <1>11 DEF longer

LEMMA NextKeepsPolicy == PolicyInv /\ [PolicyNext]_policyVars => PolicyInv'
<1>. SUFFICES ASSUME PolicyInv, [PolicyNext]_policyVars PROVE PolicyInv'
  OBVIOUS
<1>1. CASE PublishTag
  <2>1. PICK t \in TagNames \ Range(tags), k \in 0 .. Len(tags) :
          tags' = SubSeq(tags, 1, k) \o <<t>> \o SubSeq(tags, k + 1, Len(tags))
    BY <1>1 DEF PublishTag
  <2>2. tags \in Seq(TagNames) /\ \A i, j \in DOMAIN tags : tags[i] = tags[j] => i = j
    BY DEF PolicyInv
  <2>3. /\ tags' \in Seq(TagNames) /\ Len(tags') = Len(tags) + 1 /\ tags'[k + 1] = t
        /\ \A i \in 1 .. k : tags'[i] = tags[i]
        /\ \A i \in k + 1 .. Len(tags) : tags'[i + 1] = tags[i]
    <3>1. t \in TagNames /\ k \in 0 .. Len(tags) /\ tags \in Seq(TagNames)
      BY <2>1, <2>2
    <3>2. tags' = Inserted(tags, t, k)
      BY <2>1 DEF Inserted
    <3>3. /\ Inserted(tags, t, k) \in Seq(TagNames)
          /\ Len(Inserted(tags, t, k)) = Len(tags) + 1
          /\ Inserted(tags, t, k)[k + 1] = t
          /\ \A i \in 1 .. k : Inserted(tags, t, k)[i] = tags[i]
          /\ \A i \in k + 1 .. Len(tags) : Inserted(tags, t, k)[i + 1] = tags[i]
      BY ONLY <3>1, OneIsInserted
    <3>. QED
      BY ONLY <3>2, <3>3
  <2>4. \A i \in DOMAIN tags : tags[i] # t
    BY <2>1 DEF Range
  <2>5. \A i, j \in DOMAIN tags' : tags'[i] = tags'[j] => i = j
    <3>1. Len(tags) \in Nat /\ k \in Nat /\ k <= Len(tags)
      BY <2>1, <2>2
    <3>. DEFINE Old(i) == IF i <= k THEN i ELSE i - 1
    <3>2. \A i \in 1 .. Len(tags) + 1 : i # k + 1 =>
            Old(i) \in 1 .. Len(tags) /\ tags'[i] = tags[Old(i)]
      <4>1. TAKE i \in 1 .. Len(tags) + 1
      <4>2. HAVE i # k + 1
      <4>3. CASE i <= k
        BY <2>3, <3>1, <4>3
      <4>4. CASE k + 1 < i
        <5>1. i - 1 \in k + 1 .. Len(tags) /\ (i - 1) + 1 = i /\ ~ (i <= k)
          BY <3>1, <4>4
        <5>2. tags'[(i - 1) + 1] = tags[i - 1]
          BY <2>3, <5>1
        <5>. QED
          BY <3>1, <5>1, <5>2
      <4>. QED
        BY <3>1, <4>2, <4>3, <4>4
    <3>3. \A i, j \in 1 .. Len(tags) + 1 :
            i # k + 1 /\ j # k + 1 /\ Old(i) = Old(j) => i = j
      BY <3>1
    <3>. HIDE DEF Old
    <3>4. DOMAIN tags' = 1 .. Len(tags) + 1 /\ DOMAIN tags = 1 .. Len(tags)
      BY <2>2, <2>3
    <3>. QED
      BY <2>2, <2>3, <2>4, <3>2, <3>3, <3>4
  <2>. QED
    BY <1>1, <2>3, <2>5 DEF PublishTag, PolicyInv
<1>2. CASE UNCHANGED policyVars
  BY <1>2 DEF PolicyInv, policyVars
<1>. QED
  BY <1>1, <1>2 DEF PolicyNext, Full

\* The answer is always SelectTagByImagePolicy's for a list without repetition.
THEOREM PolicyHolds == PolicySpec => []PolicyInv
<1>. QED
  BY PolicyStarts, NextKeepsPolicy, PTL DEF PolicySpec

-----------------------------------------------------------------------------
LEMMA InvSelectsTheBest == PolicyInv => SelectsTheBest
<1>. SUFFICES ASSUME PolicyInv, selected # Invalid, ~Misled(policy, tags)
              PROVE  IF Eligible = {} THEN selected = Empty ELSE selected \in Best
  BY DEF SelectsTheBest
<1>1. policy \in Policies /\ tags \in Seq(TagNames) /\ selected = SelectTag(policy, tags)
  BY DEF PolicyInv
<1>. DEFINE part == TakesPart(policy, tags)
<1>2. Eligible = {tags[k] : k \in part}
  <2>1. Offered = IF policy.kind = "nil" THEN {tags[k] : k \in DOMAIN tags}
                  ELSE {tags[k] : k \in TagValues(policy, tags)}
    BY DEF Offered, Range
  <2>2. CASE policy.kind = "semver"
    BY <2>1, <2>2 DEF Eligible, TakesPart, Versions
  <2>3. CASE policy.kind = "numerical"
    BY <2>1, <2>3 DEF Eligible, TakesPart
  <2>4. CASE policy.kind = "nil"
    BY <2>1, <2>4 DEF Eligible, TakesPart, Releases
  <2>5. CASE policy.kind \in {"alphabetical", "unset"}
    BY <2>1, <2>5 DEF Eligible, TakesPart
  <2>. QED
    BY <1>1, <2>2, <2>3, <2>4, <2>5, PolicyFacts DEF PolicyKinds
<1>3. Refused(policy, tags) => SelectTag(policy, tags) = Invalid
  BY <1>1, SelectionIs
<1>4. CASE part = {}
  <2>1. Eligible = {}
    BY <1>2, <1>4
  <2>. QED
    BY <1>1, <1>3, <1>4, <2>1, AnswerIs
<1>5. CASE part # {}
  <2>1. PICK k \in part : /\ IsFirstHighest(k, Scores(policy, tags))
                          /\ SelectTag(policy, tags) = tags[k]
    BY <1>1, <1>3, <1>5, AnswerIs
  <2>2. \A j \in part : Score(policy, tags[j]) <= Score(policy, tags[k])
    BY <2>1 DEF IsFirstHighest, Scores
  <2>3. \A j \in part :
          IF policy.order = "asc" /\ policy.kind \in {"numerical", "alphabetical"}
          THEN Measure(tags[k]) <= Measure(tags[j]) ELSE Measure(tags[j]) <= Measure(tags[k])
    <3>1. TAKE j \in part
    <3>2. CASE policy.kind \notin {"numerical", "alphabetical"}
      BY <2>2, <3>2 DEF Score, Measure
    <3>3. CASE policy.kind \in {"numerical", "alphabetical"}
      <4>1. part \subseteq TagValues(policy, tags)
        BY <3>3 DEF TakesPart
      <4>2. Value(policy, tags[j]) \in Texts /\ Value(policy, tags[k]) \in Texts
        BY <1>1, <4>1, ValuesAreTexts
      <4>3. Measure(tags[j]) \in Int /\ Measure(tags[k]) \in Int
        BY <3>3, <4>2 DEF Measure, Texts, NaN
      <4>4. \A i \in {j, k} : Score(policy, tags[i]) = Ordered(policy, Measure(tags[i]))
        BY <3>3 DEF Score, Measure
      <4>. QED
        BY <2>2, <3>3, <4>3, <4>4 DEF Ordered
    <3>. QED
      BY <3>2, <3>3
  <2>4. tags[k] \in Best /\ Eligible # {}
    BY <1>2, <2>3 DEF Best
  <2>. QED
    BY <1>1, <2>1, <2>4
<1>. QED
  BY <1>4, <1>5

\* Whatever the policy, and in whatever order the registry lists its tags, the answer
\* is one of the best of the eligible tags, or "" when there are none.
THEOREM BestIsSelected == PolicySpec => []SelectsTheBest
<1>. QED
  BY PolicyHolds, InvSelectsTheBest, PTL

-----------------------------------------------------------------------------
\* Where the insertion at k moves the i-th tag.
Moved(k, i) == IF i <= k THEN i ELSE i + 1

LEMMA MovedFacts ==
  ASSUME NEW list \in Seq(TagNames), NEW t \in TagNames, NEW k \in 0 .. Len(list),
         NEW longer, longer = Inserted(list, t, k)
  PROVE  /\ \A i \in DOMAIN list :
              /\ Moved(k, i) \in DOMAIN longer \ {k + 1}
              /\ longer[Moved(k, i)] = list[i]
         /\ \A i, j \in DOMAIN list : j < i => Moved(k, j) < Moved(k, i)
         /\ \A l \in DOMAIN longer \ {k + 1} : \E i \in DOMAIN list : l = Moved(k, i)
         /\ k + 1 \in DOMAIN longer /\ longer[k + 1] = t
<1>1. /\ longer \in Seq(TagNames) /\ Len(longer) = Len(list) + 1 /\ longer[k + 1] = t
      /\ \A i \in 1 .. k : longer[i] = list[i]
      /\ \A i \in k + 1 .. Len(list) : longer[i + 1] = list[i]
  BY OneIsInserted
<1>2. /\ Len(list) \in Nat /\ k \in Nat /\ k <= Len(list)
      /\ DOMAIN list = 1 .. Len(list) /\ DOMAIN longer = 1 .. Len(list) + 1
  BY <1>1
<1>3. \A i \in DOMAIN list : Moved(k, i) \in DOMAIN longer \ {k + 1}
  BY <1>2 DEF Moved
<1>4. \A i \in DOMAIN list : longer[Moved(k, i)] = list[i]
  <2>1. TAKE i \in DOMAIN list
  <2>2. i \in 1 .. k \/ i \in k + 1 .. Len(list)
    BY <1>2
  <2>3. i \in 1 .. k => i <= k
    BY <1>2
  <2>4. i \in k + 1 .. Len(list) => ~ (i <= k)
    BY <1>2
  <2>. QED
    BY <1>1, <2>2, <2>3, <2>4 DEF Moved
<1>5. \A i, j \in DOMAIN list : j < i => Moved(k, j) < Moved(k, i)
  BY <1>2 DEF Moved
<1>6. \A l \in DOMAIN longer \ {k + 1} : \E i \in DOMAIN list : l = Moved(k, i)
  <2>1. TAKE l \in DOMAIN longer \ {k + 1}
  <2>2. CASE l <= k
    <3>1. l \in DOMAIN list /\ l = Moved(k, l)
      BY <1>2, <2>2 DEF Moved
    <3>. QED
      BY <3>1
  <2>3. CASE ~ (l <= k)
    <3>1. l - 1 \in DOMAIN list /\ l = Moved(k, l - 1)
      BY <1>2, <2>3 DEF Moved
    <3>. QED
      BY <3>1
  <2>. QED
    BY <2>2, <2>3
<1>7. k + 1 \in DOMAIN longer
  BY <1>2
<1>. QED
  BY <1>1, <1>3, <1>4, <1>5, <1>6, <1>7

\* The others take part as before, unless the new tag is the first release there is.
LEMMA OthersTakePart ==
  ASSUME NEW p \in Policies, NEW list \in Seq(TagNames), NEW t \in TagNames,
         NEW k \in 0 .. Len(list), NEW longer, longer = Inserted(list, t, k)
  PROVE  /\ Refused(p, list) => Refused(p, longer)
         /\ \/ TakesPart(p, longer) = {k + 1}
            \/ \A i \in DOMAIN list :
                 i \in TakesPart(p, list) <=> Moved(k, i) \in TakesPart(p, longer)
<1>1. \A i \in DOMAIN list : /\ Moved(k, i) \in DOMAIN longer
                             /\ longer[Moved(k, i)] = list[i]
  BY MovedFacts
<1>2. \A i \in DOMAIN list : i \in TagValues(p, list) <=> Moved(k, i) \in TagValues(p, longer)
  BY <1>1 DEF TagValues, Filtered
<1>3. \A i \in DOMAIN list : i \in Versions(p, list) <=> Moved(k, i) \in Versions(p, longer)
  BY <1>1, <1>2 DEF Versions
<1>4. Versions(p, list) \subseteq DOMAIN list
  BY ValuesAreTexts DEF Versions
<1>5. Versions(p, list) # {} => Versions(p, longer) # {}
  BY <1>3, <1>4
<1>6. longer # <<>>
  <2>1. k + 1 \in DOMAIN longer /\ longer \in Seq(TagNames)
    BY MovedFacts, OneIsInserted
  <2>. QED
    BY <2>1
<1>7. Refused(p, list) => Refused(p, longer)
  BY <1>5, <1>6 DEF Refused
<1>8. CASE p.kind = "nil"
  <2>1. \A i \in DOMAIN list : i \in Releases(list) <=> Moved(k, i) \in Releases(longer)
    BY <1>1 DEF Releases
  <2>2. /\ Releases(list) \subseteq DOMAIN list /\ Releases(longer) \subseteq DOMAIN longer
        /\ \A l \in DOMAIN longer \ {k + 1} : \E i \in DOMAIN list : l = Moved(k, i)
    BY MovedFacts DEF Releases
  <2>3. CASE Releases(list) = {} /\ Releases(longer) # {}
    <3>1. Releases(longer) = {k + 1}
      BY <2>1, <2>2, <2>3
    <3>. QED
      BY <1>7, <1>8, <2>3, <3>1 DEF TakesPart
  <2>4. CASE Releases(list) # {}
    <3>1. Releases(longer) # {}
      BY <2>1, <2>2, <2>4
    <3>. QED
      BY <1>7, <1>8, <2>1, <2>4, <3>1 DEF TakesPart
  <2>5. CASE Releases(list) = {} /\ Releases(longer) = {}
    BY <1>1, <1>7, <1>8, <2>5 DEF TakesPart
  <2>. QED
    BY <2>3, <2>4, <2>5
<1>9. CASE p.kind = "semver"
  BY <1>1, <1>3, <1>7, <1>9 DEF TakesPart
<1>10. CASE p.kind = "numerical"
  BY <1>1, <1>2, <1>7, <1>10 DEF TakesPart
<1>11. CASE p.kind \in {"alphabetical", "unset"}
  BY <1>2, <1>7, <1>11 DEF TakesPart
<1>. QED
  BY <1>8, <1>9, <1>10, <1>11, PolicyFacts DEF PolicyKinds

\* If it is another that is the first with the highest score, it was so before.
LEMMA FirstBefore ==
  ASSUME NEW p \in Policies, NEW list \in Seq(TagNames), NEW t \in TagNames,
         NEW k \in 0 .. Len(list), NEW longer, longer = Inserted(list, t, k),
         \A i \in DOMAIN list :
           i \in TakesPart(p, list) <=> Moved(k, i) \in TakesPart(p, longer),
         NEW i \in DOMAIN list, IsFirstHighest(Moved(k, i), Scores(p, longer))
  PROVE  IsFirstHighest(i, Scores(p, list))
<1>1. /\ DOMAIN Scores(p, list) = TakesPart(p, list)
      /\ DOMAIN Scores(p, longer) = TakesPart(p, longer)
      /\ TakesPart(p, list) \subseteq DOMAIN list
  BY ScoresAreNumbers DEF Scores
<1>2. \A j \in TakesPart(p, list) : /\ Moved(k, j) \in TakesPart(p, longer)
                                    /\ longer[Moved(k, j)] = list[j]
  BY <1>1, MovedFacts
<1>3. \A j \in TakesPart(p, list) : Scores(p, longer)[Moved(k, j)] = Scores(p, list)[j]
  BY <1>2 DEF Scores
<1>4. i \in TakesPart(p, list)
  BY <1>1 DEF IsFirstHighest
<1>5. \A j \in TakesPart(p, list) : j < i => Moved(k, j) < Moved(k, i)
  BY <1>1, MovedFacts
<1>6. \A j \in TakesPart(p, list) :
        /\ Scores(p, longer)[Moved(k, j)] <= Scores(p, longer)[Moved(k, i)]
        /\ j < i => Scores(p, longer)[Moved(k, j)] < Scores(p, longer)[Moved(k, i)]
  BY <1>1, <1>2, <1>5 DEF IsFirstHighest
<1>. QED
  BY <1>1, <1>3, <1>4, <1>6 DEF IsFirstHighest

LEMMA NewTagOrSameTag ==
  ASSUME NEW p \in Policies, NEW list \in Seq(TagNames), NEW t \in TagNames,
         NEW k \in 0 .. Len(list), NEW longer, longer = Inserted(list, t, k),
         ~Misled(p, list), ~Misled(p, longer)
  PROVE  SelectTag(p, longer) \in {SelectTag(p, list), t, Invalid}
<1>1. longer \in Seq(TagNames)
  BY OneIsInserted
<1>2. CASE Refused(p, longer)
  BY <1>1, <1>2, SelectionIs
<1>3. CASE ~Refused(p, longer) /\ TakesPart(p, longer) = {}
  <2>1. SelectTag(p, longer) = Empty
    BY <1>1, <1>3, AnswerIs
  <2>2. ~Refused(p, list) /\ TakesPart(p, list) = {}
    <3>1. /\ ~Refused(p, list)
          /\ \A i \in DOMAIN list :
               i \in TakesPart(p, list) <=> Moved(k, i) \in TakesPart(p, longer)
      <4>1. TakesPart(p, longer) # {k + 1}
        BY <1>3
      <4>. QED
        BY ONLY <1>3, <4>1, OthersTakePart, list \in Seq(TagNames), p \in Policies,
                t \in TagNames, k \in 0 .. Len(list), longer = Inserted(list, t, k)
    <3>2. TakesPart(p, list) \subseteq DOMAIN list
      BY ScoresAreNumbers
    <3>. QED
      BY <1>3, <3>1, <3>2
  <2>3. SelectTag(p, list) = Empty
    BY <2>2, AnswerIs
  <2>. QED
    BY <2>1, <2>3
<1>4. CASE ~Refused(p, longer) /\ TakesPart(p, longer) # {}
  <2>1. PICK l \in TakesPart(p, longer) : /\ IsFirstHighest(l, Scores(p, longer))
                                          /\ SelectTag(p, longer) = longer[l]
    BY <1>1, <1>4, AnswerIs
  <2>2. CASE l = k + 1
    BY <2>1, <2>2, MovedFacts
  <2>3. CASE l # k + 1
    <3>1. \A i \in DOMAIN list :
            i \in TakesPart(p, list) <=> Moved(k, i) \in TakesPart(p, longer)
      BY <2>1, <2>3, OthersTakePart
    <3>2. l \in DOMAIN longer \ {k + 1}
      BY <1>1, <2>1, <2>3, ScoresAreNumbers
    <3>3. PICK i \in DOMAIN list : l = Moved(k, i)
      BY <3>2, MovedFacts
    <3>4. IsFirstHighest(i, Scores(p, list)) /\ i \in TakesPart(p, list)
      BY <2>1, <3>1, <3>3, FirstBefore
    <3>5. ~Refused(p, list)
      BY <1>4, OthersTakePart
    <3>6. SelectTag(p, list) = list[i]
      <4>1. SelectTag(p, list) = FirstHighest(list, Scores(p, list))
        BY <3>5, SelectionIs
      <4>2. /\ Len(list) \in Nat /\ TakesPart(p, list) \in SUBSET (1 .. Len(list))
            /\ Scores(p, list) \in [TakesPart(p, list) -> Int]
        BY ScoresAreNumbers
      <4>. QED
        BY <3>4, <4>1, <4>2, LoopFindsIt
    <3>7. longer[l] = list[i]
      BY <3>3, MovedFacts
    <3>. QED
      BY <2>1, <3>6, <3>7
  <2>. QED
    BY <2>2, <2>3
<1>. QED
  BY <1>2, <1>3, <1>4

\* A push to the registry changes the answer to the tag that was pushed, or not at
\* all: whatever the policy, wherever the registry puts it in its list.
THEOREM NoThirdTag == PolicySpec => NewTagOrSame
<1>. DEFINE Step == ~Misled(policy, tags) /\ ~Misled(policy, tags') =>
                      selected' \in {selected} \union (Range(tags') \ Range(tags))
                                      \union {Invalid}
<1>1. ASSUME PolicyInv, PolicyInv', [PolicyNext]_policyVars PROVE [Step]_policyVars
  <2>1. SUFFICES ASSUME PublishTag, ~Misled(policy, tags),
                        ~Misled(policy, tags')
                 PROVE  selected' \in {selected} \union (Range(tags') \ Range(tags))
                                        \union {Invalid}
    BY <1>1 DEF PolicyNext, Full
  <2>2. PICK t \in TagNames \ Range(tags), k \in 0 .. Len(tags) :
          tags' = SubSeq(tags, 1, k) \o <<t>> \o SubSeq(tags, k + 1, Len(tags))
    BY <2>1 DEF PublishTag
  <2>3. tags' = Inserted(tags, t, k)
    BY <2>2 DEF Inserted
  <2>4. policy \in Policies /\ tags \in Seq(TagNames) /\ t \in TagNames /\ k \in 0 .. Len(tags)
    BY <1>1, <2>2 DEF PolicyInv
  <2>5. SelectTag(policy, tags') \in {SelectTag(policy, tags), t, Invalid}
    BY <2>1, <2>3, <2>4, NewTagOrSameTag
  <2>6. selected' = SelectTag(policy, tags') /\ selected = SelectTag(policy, tags)
    BY <1>1, <2>1 DEF PublishTag, PolicyInv
  <2>7. t \in Range(tags') \ Range(tags)
    <3>1. k + 1 \in DOMAIN (tags') /\ (tags')[k + 1] = t
      BY <2>3, <2>4, MovedFacts
    <3>. QED
      BY <2>2, <3>1 DEF Range
  <2>. QED
    BY <2>5, <2>6, <2>7
<1>. QED
  BY <1>1, PolicyHolds, PTL DEF PolicySpec, NewTagOrSame
================================================================================
