------------------------------ MODULE BackupsProofs ------------------------------
(***************************************************************************)
(* Proofs about the backups, the deployment monitor beside them and the     *)
(* walks of the command line: theorems of WalkSpec, for every set of        *)
(* services, clock, history length and choice of faults.                    *)
(*                                                                         *)
(* The files of the directory carry no other mark of their owner than their *)
(* names: what is said of a rollback holds when the names of the services   *)
(* can be told apart, and says so; the rest holds for all names.            *)
(***************************************************************************)
EXTENDS RollingUpdate, FiniteSetTheorems, TLAPS
LOCAL INSTANCE SequencesExt

Of(s, B) == {f \in B : f.service = s}

OnePerSecond(B) == \A f, g \in B : f.service = g.service /\ f.at = g.at => f = g

\* f is the most recent file of E.
IsLatest(f, E) == f \in E /\ \A g \in E : g.at <= f.at

\* The latest file of s, if there is any file of s, is the image images knows.
LatestOf(s, B, images) ==
  Of(s, B) = {} \/ \E f \in Of(s, B) : IsLatest(f, Of(s, B)) /\ f.image \in images

LatestIsPrepared ==
  ~torn => \A s \in Services : LatestOf(s, backups, prepared[s])

\* A directory at some time.
Sound(B, time) ==
  /\ B \subseteq Files /\ IsFiniteSet(B)
  /\ \A f \in B : f.at <= time
  /\ OnePerSecond(B)

DirInv == TypeOK /\ Sound(backups, now)

SizeInv == \A s \in Services : Cardinality(Of(s, backups)) <= MaxHistory + faults

RollbackInv == LatestIsPrepared /\ RollbackRestoresPrepared /\ RollbackCanBeRepeated

\* The service a walk has in hand.
AtService == walk.step \in {"prepare", "execute", "rollback"} => walk.at \in Services

\* Where a walk is: what it found is still there, and what it will roll back to
\* is what is there.
WalkInv ==
  /\ walk.step \in {"execute", "rollback"} => prepared[walk.at] = {compose}
  /\ Between => before = {}
  /\ walk.step # "off" /\ ~torn /\ compose.whole => running = compose.version
  /\ WalkLeavesFile

-----------------------------------------------------------------------------
(***************************************************************************)
(* The names                                                               *)
(***************************************************************************)
\* A name is not empty, and the first of its parts is the first of a file's.
LEMMA NameFacts ==
  ASSUME names \in Namings, NEW s \in Services
  PROVE  /\ names[s] \in Seq(STRING) /\ Len(names[s]) \in Nat \ {0}
         /\ \A f : f.service = s =>
              /\ FileName(f) = names[s] \o <<"latest", "date", "time">>
              /\ Len(FileName(f)) \in Nat \ {0} /\ FileName(f)[1] = names[s][1]
              /\ IsPrefix(names[s], FileName(f))
              /\ IsPrefix(<<FileName(f)[1]>>, FileName(f))
  <1>1. names[s] \in Seq(STRING) /\ names[s] # <<>>
    BY NamingsAssumption
  <1>2. Len(names[s]) \in Nat \ {0}
    BY <1>1
  <1> SUFFICES ASSUME NEW f, f.service = s
               PROVE  /\ FileName(f) = names[s] \o <<"latest", "date", "time">>
                      /\ Len(FileName(f)) \in Nat \ {0} /\ FileName(f)[1] = names[s][1]
                      /\ IsPrefix(names[s], FileName(f))
                      /\ IsPrefix(<<FileName(f)[1]>>, FileName(f))
    BY <1>1, <1>2
  <1>3. FileName(f) = names[s] \o <<"latest", "date", "time">>
    BY DEF FileName
  <1>4. Len(FileName(f)) \in Nat \ {0} /\ FileName(f)[1] = names[s][1]
    BY <1>1, <1>2, <1>3
  <1>5. IsPrefix(names[s], FileName(f))
    BY <1>1, <1>3 DEF IsPrefix
  <1>6. IsPrefix(<<FileName(f)[1]>>, FileName(f))
    BY <1>4 DEF IsPrefix
  <1> QED BY <1>3, <1>4, <1>5, <1>6

\* The files found for a service are its own and those mistaken for its own.
LEMMA EntriesFacts ==
  ASSUME names \in Namings, NEW B \in SUBSET Files, NEW s \in Services
  PROVE  /\ Of(s, B) \subseteq Entries(names[s], B)
         /\ Entries(names[s], B) \in SUBSET B
         /\ \A f \in Entries(names[s], B) : f.service = s \/ Mistaken(s, f.service)
  <1>1. ASSUME NEW f \in B, f.service = s PROVE IsPrefix(names[s], FileName(f))
    BY <1>1, NameFacts
  <1>2. ASSUME NEW f \in B, IsPrefix(names[s], FileName(f)), f.service # s
        PROVE  Mistaken(s, f.service)
    BY <1>2 DEF Mistaken, FileName
  <1> QED BY <1>1, <1>2 DEF Entries, Of

LEMMA EntriesAreOwn ==
  ASSUME names \in Namings, Separate, NEW B \in SUBSET Files, NEW s \in Services
  PROVE  Entries(names[s], B) = Of(s, B)
  <1>1. ASSUME NEW f \in Entries(names[s], B) PROVE f \in Of(s, B)
    <2>1. f \in B /\ f.service \in Services
      BY DEF Entries, Files
    <2>2. f.service = s
      BY <2>1, EntriesFacts DEF Separate
    <2> QED BY <2>1, <2>2 DEF Of
  <1> QED BY <1>1, EntriesFacts

\* Files of one service have one image tag.
LEMMA OneTag ==
  ASSUME NEW f \in Files, NEW g \in Files, f.service = g.service
  PROVE  ImageTag(f) = ImageTag(g)
  BY DEF ImageTag, FileName

\* The files of a service under a first part are all of them, and no others when
\* the first parts differ.
LEMMA FirstPartEntries ==
  ASSUME names \in Namings, NEW B \in SUBSET Files, NEW n \in B
  PROVE  /\ <<FileName(n)[1]>> \in {<<FileName(f)[1]>> : f \in B}
         /\ Of(n.service, B) \subseteq Entries(<<FileName(n)[1]>>, B)
         /\ (\A s, t \in Services : s # t => names[s][1] # names[t][1]) =>
              Entries(<<FileName(n)[1]>>, B) = Of(n.service, B)
  <1> DEFINE name == <<FileName(n)[1]>>
  <1>1. \A f \in B : f.service \in Services
    BY DEF Files
  <1>2. \A f \in B : Len(FileName(f)) \in Nat \ {0} /\ FileName(f)[1] = names[f.service][1]
    BY <1>1, NameFacts
  <1>3. ASSUME NEW f \in B, f.service = n.service PROVE IsPrefix(name, FileName(f))
    <2>1. FileName(f)[1] = FileName(n)[1]
      BY <1>2, <1>3
    <2>2. IsPrefix(<<FileName(f)[1]>>, FileName(f))
      BY <1>1, NameFacts
    <2> QED BY <2>1, <2>2
  <1>4. ASSUME NEW f \in B, IsPrefix(name, FileName(f))
        PROVE  FileName(f)[1] = FileName(n)[1]
    <2>1. Len(name) = 1 /\ SubSeq(name, 1, 1)[1] = FileName(n)[1]
      OBVIOUS
    <2>2. SubSeq(FileName(f), 1, 1)[1] = FileName(f)[1]
      BY <1>2
    <2> QED BY <2>1, <2>2, <1>4 DEF IsPrefix
  <1>5. Of(n.service, B) \subseteq Entries(name, B)
    BY <1>3 DEF Of, Entries
  <1>6. ASSUME \A s, t \in Services : s # t => names[s][1] # names[t][1]
        PROVE  Entries(name, B) \subseteq Of(n.service, B)
    <2> SUFFICES ASSUME NEW f \in B, IsPrefix(name, FileName(f))
                 PROVE  f.service = n.service
      BY DEF Entries, Of
    <2>1. names[f.service][1] = names[n.service][1]
      BY <1>2, <1>4
    <2> QED BY <2>1, <1>1, <1>6
  <1> QED BY <1>5, <1>6

-----------------------------------------------------------------------------
(***************************************************************************)
(* Order and pruning                                                       *)
(***************************************************************************)
\* Among the files of one service, the timestamps have the order of the times.
LEMMA TimestampOrder ==
  ASSUME NEW f \in Files, NEW g \in Files, f.service = g.service
  PROVE  /\ Timestamp(f) <= Timestamp(g) <=> f.at <= g.at
         /\ Timestamp(f) \in Int
  <1>1. f.at \in Int /\ g.at \in Int /\ Offset \in Int
    BY NumbersAssumption DEF Files
  <1> QED BY <1>1 DEF Timestamp

LEMMA NewestIsLatest ==
  ASSUME NEW B \in SUBSET Files, NEW s \in Services, NEW f
  PROVE  f \in Newest(Of(s, B)) <=> IsLatest(f, Of(s, B))
  <1>1. \A g \in Of(s, B) : g \in Files /\ g.service = s
    BY DEF Of
  <1>2. \A e, g \in Of(s, B) : Timestamp(e) <= Timestamp(g) <=> e.at <= g.at
    BY <1>1, TimestampOrder
  <1> QED BY <1>2 DEF Newest, IsLatest

\* There is one latest file.
LEMMA LatestIsUnique ==
  ASSUME NEW B \in SUBSET Files, OnePerSecond(B), NEW s \in Services, NEW f, NEW g,
         IsLatest(f, Of(s, B)), IsLatest(g, Of(s, B))
  PROVE  f = g
  <1>1. f \in B /\ g \in B /\ f.service = s /\ g.service = s
    BY DEF IsLatest, Of
  <1>2. f.at \in Int /\ g.at \in Int
    BY <1>1, NumbersAssumption DEF Files
  <1>3. f.at <= g.at /\ g.at <= f.at
    BY DEF IsLatest
  <1> QED BY <1>1, <1>2, <1>3 DEF OnePerSecond

\* What may be pruned is a part of E, and leaves MaxHistory of it at most.
LEMMA ExcessFacts ==
  ASSUME NEW E, IsFiniteSet(E), NEW X \in Excess(E)
  PROVE  /\ X \subseteq E /\ IsFiniteSet(X)
         /\ Cardinality(E) <= MaxHistory => X = {}
         /\ Cardinality(E) > MaxHistory => Cardinality(X) = Cardinality(E) - MaxHistory
         /\ \A x \in X, e \in E \ X : Timestamp(x) <= Timestamp(e)
  <1>1. Cardinality(E) \in Nat /\ MaxHistory \in Nat
    BY FS_CardinalityType, NumbersAssumption
  <1>2. CASE Cardinality(E) <= Kept
    <2>1. X = {}
      BY <1>2 DEF Excess
    <2> QED BY <2>1, <1>1, <1>2, FS_EmptySet DEF Kept
  <1>3. CASE ~(Cardinality(E) <= Kept)
    <2>1. /\ X \subseteq E /\ Cardinality(X) = Cardinality(E) - MaxHistory
          /\ \A x \in X, e \in E \ X : Timestamp(x) <= Timestamp(e)
      BY <1>3 DEF Excess, kSubset, Kept
    <2>2. IsFiniteSet(X)
      BY <2>1, FS_Subset
    <2> QED BY <2>1, <2>2, <1>1, <1>3 DEF Kept
  <1> QED BY <1>2, <1>3

\* The most recent file of a service is pruned only with all the files of it.
LEMMA PruningGoesUp ==
  ASSUME NEW B \in SUBSET Files, IsFiniteSet(B), OnePerSecond(B), NEW s \in Services,
         NEW n, IsLatest(n, Of(s, B)),
         NEW E \in SUBSET B, Of(s, B) \subseteq E, NEW X \in Excess(E), n \in X
  PROVE  Of(s, B) \subseteq X
  <1> SUFFICES ASSUME NEW g \in Of(s, B), g \notin X PROVE FALSE
    OBVIOUS
  <1>1. n \in Of(s, B) /\ g.at <= n.at
    BY DEF IsLatest
  <1>2. n \in Files /\ g \in Files /\ n.service = s /\ g.service = s /\ n \in B /\ g \in B
    BY <1>1 DEF Of
  <1>3. IsFiniteSet(E)
    BY FS_Subset
  <1>4. Timestamp(n) <= Timestamp(g)
    BY <1>3, ExcessFacts
  <1>5. n.at <= g.at
    BY <1>2, <1>4, TimestampOrder
  <1>6. n.at = g.at
    BY <1>1, <1>2, <1>5, NumbersAssumption DEF Files
  <1> QED BY <1>2, <1>6 DEF OnePerSecond

\* And never when all that is pruned is of its service.
LEMMA LatestIsKept ==
  ASSUME NEW B \in SUBSET Files, IsFiniteSet(B), OnePerSecond(B), NEW s \in Services,
         NEW n, IsLatest(n, Of(s, B)), NEW X \in Excess(Of(s, B))
  PROVE  n \notin X
  <1> SUFFICES ASSUME n \in X PROVE FALSE
    OBVIOUS
  <1>1. IsFiniteSet(Of(s, B))
    BY FS_Subset DEF Of
  <1>2. X = Of(s, B)
    <2>1. Of(s, B) \in SUBSET B
      BY DEF Of
    <2>2. Of(s, B) \subseteq X
      BY <2>1, PruningGoesUp
    <2>3. X \subseteq Of(s, B)
      BY <1>1, ExcessFacts
    <2> QED BY <2>2, <2>3
  <1>3. Cardinality(Of(s, B)) \in Nat /\ MaxHistory \in Nat \ {0}
    BY <1>1, FS_CardinalityType, NumbersAssumption
  <1>4. Cardinality(X) = Cardinality(Of(s, B)) - MaxHistory
    BY <1>1, <1>3, ExcessFacts
  <1> QED BY <1>2, <1>3, <1>4

-----------------------------------------------------------------------------
(***************************************************************************)
(* The directory                                                           *)
(***************************************************************************)
LEMMA PartIsSound ==
  ASSUME NEW B, NEW time, Sound(B, time), NEW C \in SUBSET B
  PROVE  Sound(C, time)
  <1>1. IsFiniteSet(C)
    BY FS_Subset DEF Sound
  <1> QED BY <1>1 DEF Sound, OnePerSecond

\* What is deleted of a directory leaves LatestOf alone as long as it spares the
\* latest file or takes them all.
LEMMA DeletionKeepsLatest ==
  ASSUME NEW B, NEW s, NEW images, LatestOf(s, B, images), NEW C \in SUBSET B,
         \A n \in B \ C : IsLatest(n, Of(s, B)) => Of(s, C) = {}
  PROVE  LatestOf(s, C, images)
  <1>1. CASE Of(s, B) = {}
    BY <1>1 DEF LatestOf, Of
  <1>2. CASE \E n \in Of(s, B) : IsLatest(n, Of(s, B)) /\ n.image \in images
    <2>1. PICK n \in Of(s, B) : IsLatest(n, Of(s, B)) /\ n.image \in images
      BY <1>2
    <2>2. CASE n \in C
      <3>1. n \in Of(s, C) /\ IsLatest(n, Of(s, C))
        BY <2>1, <2>2 DEF Of, IsLatest
      <3> QED BY <3>1, <2>1 DEF LatestOf
    <2>3. CASE n \notin C
      BY <2>1, <2>3 DEF LatestOf, Of
    <2> QED BY <2>2, <2>3
  <1> QED BY <1>1, <1>2 DEF LatestOf

LEMMA AddOne ==
  ASSUME NEW S, IsFiniteSet(S), NEW x
  PROVE  /\ IsFiniteSet(S \union {x})
         /\ Cardinality(S \union {x}) <= Cardinality(S) + 1
  <1>1. Cardinality(S) \in Nat
    BY FS_CardinalityType
  <1>2. /\ IsFiniteSet(S \union {x})
        /\ Cardinality(S \union {x})
             = IF x \in S THEN Cardinality(S) ELSE Cardinality(S) + 1
    BY FS_AddElement
  <1> QED BY <1>1, <1>2

\* A new file is the latest of its service, and disturbs no other one.
LEMMA WithBackupFacts ==
  ASSUME DirInv, NEW s \in Services, NEW image \in Images
  PROVE  /\ Sound(WithBackup(s, image), now)
         /\ \A t \in Services \ {s} : Of(t, WithBackup(s, image)) = Of(t, backups)
         /\ IsLatest([service |-> s, at |-> now, image |-> image], Of(s, WithBackup(s, image)))
         /\ Cardinality(Of(s, WithBackup(s, image))) <= Cardinality(Of(s, backups)) + 1
  <1> DEFINE new == [service |-> s, at |-> now, image |-> image]
             old == {f \in backups : ~(f.service = s /\ f.at = now)}
             B == WithBackup(s, image)
  <1>1. B = old \union {new}
    BY DEF WithBackup
  <1>2. now \in 0 .. MaxTime /\ now \in Int /\ backups \subseteq Files
    BY NumbersAssumption DEF DirInv, TypeOK
  <1>3. new \in Files /\ new.service = s /\ new.at = now
    BY <1>2 DEF Files
  <1>4. B \subseteq Files
    BY <1>1, <1>2, <1>3
  <1>5. IsFiniteSet(B)
    <2>1. IsFiniteSet(old)
      BY FS_Subset DEF DirInv, Sound
    <2> HIDE DEF old, new, B
    <2> QED BY <2>1, <1>1, AddOne
  <1>6. \A f \in B : f.at <= now
    BY <1>1, <1>2, <1>3 DEF DirInv, Sound
  <1>7. OnePerSecond(B)
    <2>1. \A f, g \in old : f.service = g.service /\ f.at = g.at => f = g
      BY DEF DirInv, Sound, OnePerSecond
    <2>2. \A f \in old : ~(f.service = new.service /\ f.at = new.at)
      BY <1>3
    <2> QED BY <1>1, <2>1, <2>2 DEF OnePerSecond
  <1>8. Sound(B, now)
    BY <1>4, <1>5, <1>6, <1>7 DEF Sound
  <1>9. ASSUME NEW t \in Services \ {s} PROVE Of(t, B) = Of(t, backups)
    BY <1>1, <1>3 DEF Of
  <1>10. IsLatest(new, Of(s, B))
    BY <1>1, <1>3, <1>6 DEF IsLatest, Of
  <1>11. Cardinality(Of(s, B)) <= Cardinality(Of(s, backups)) + 1
    <2>1. Of(s, B) = Of(s, old) \union {new}
      BY <1>1, <1>3 DEF Of
    <2>2. IsFiniteSet(Of(s, backups)) /\ IsFiniteSet(Of(s, old))
      BY FS_Subset DEF Of, DirInv, Sound
    <2>3. Of(s, old) \in SUBSET Of(s, backups)
      BY DEF Of
    <2>4. Cardinality(Of(s, old)) <= Cardinality(Of(s, backups))
      BY <2>2, <2>3, FS_Subset
    <2>5. Cardinality(Of(s, B)) <= Cardinality(Of(s, old)) + 1
      <3> HIDE DEF old, new, B
      <3> QED BY <2>1, <2>2, AddOne
    <2>6. /\ Cardinality(Of(s, old)) \in Nat /\ Cardinality(Of(s, backups)) \in Nat
      BY <2>2, FS_CardinalityType
    <2>7. Cardinality(Of(s, B)) \in Nat
      <3>1. IsFiniteSet(Of(s, B))
        BY <1>5, FS_Subset DEF Of
      <3> QED BY <3>1, FS_CardinalityType
    <2> QED BY <2>4, <2>5, <2>6, <2>7
  <1> QED BY <1>8, <1>9, <1>10, <1>11

\* PrepareRollback deletes only files found for s, and leaves MaxHistory of them
\* when it deletes any; no more stay unless a deletion fails, which leaves no more
\* than there were.  When names are told apart it spares the one it has made.
LEMMA PrepareFacts ==
  ASSUME DirInv, NEW s \in Services, PrepareRollback(s)
  PROVE  LET B == WithBackup(s, compose)
             new == [service |-> s, at |-> now, image |-> compose]
         IN  /\ backups' \subseteq B
             /\ \A f \in B \ backups' :
                  /\ f \in Entries(names[s], B)
                  /\ Cardinality(Entries(names[s], backups')) >= MaxHistory
             /\ Separate => new \in backups' /\ \A f \in B \ backups' : f.service = s
             /\ \/ /\ faults' = faults
                   /\ Cardinality(Of(s, backups')) <= MaxHistory
                \/ /\ faults' = faults + 1
                   /\ Cardinality(Of(s, backups')) <= Cardinality(Of(s, B))
  <1> DEFINE B == WithBackup(s, compose)
             new == [service |-> s, at |-> now, image |-> compose]
             E == Entries(names[s], B)
             kept == Entries(names[s], backups')
  <1>1. compose \in Images /\ names \in Namings
    BY DEF DirInv, TypeOK
  <1>2. Sound(B, now) /\ IsLatest(new, Of(s, B))
    BY <1>1, WithBackupFacts
  <1>3. B \in SUBSET Files /\ IsFiniteSet(B) /\ OnePerSecond(B)
    BY <1>2 DEF Sound
  <1>4. PICK X \in Excess(E) :
          \/ backups' = B \ X /\ UNCHANGED faults
          \/ /\ Strikes("remove")
             /\ \E Y \in LeftOver(X) : backups' = B \ (X \ Y)
    BY DEF PrepareRollback
  <1>5. /\ backups' \subseteq B /\ B \ backups' \subseteq X
        /\ \/ backups' = B \ X /\ faults' = faults
           \/ faults' = faults + 1
    BY <1>4 DEF Strikes
  <1>6. /\ Of(s, B) \subseteq E /\ E \in SUBSET B
        /\ Separate => E = Of(s, B)
    BY <1>1, <1>3, EntriesFacts, EntriesAreOwn
  <1>7. IsFiniteSet(E) /\ Cardinality(E) \in Nat /\ MaxHistory \in Nat
    BY <1>3, <1>6, FS_Subset, FS_CardinalityType, NumbersAssumption
  <1>8. /\ X \subseteq E /\ IsFiniteSet(X)
        /\ Cardinality(E) <= MaxHistory => X = {}
        /\ Cardinality(E) > MaxHistory => Cardinality(X) = Cardinality(E) - MaxHistory
    BY <1>4, <1>7, ExcessFacts
  <1>9. /\ E \ X \subseteq kept /\ kept \in SUBSET E
        /\ backups' = B \ X => kept = E \ X
        /\ Of(s, backups') \in SUBSET kept /\ Of(s, backups') \in SUBSET Of(s, B)
    <2>1. Of(s, backups') \subseteq Of(s, B)
      BY <1>5 DEF Of
    <2>2. Of(s, backups') \subseteq backups'
      BY DEF Of
    <2>3. kept = E \intersect backups'
      BY <1>5 DEF Entries
    <2> HIDE DEF kept, E, B
    <2> QED BY <1>5, <1>6, <2>1, <2>2, <2>3
  <1>10. /\ IsFiniteSet(kept) /\ Cardinality(kept) \in Nat
         /\ IsFiniteSet(Of(s, B)) /\ IsFiniteSet(Of(s, backups'))
         /\ Cardinality(Of(s, backups')) <= Cardinality(kept)
         /\ Cardinality(Of(s, backups')) <= Cardinality(Of(s, B))
         /\ Cardinality(Of(s, backups')) \in Nat
    <2> HIDE DEF kept, E, B
    <2>1. IsFiniteSet(kept) /\ IsFiniteSet(Of(s, B))
      BY <1>6, <1>7, <1>9, FS_Subset
    <2>2. IsFiniteSet(Of(s, backups'))
      BY <1>9, <2>1, FS_Subset
    <2>3. /\ Cardinality(Of(s, backups')) <= Cardinality(kept)
          /\ Cardinality(Of(s, backups')) <= Cardinality(Of(s, B))
      BY <1>9, <2>1, FS_Subset
    <2> QED BY <2>1, <2>2, <2>3, FS_CardinalityType
  <1>11. /\ IsFiniteSet(E \ X) /\ Cardinality(E \ X) = Cardinality(E) - Cardinality(X)
         /\ Cardinality(E \ X) <= Cardinality(kept)
    <2> HIDE DEF kept, E, B
    <2>1. /\ IsFiniteSet(E \ X)
          /\ Cardinality(E \ X) = Cardinality(E) - Cardinality(E \intersect X)
      BY <1>7, FS_Difference
    <2>2. E \intersect X = X
      BY <1>8
    <2>3. Cardinality(E \ X) <= Cardinality(kept)
      BY <1>9, <1>10, FS_Subset
    <2> QED BY <2>1, <2>2, <2>3
  <1>12. ASSUME NEW f \in B \ backups'
         PROVE  f \in E /\ Cardinality(kept) >= MaxHistory
    <2> HIDE DEF kept, E, B
    <2>1. f \in X /\ f \in E
      BY <1>5, <1>8
    <2>2. Cardinality(E) > MaxHistory
      BY <1>7, <1>8, <2>1
    <2>3. Cardinality(E \ X) = MaxHistory
      BY <1>7, <1>8, <1>11, <2>2
    <2> QED BY <1>7, <1>10, <1>11, <2>1, <2>3
  <1>13. ASSUME Separate PROVE new \in backups' /\ \A f \in B \ backups' : f.service = s
    <2>1. X \in Excess(Of(s, B))
      BY <1>4, <1>6, <1>13
    <2>2. new \notin X /\ new \in Of(s, B)
      <3> HIDE DEF B, new
      <3> QED BY <1>2, <1>3, <2>1, LatestIsKept DEF IsLatest
    <2>3. \A f \in X : f.service = s
      BY <1>6, <1>8, <1>13 DEF Of
    <2>4. new \in B
      BY <2>2 DEF Of
    <2> HIDE DEF B, new
    <2> QED BY <1>5, <2>2, <2>3, <2>4
  <1>14. ASSUME backups' = B \ X PROVE Cardinality(Of(s, backups')) <= MaxHistory
    <2> HIDE DEF kept, E, B
    <2>1. kept = E \ X
      BY <1>9, <1>14
    <2>2. Cardinality(E \ X) <= MaxHistory
      <3>1. CASE Cardinality(E) <= MaxHistory
        BY <1>7, <1>8, <1>11, <3>1, FS_EmptySet
      <3>2. CASE Cardinality(E) > MaxHistory
        BY <1>7, <1>8, <1>11, <3>2
      <3> QED BY <1>7, <3>1, <3>2
    <2> QED BY <1>7, <1>10, <2>1, <2>2
  <1> HIDE DEF B, new, E, kept
  <1>15. \/ faults' = faults /\ Cardinality(Of(s, backups')) <= MaxHistory
         \/ faults' = faults + 1 /\ Cardinality(Of(s, backups')) <= Cardinality(Of(s, B))
    BY <1>5, <1>10, <1>14
  <1> QED BY <1>5, <1>12, <1>13, <1>15 DEF B, new, E, kept

\* The cleanup of all services takes the latest file of one only with the others.
LEMMA CleanupFacts ==
  ASSUME ToldApart, DirInv, CleanupOldBackups
  PROVE  \A s \in Services : \A n \in backups \ backups' :
           IsLatest(n, Of(s, backups)) => Of(s, backups') = {}
  <1> DEFINE part(X, name) == X \intersect Entries(name, backups)
  <1>1. PICK done \in SUBSET ServicesWithBackups, X \in SUBSET backups :
          /\ \A name \in done : part(X, name) \in Excess(Entries(name, backups))
          /\ \/ done = ServicesWithBackups
             \/ /\ Strikes("remove")
                /\ \E culprit \in ServicesWithBackups \ done :
                     /\ \E W \in Excess(Entries(culprit, backups)) :
                          \E Y \in LeftOver(W) : part(X, culprit) = W \ Y
                     /\ \A name \in ServicesWithBackups \ (done \union {culprit}) :
                          part(X, name) = {}
          /\ backups' = backups \ X
    BY DEF CleanupOldBackups
  <1>2. backups \in SUBSET Files /\ IsFiniteSet(backups) /\ OnePerSecond(backups)
    BY DEF DirInv, Sound
  <1> SUFFICES ASSUME NEW s \in Services, NEW n \in backups \ backups',
                      IsLatest(n, Of(s, backups))
               PROVE  Of(s, backups') = {}
    OBVIOUS
  <1> DEFINE name == <<FileName(n)[1]>>
             E == Entries(name, backups)
  <1>3. n \in X /\ n \in Of(s, backups) /\ n \in backups /\ n.service = s
    BY <1>1 DEF IsLatest, Of
  <1>4. /\ name \in ServicesWithBackups
        /\ Of(s, backups) \subseteq E /\ E \in SUBSET backups
        /\ "remove" \in Faults => E = Of(s, backups)
    <2>0. names \in Namings
      BY DEF DirInv, TypeOK
    <2>1. /\ name \in {<<FileName(f)[1]>> : f \in backups}
          /\ Of(s, backups) \subseteq E
          /\ (\A r, t \in Services : r # t => names[r][1] # names[t][1]) =>
               E = Of(s, backups)
      BY <1>2, <1>3, <2>0, FirstPartEntries
    <2>2. E \in SUBSET backups
      BY DEF Entries
    <2> QED BY <2>1, <2>2 DEF ServicesWithBackups, ToldApart
  <1>5. n \in part(X, name)
    BY <1>3, <1>4
  <1> HIDE DEF name, E
  <1>6. CASE name \in done
    <2>1. part(X, name) \in Excess(E)
      BY <1>1, <1>6 DEF E
    <2>2. Of(s, backups) \subseteq part(X, name)
      <3> HIDE DEF part
      <3> QED BY <1>2, <1>4, <1>5, <2>1, PruningGoesUp
    <2> QED BY <1>1, <2>2 DEF Of
  <1>7. CASE name \notin done
    <2>1. PICK culprit \in ServicesWithBackups \ done :
            /\ "remove" \in Faults
            /\ \E W \in Excess(Entries(culprit, backups)) :
                 \E Y \in LeftOver(W) : part(X, culprit) = W \ Y
            /\ \A nm \in ServicesWithBackups \ (done \union {culprit}) :
                 part(X, nm) = {}
      BY <1>1, <1>4, <1>7 DEF Strikes
    <2>2. CASE culprit = name
      <3>1. PICK W \in Excess(Of(s, backups)) : part(X, name) \subseteq W
        BY <1>4, <2>1, <2>2 DEF E
      <3>2. n \notin W
        BY <1>2, LatestIsKept
      <3> QED BY <1>5, <3>1, <3>2
    <2>3. CASE culprit # name
      BY <1>4, <1>5, <1>7, <2>1, <2>3
    <2> QED BY <2>2, <2>3
  <1> QED BY <1>6, <1>7

-----------------------------------------------------------------------------
(***************************************************************************)
(* The restores                                                            *)
(***************************************************************************)
\* Both rollbacks restore from files of the directory.
LEMMA RollbackTakesEntries ==
  ASSUME NEW s \in Services, Rollback(s) \/ RollbackToVersion(s)
  PROVE  \E E \in SUBSET backups : Restore(s, E)
  <1>1. Entries(names[s], backups) \in SUBSET backups
    BY DEF Entries
  <1>2. CASE Rollback(s)
    BY <1>1, <1>2 DEF Rollback
  <1>3. CASE RollbackToVersion(s)
    <2>1. PICK f \in backups :
            Restore(s, {e \in Entries(names[s], backups) : ImageTag(e) = ImageTag(f)})
      BY <1>3 DEF RollbackToVersion
    <2>2. {e \in Entries(names[s], backups) : ImageTag(e) = ImageTag(f)}
            \in SUBSET backups
      BY <1>1
    <2> QED BY <2>1, <2>2
  <1> QED BY <1>2, <1>3

\* With names told apart, from all the files of the service or from none.
LEMMA RollbackFacts ==
  ASSUME Separate, DirInv, NEW s \in Services, Rollback(s) \/ RollbackToVersion(s)
  PROVE  Restore(s, Of(s, backups))
  <1>1. backups \in SUBSET Files /\ names \in Namings
    BY DEF DirInv, TypeOK, Sound
  <1>2. Entries(names[s], backups) = Of(s, backups)
    BY <1>1, EntriesAreOwn
  <1>3. ASSUME RollbackToVersion(s) PROVE Restore(s, Of(s, backups))
    <2>1. PICK f \in backups :
            Restore(s, {e \in Of(s, backups) : ImageTag(e) = ImageTag(f)})
      BY <1>2, <1>3 DEF RollbackToVersion
    <2> DEFINE E == {e \in Of(s, backups) : ImageTag(e) = ImageTag(f)}
    <2>2. E # {}
      BY <2>1 DEF Restore, Newest
    <2>3. \A e, g \in Of(s, backups) : ImageTag(e) = ImageTag(g)
      BY <1>1, OneTag DEF Of
    <2>4. E = Of(s, backups)
      BY <2>2, <2>3
    <2> QED BY <2>1, <2>4
  <1> QED BY <1>2, <1>3 DEF Rollback

\* A restore takes the latest file of the service.
LEMMA RestoreFacts ==
  ASSUME DirInv, NEW s \in Services, Restore(s, Of(s, backups))
  PROVE  /\ \E f \in Of(s, backups) :
              /\ IsLatest(f, Of(s, backups))
              /\ \/ /\ compose' = f.image
                    /\ running' = [running EXCEPT ![s] = f.image.version[s]]
                    /\ last' = [op |-> "rollback", service |-> s, ok |-> TRUE]
                 \/ /\ compose' = f.image \/ compose' = Torn(f.image)
                    /\ running' = running
                    /\ last' = [op |-> "rollback", service |-> s, ok |-> FALSE]
         /\ faults' \in {faults, faults + 1} /\ faults' <= MaxFaults
         /\ UNCHANGED <<now, backups, prepared, torn>>
  <1>1. backups \in SUBSET Files
    BY DEF DirInv, Sound
  <1>2. PICK f \in Newest(Of(s, backups)) :
          /\ Untouched(f)
          /\ \/ /\ compose' = f.image
                /\ \/ /\ running' = [running EXCEPT ![s] = f.image.version[s]]
                      /\ Ends("rollback", s, TRUE) /\ UNCHANGED faults
                   \/ /\ IF f.image.whole THEN Strikes("up") ELSE UNCHANGED faults
                      /\ Ends("rollback", s, FALSE) /\ UNCHANGED running
             \/ /\ Strikes("restore")
                /\ compose' = Torn(f.image) /\ Ends("rollback", s, FALSE)
                /\ UNCHANGED running
    BY DEF Restore
  <1>3. IsLatest(f, Of(s, backups)) /\ f \in Of(s, backups)
    BY <1>1, <1>2, NewestIsLatest DEF IsLatest
  <1>4. UNCHANGED <<now, backups, prepared, torn>>
    BY <1>2 DEF Restore, Untouched
  <1>5. faults' \in {faults, faults + 1} /\ faults' <= MaxFaults
    <2>1. faults \in 0 .. MaxFaults /\ MaxFaults \in Nat
      BY NumbersAssumption DEF DirInv, TypeOK
    <2>2. faults' = faults \/ Strikes("up") \/ Strikes("restore")
      BY <1>2, Zenon
    <2> QED BY <2>1, <2>2 DEF Strikes
  <1>6. \/ /\ compose' = f.image
           /\ running' = [running EXCEPT ![s] = f.image.version[s]]
           /\ last' = [op |-> "rollback", service |-> s, ok |-> TRUE]
        \/ /\ compose' = f.image \/ compose' = Torn(f.image)
           /\ running' = running
           /\ last' = [op |-> "rollback", service |-> s, ok |-> FALSE]
    BY <1>2 DEF Ends
  <1> QED BY <1>3, <1>4, <1>5, <1>6

-----------------------------------------------------------------------------
(***************************************************************************)
(* Types                                                                   *)
(***************************************************************************)
LEMMA TornIsImage ==
  ASSUME NEW image \in Images
  PROVE  Torn(image) \in Images /\ ~Torn(image).whole
  BY DEF Torn, Images

LEMMA EndedTypes ==
  ASSUME NEW op \in {"none", "prepare", "rollback", "check", "other"},
         NEW s \in Services \union {"none"}, NEW ok \in BOOLEAN
  PROVE  [op |-> op, service |-> s, ok |-> ok] \in Ended
  BY DEF Ended

LEMMA StrikesKeepsTypes ==
  ASSUME TypeOK, NEW kind, Strikes(kind)
  PROVE  faults' \in 0 .. MaxFaults /\ faults' = faults + 1
  BY NumbersAssumption DEF TypeOK, Strikes

LEMMA RestoreKeepsTypes ==
  ASSUME TypeOK, NEW s \in Services, NEW E \in SUBSET backups, Restore(s, E)
  PROVE  TypeOK'
  <1>1. PICK f \in E :
          /\ Untouched(f)
          /\ \/ /\ compose' = f.image
                /\ \/ /\ running' = [running EXCEPT ![s] = f.image.version[s]]
                      /\ Ends("rollback", s, TRUE) /\ UNCHANGED faults
                   \/ /\ IF f.image.whole THEN Strikes("up") ELSE UNCHANGED faults
                      /\ Ends("rollback", s, FALSE) /\ UNCHANGED running
             \/ /\ Strikes("restore")
                /\ compose' = Torn(f.image) /\ Ends("rollback", s, FALSE)
                /\ UNCHANGED running
    BY DEF Restore, Newest
  <1>2. f.image \in Images /\ Torn(f.image) \in Images /\ f.image.version[s] \in Versions
    <2>1. f.image \in Images
      BY DEF TypeOK, Files
    <2> QED BY <2>1, TornIsImage DEF Images
  <1>3. compose' \in Images
    BY <1>1, <1>2
  <1>4. running' \in [Services -> Versions]
    BY <1>1, <1>2 DEF TypeOK
  <1>5. last' \in Ended
    BY <1>1, EndedTypes DEF Ends
  <1>6. faults' \in 0 .. MaxFaults
    <2>1. faults' = faults \/ Strikes("up") \/ Strikes("restore")
      BY <1>1, Zenon
    <2> QED BY <2>1, StrikesKeepsTypes DEF TypeOK
  <1> QED BY <1>1, <1>3, <1>4, <1>5, <1>6 DEF Restore, Untouched, TypeOK

LEMMA WithBackupIsTyped ==
  ASSUME TypeOK, NEW s \in Services, NEW image \in Images
  PROVE  WithBackup(s, image) \subseteq Files
  BY DEF TypeOK, WithBackup, Files

LEMMA PrepareKeepsTypes ==
  ASSUME TypeOK, NEW s \in Services, PrepareRollback(s)
  PROVE  TypeOK'
  <1>1. compose \in Images
    BY DEF TypeOK
  <1>2. backups' \subseteq WithBackup(s, compose)
    BY DEF PrepareRollback
  <1>3. backups' \subseteq Files
    BY <1>1, <1>2, WithBackupIsTyped
  <1>4. faults' \in 0 .. MaxFaults
    BY StrikesKeepsTypes DEF PrepareRollback, TypeOK
  <1>5. prepared' \in [Services -> SUBSET Images]
    BY <1>1 DEF PrepareRollback, TypeOK
  <1>6. last' \in Ended
    BY EndedTypes DEF PrepareRollback, Ends
  <1> QED BY <1>3, <1>4, <1>5, <1>6 DEF PrepareRollback, TypeOK

LEMMA PrepareFailsKeepsTypes ==
  ASSUME TypeOK, NEW s \in Services, PrepareFails(s)
  PROVE  TypeOK'
  <1>1. backups' \subseteq Files /\ torn' \in BOOLEAN
    BY WithBackupIsTyped, TornIsImage DEF PrepareFails, TypeOK
  <1>2. last' \in Ended
    BY EndedTypes DEF PrepareFails, Ends
  <1> QED BY <1>1, <1>2, StrikesKeepsTypes DEF PrepareFails, TypeOK

\* The cleanup only deletes.
LEMMA CleanupDeletes ==
  ASSUME CleanupOldBackups
  PROVE  backups' \subseteq backups
  BY DEF CleanupOldBackups

LEMMA CleanupKeepsTypes ==
  ASSUME TypeOK, CleanupOldBackups
  PROVE  TypeOK'
  <1>1. faults' \in 0 .. MaxFaults
    BY StrikesKeepsTypes DEF CleanupOldBackups, TypeOK
  <1> QED BY <1>1, CleanupDeletes, EndedTypes DEF CleanupOldBackups, Ends, TypeOK

LEMMA DeployKeepsTypes ==
  ASSUME TypeOK, Deploy
  PROVE  TypeOK'
  <1>1. PICK s \in Services :
          /\ compose.version[s] < MaxVersion
          /\ compose' = [compose EXCEPT !.version[s] = @ + 1]
          /\ running' = [running EXCEPT ![s] = compose'.version[s]]
    BY DEF Deploy
  <1>2. compose' \in Images /\ compose'.version[s] \in Versions
    BY <1>1, NumbersAssumption DEF TypeOK, Images, Versions
  <1>3. running' \in [Services -> Versions]
    BY <1>1, <1>2 DEF TypeOK
  <1> QED BY <1>2, <1>3, EndedTypes DEF Deploy, Ends, TypeOK

LEMMA TickKeepsTypes ==
  ASSUME TypeOK, Tick
  PROVE  TypeOK'
  BY NumbersAssumption DEF TypeOK, Tick

LEMMA NextKeepsTypes ==
  ASSUME TypeOK, Next
  PROVE  TypeOK'
  <1>1. ASSUME NEW s \in Services, Rollback(s) \/ RollbackToVersion(s) PROVE TypeOK'
    BY <1>1, RollbackTakesEntries, RestoreKeepsTypes
  <1> QED BY <1>1, PrepareKeepsTypes, PrepareFailsKeepsTypes, CleanupKeepsTypes,
             DeployKeepsTypes, TickKeepsTypes DEF Next

LEMMA PrepareFailsFacts ==
  ASSUME DirInv, NEW s \in Services, PrepareFails(s)
  PROVE  /\ Sound(backups', now')
         /\ \A t \in Services \ {s} : Of(t, backups') = Of(t, backups)
         /\ Cardinality(Of(s, backups')) <= Cardinality(Of(s, backups)) + 1
         /\ faults' = faults + 1
         /\ (backups' = backups /\ torn' = torn) \/ torn'
  <1>1. compose \in Images /\ Torn(compose) \in Images
    BY TornIsImage DEF DirInv, TypeOK
  <1>2. CASE UNCHANGED <<backups, torn>>
    <2>1. IsFiniteSet(Of(s, backups))
      BY FS_Subset DEF Of, DirInv, Sound
    <2>2. Cardinality(Of(s, backups)) \in Nat
      BY <2>1, FS_CardinalityType
    <2>3. /\ Sound(backups', now')
          /\ \A t \in Services \ {s} : Of(t, backups') = Of(t, backups)
          /\ Cardinality(Of(s, backups')) <= Cardinality(Of(s, backups)) + 1
      BY <1>2, <2>2 DEF PrepareFails, DirInv
    <2> QED BY <1>2, <2>3, StrikesKeepsTypes DEF PrepareFails, DirInv
  <1>3. CASE backups' = WithBackup(s, Torn(compose)) /\ torn' = TRUE
    <2>1. /\ Sound(backups', now')
          /\ \A t \in Services \ {s} : Of(t, backups') = Of(t, backups)
          /\ Cardinality(Of(s, backups')) <= Cardinality(Of(s, backups)) + 1
      BY <1>1, <1>3, WithBackupFacts DEF PrepareFails
    <2> QED BY <1>3, <2>1, StrikesKeepsTypes DEF PrepareFails, DirInv
  <1> QED BY <1>2, <1>3 DEF PrepareFails

-----------------------------------------------------------------------------
(***************************************************************************)
(* The invariants of the directory                                         *)
(***************************************************************************)
\* What a step of the directory may do to keep SizeInv.
LEMMA SizeKept ==
  ASSUME DirInv, SizeInv, faults' \in {faults, faults + 1},
         NEW s \in Services, Sound(backups', now'),
         \A t \in Services \ {s} : Of(t, backups') \subseteq Of(t, backups),
         \/ Of(s, backups') \subseteq Of(s, backups)
         \/ faults' = faults /\ Cardinality(Of(s, backups')) <= MaxHistory
         \/ /\ faults' = faults + 1
            /\ Cardinality(Of(s, backups')) <= Cardinality(Of(s, backups)) + 1
  PROVE  SizeInv'
  <1>1. faults \in Nat /\ MaxHistory \in Nat
    BY NumbersAssumption DEF DirInv, TypeOK
  <1> SUFFICES ASSUME NEW t \in Services
               PROVE  Cardinality(Of(t, backups')) <= MaxHistory + faults'
    BY DEF SizeInv
  <1>2. /\ Cardinality(Of(t, backups)) \in Nat /\ Cardinality(Of(t, backups')) \in Nat
        /\ Of(t, backups') \subseteq Of(t, backups) =>
             Cardinality(Of(t, backups')) <= Cardinality(Of(t, backups))
    <2>1. IsFiniteSet(Of(t, backups)) /\ IsFiniteSet(Of(t, backups'))
      BY FS_Subset DEF Of, DirInv, Sound
    <2> QED BY <2>1, FS_CardinalityType, FS_Subset
  <1>3. Cardinality(Of(t, backups)) <= MaxHistory + faults
    BY DEF SizeInv
  <1>4. CASE Of(t, backups') \subseteq Of(t, backups)
    BY <1>1, <1>2, <1>3, <1>4
  <1>5. CASE ~(Of(t, backups') \subseteq Of(t, backups))
    <2>1. t = s
      BY <1>5
    <2> QED BY <1>1, <1>2, <1>3, <1>5, <2>1
  <1> QED BY <1>4, <1>5

LEMMA PrepareKeepsDir ==
  ASSUME DirInv, NEW s \in Services, PrepareRollback(s)
  PROVE  /\ DirInv'
         /\ SizeInv => SizeInv'
         /\ Separate => (LatestIsPrepared => LatestIsPrepared')
  <1> DEFINE B == WithBackup(s, compose)
             new == [service |-> s, at |-> now, image |-> compose]
  <1>1. compose \in Images
    BY DEF DirInv, TypeOK
  <1>2. /\ Sound(B, now)
        /\ \A t \in Services \ {s} : Of(t, B) = Of(t, backups)
        /\ IsLatest(new, Of(s, B))
        /\ Cardinality(Of(s, B)) <= Cardinality(Of(s, backups)) + 1
    BY <1>1, WithBackupFacts
  <1>3. /\ backups' \subseteq B
        /\ Separate => new \in backups' /\ \A f \in B \ backups' : f.service = s
        /\ \/ faults' = faults /\ Cardinality(Of(s, backups')) <= MaxHistory
           \/ faults' = faults + 1 /\ Cardinality(Of(s, backups')) <= Cardinality(Of(s, B))
    BY PrepareFacts
  <1>4. now' = now /\ torn' = torn /\ prepared' = [prepared EXCEPT ![s] = {compose}]
    BY DEF PrepareRollback
  <1> HIDE DEF B
  <1>5. Sound(backups', now')
    BY <1>2, <1>3, <1>4, PartIsSound
  <1>6. \A t \in Services \ {s} : Of(t, backups') \subseteq Of(t, backups)
    <2>1. \A t \in Services \ {s} : Of(t, backups') \subseteq Of(t, B)
      BY <1>3 DEF Of
    <2> QED BY <2>1, <1>2
  <1>7. SizeInv => SizeInv'
    <2>1. faults' = faults + 1 => Cardinality(Of(s, backups')) <= Cardinality(Of(s, backups)) + 1
      <3>1. /\ IsFiniteSet(Of(s, backups)) /\ IsFiniteSet(Of(s, backups'))
            /\ IsFiniteSet(Of(s, B))
        BY <1>2, <1>5, FS_Subset DEF Of, DirInv, Sound
      <3>2. /\ Cardinality(Of(s, backups)) \in Nat /\ Cardinality(Of(s, backups')) \in Nat
            /\ Cardinality(Of(s, B)) \in Nat
        BY <3>1, FS_CardinalityType
      <3>3. faults \in Int
        BY DEF DirInv, TypeOK
      <3> QED BY <3>2, <3>3, <1>2, <1>3
    <2> QED BY <2>1, <1>3, <1>5, <1>6, SizeKept
  <1>8. Separate => (LatestIsPrepared => LatestIsPrepared')
    <2> SUFFICES ASSUME Separate, LatestIsPrepared, ~torn, NEW t \in Services
                 PROVE  LatestOf(t, backups', prepared'[t])
      BY <1>4 DEF LatestIsPrepared
    <2>1. CASE t = s
      <3>1. new \in Of(s, backups') /\ IsLatest(new, Of(s, backups'))
        BY <1>2, <1>3 DEF Of, IsLatest
      <3>2. new.image \in prepared'[s]
        BY <1>4 DEF DirInv, TypeOK
      <3> QED BY <2>1, <3>1, <3>2 DEF LatestOf
    <2>2. CASE t # s
      <3>1. prepared'[t] = prepared[t]
        BY <1>4, <2>2 DEF DirInv, TypeOK
      <3>2. Of(t, backups') = Of(t, B)
        BY <1>3, <2>2 DEF Of
      <3>3. Of(t, backups') = Of(t, backups)
        BY <1>2, <2>2, <3>2
      <3> QED BY <3>1, <3>3 DEF LatestIsPrepared, LatestOf
    <2> QED BY <2>1, <2>2
  <1> QED BY <1>5, <1>7, <1>8, PrepareKeepsTypes DEF DirInv

LEMMA PrepareFailsKeepsDir ==
  ASSUME DirInv, NEW s \in Services, PrepareFails(s)
  PROVE  /\ DirInv'
         /\ SizeInv => SizeInv'
         /\ LatestIsPrepared => LatestIsPrepared'
  <1>1. DirInv'
    BY PrepareFailsFacts, PrepareFailsKeepsTypes DEF DirInv
  <1>2. SizeInv => SizeInv'
    BY PrepareFailsFacts, SizeKept DEF DirInv
  <1>3. LatestIsPrepared => LatestIsPrepared'
    BY PrepareFailsFacts DEF LatestIsPrepared, PrepareFails
  <1> QED BY <1>1, <1>2, <1>3

LEMMA CleanupKeepsDir ==
  ASSUME DirInv, CleanupOldBackups
  PROVE  /\ DirInv'
         /\ SizeInv => SizeInv'
         /\ ToldApart => (LatestIsPrepared => LatestIsPrepared')
  <1>1. UNCHANGED <<now, prepared, torn>> /\ faults' \in {faults, faults + 1}
    BY DEF CleanupOldBackups, Strikes
  <1>2. DirInv'
    BY <1>1, PartIsSound, CleanupDeletes, CleanupKeepsTypes DEF DirInv
  <1>3. SizeInv => SizeInv'
    <2>1. \A t \in Services : Of(t, backups') \subseteq Of(t, backups)
      BY CleanupDeletes DEF Of
    <2>2. CASE \E s \in Services : TRUE
      BY <1>1, <1>2, <2>1, <2>2, SizeKept DEF DirInv
    <2>3. CASE Services = {}
      BY <2>3 DEF SizeInv
    <2> QED BY <2>2, <2>3
  <1>4. ToldApart => (LatestIsPrepared => LatestIsPrepared')
    BY <1>1, CleanupDeletes, CleanupFacts, DeletionKeepsLatest DEF LatestIsPrepared
  <1> QED BY <1>2, <1>3, <1>4

\* A step that touches neither the directory nor what was prepared.
LEMMA OtherKeepsDir ==
  ASSUME DirInv, TypeOK', UNCHANGED <<backups, prepared, torn>>,
         faults' \in {faults, faults + 1}, now' \in {now, now + 1}
  PROVE  /\ DirInv'
         /\ SizeInv => SizeInv'
         /\ LatestIsPrepared => LatestIsPrepared'
  <1>1. Sound(backups', now')
    <2>1. \A f \in backups : f.at \in Int /\ f.at <= now
      BY DEF DirInv, Sound, Files
    <2>2. now \in Int
      BY DEF DirInv, TypeOK
    <2>3. \A f \in backups : f.at <= now'
      BY <2>1, <2>2
    <2> QED BY <2>3 DEF DirInv, Sound
  <1>2. DirInv'
    BY <1>1 DEF DirInv
  <1>3. SizeInv => SizeInv'
    <2>1. CASE \E s \in Services : TRUE
      BY <1>1, <2>1, SizeKept
    <2>2. CASE Services = {}
      BY <2>2 DEF SizeInv
    <2> QED BY <2>1, <2>2
  <1> QED BY <1>2, <1>3 DEF LatestIsPrepared

LEMMA RestoreKeepsDir ==
  ASSUME DirInv, NEW s \in Services, NEW E \in SUBSET backups, Restore(s, E)
  PROVE  /\ DirInv'
         /\ SizeInv => SizeInv'
         /\ LatestIsPrepared => LatestIsPrepared'
  <1>1. UNCHANGED <<now, backups, prepared, torn>>
    BY DEF Restore, Untouched
  <1>2. faults' \in {faults, faults + 1}
    BY DEF Restore, Strikes
  <1>3. TypeOK'
    BY RestoreKeepsTypes DEF DirInv
  <1> QED BY <1>1, <1>2, <1>3, OtherKeepsDir

\* A restore takes the file the last PrepareRollback of the service saw.
LEMMA RestoreIsPrepared ==
  ASSUME DirInv, LatestIsPrepared, ~torn, NEW s \in Services, Restore(s, Of(s, backups))
  PROVE  \E f \in backups :
           /\ f.image \in prepared[s] /\ f.image \in Images
           /\ \/ /\ compose' = f.image
                 /\ running' = [running EXCEPT ![s] = f.image.version[s]]
                 /\ last' = [op |-> "rollback", service |-> s, ok |-> TRUE]
              \/ /\ compose' = f.image \/ compose' = Torn(f.image)
                 /\ running' = running
                 /\ last' = [op |-> "rollback", service |-> s, ok |-> FALSE]
  <1>1. PICK f \in Of(s, backups) :
          /\ IsLatest(f, Of(s, backups))
          /\ \/ /\ compose' = f.image
                /\ running' = [running EXCEPT ![s] = f.image.version[s]]
                /\ last' = [op |-> "rollback", service |-> s, ok |-> TRUE]
             \/ /\ compose' = f.image \/ compose' = Torn(f.image)
                /\ running' = running
                /\ last' = [op |-> "rollback", service |-> s, ok |-> FALSE]
    BY RestoreFacts
  <1>2. PICK g \in Of(s, backups) : IsLatest(g, Of(s, backups)) /\ g.image \in prepared[s]
    BY <1>1 DEF LatestIsPrepared, LatestOf
  <1>3. f = g
    BY <1>1, <1>2, LatestIsUnique DEF DirInv, Sound
  <1>4. f \in backups /\ f.image \in Images
    BY DEF Of, DirInv, Sound, Files
  <1> QED BY <1>1, <1>2, <1>3, <1>4

LEMMA RestoreKeepsRollbackInv ==
  ASSUME DirInv, RollbackInv, NEW s \in Services, Restore(s, Of(s, backups))
  PROVE  RollbackInv'
  <1>0. Of(s, backups) \in SUBSET backups
    BY DEF Of
  <1>1. LatestIsPrepared' /\ torn' = torn /\ prepared' = prepared /\ backups' = backups
    BY <1>0, RestoreKeepsDir, RestoreFacts DEF RollbackInv
  <1> SUFFICES ASSUME ~torn PROVE RollbackRestoresPrepared' /\ RollbackCanBeRepeated'
    BY <1>1 DEF RollbackInv, RollbackRestoresPrepared, RollbackCanBeRepeated
  <1>2. PICK f \in backups :
          /\ f.image \in prepared[s] /\ f.image \in Images
          /\ \/ /\ compose' = f.image
                /\ running' = [running EXCEPT ![s] = f.image.version[s]]
                /\ last' = [op |-> "rollback", service |-> s, ok |-> TRUE]
             \/ /\ compose' = f.image \/ compose' = Torn(f.image)
                /\ running' = running
                /\ last' = [op |-> "rollback", service |-> s, ok |-> FALSE]
    BY RestoreIsPrepared DEF RollbackInv
  <1>3. last'.service = s
    BY <1>2
  <1>4. RollbackCanBeRepeated'
    BY <1>1, <1>2, <1>3 DEF RollbackCanBeRepeated
  <1>5. CASE last' = [op |-> "rollback", service |-> s, ok |-> FALSE]
    BY <1>4, <1>5 DEF RollbackRestoresPrepared
  <1>6. CASE /\ compose' = f.image
             /\ running' = [running EXCEPT ![s] = f.image.version[s]]
    <2>1. running'[s] = compose'.version[s]
      BY <1>6 DEF DirInv, TypeOK
    <2> QED BY <1>1, <1>2, <1>3, <1>4, <1>6, <2>1 DEF RollbackRestoresPrepared
  <1> QED BY <1>2, <1>5, <1>6

\* Other operations either leave the last one alone or end with another name.
LEMMA OtherKeepsRollbackInv ==
  ASSUME ToldApart, RollbackInv, LatestIsPrepared',
         \/ last'.op \in {"prepare", "check", "other"}
         \/ UNCHANGED <<last, compose, running, prepared, backups, torn>>
  PROVE  RollbackInv'
  <1>1. CASE last'.op \in {"prepare", "check", "other"}
    BY <1>1 DEF RollbackInv, RollbackRestoresPrepared, RollbackCanBeRepeated
  <1>2. CASE UNCHANGED <<last, compose, running, prepared, backups, torn>>
    BY <1>2 DEF RollbackInv, RollbackRestoresPrepared, RollbackCanBeRepeated
  <1> QED BY <1>1, <1>2

LEMMA NextKeepsDir ==
  ASSUME DirInv, Next
  PROVE  /\ DirInv'
         /\ SizeInv => SizeInv'
         /\ ToldApart => (RollbackInv => RollbackInv')
  <1>1. CASE Deploy
    <2>1. /\ UNCHANGED <<backups, prepared, torn, faults, now>>
          /\ last'.op = "other"
      BY <1>1 DEF Deploy, Ends
    <2>2. TypeOK'
      BY <1>1, DeployKeepsTypes DEF DirInv
    <2> QED BY <2>1, <2>2, OtherKeepsDir, OtherKeepsRollbackInv DEF RollbackInv
  <1>2. CASE Tick
    <2>1. /\ UNCHANGED <<backups, prepared, torn, faults, last, compose, running>>
          /\ now' = now + 1
      BY <1>2 DEF Tick
    <2>2. TypeOK'
      BY <1>2, TickKeepsTypes DEF DirInv
    <2> QED BY <2>1, <2>2, OtherKeepsDir, OtherKeepsRollbackInv DEF RollbackInv
  <1>3. CASE CleanupOldBackups
    <2>1. last'.op = "other"
      BY <1>3 DEF CleanupOldBackups, Ends
    <2> QED BY <1>3, <2>1, CleanupKeepsDir, OtherKeepsRollbackInv DEF RollbackInv
  <1>4. ASSUME NEW s \in Services, PrepareRollback(s)
        PROVE  /\ DirInv' /\ (SizeInv => SizeInv')
               /\ ToldApart => (RollbackInv => RollbackInv')
    <2>1. last'.op = "prepare"
      BY <1>4 DEF PrepareRollback, Ends
    <2> QED BY <1>4, <2>1, PrepareKeepsDir, OtherKeepsRollbackInv DEF RollbackInv, ToldApart
  <1>5. ASSUME NEW s \in Services, PrepareFails(s)
        PROVE  /\ DirInv' /\ (SizeInv => SizeInv')
               /\ ToldApart => (RollbackInv => RollbackInv')
    <2>1. last'.op = "prepare"
      BY <1>5 DEF PrepareFails, Ends
    <2> QED BY <1>5, <2>1, PrepareFailsKeepsDir, OtherKeepsRollbackInv DEF RollbackInv
  <1>6. ASSUME NEW s \in Services, Rollback(s) \/ RollbackToVersion(s)
        PROVE  /\ DirInv' /\ (SizeInv => SizeInv')
               /\ ToldApart => (RollbackInv => RollbackInv')
    <2>1. DirInv' /\ (SizeInv => SizeInv')
      BY <1>6, RollbackTakesEntries, RestoreKeepsDir
    <2>2. ToldApart => (RollbackInv => RollbackInv')
      BY <1>6, RollbackFacts, RestoreKeepsRollbackInv DEF ToldApart
    <2> QED BY <2>1, <2>2
  <1> QED BY <1>1, <1>2, <1>3, <1>4, <1>5, <1>6 DEF Next

-----------------------------------------------------------------------------
(***************************************************************************)
(* The monitor                                                             *)
(***************************************************************************)
\* What executeRollback chooses from: all the files of the service, or none.
LEMMA TargetsFacts ==
  ASSUME Separate, DirInv, NEW s \in Services, Targets(s) # {}
  PROVE  Targets(s) = Of(s, backups)
  <1>1. backups \in SUBSET Files /\ names \in Namings
    BY DEF DirInv, TypeOK, Sound
  <1>2. Targets(s) = {e \in Of(s, backups) : monitored[s].target \in {"", ImageTag(e)}}
    BY <1>1, EntriesAreOwn DEF Targets
  <1>3. \A e, g \in Of(s, backups) : ImageTag(e) = ImageTag(g)
    BY <1>1, OneTag DEF Of
  <1> QED BY <1>2, <1>3

\* An attempt leaves no more attempts than there were.
LEMMA AttemptFacts ==
  ASSUME MonitorTypeOK, NEW s \in Services, monitored[s] # Unmonitored
  PROVE  /\ Attempt(s) \in States
         /\ Attempt(s).left <= monitored[s].left
         /\ Attempt(s).rollback = monitored[s].rollback
         /\ Attempt(s).target = monitored[s].target
  BY DEF MonitorTypeOK, Attempt, States, OneLess

LEMMA TracksKeepsTypes ==
  ASSUME MonitorTypeOK, TypeOK', NEW s \in Services, NEW state, Tracks(s, state),
         \/ state = Unmonitored
         \/ monitored[s] # Unmonitored /\ state = Attempt(s)
         \/ \E d \in Deployments[s] :
              state = [left |-> d.max, rollback |-> d.rollback, target |-> d.target]
  PROVE  MonitorTypeOK'
  <1> DEFINE Known(t, m) ==
        \/ m = Unmonitored
        \/ \E d \in Deployments[t] :
             m.left <= d.max /\ m.target = d.target /\ m.rollback = d.rollback
  <1>1. /\ monitored' = [monitored EXCEPT ![s] = state]
        /\ monitored \in [Services -> States \union {Unmonitored}]
        /\ \A t \in Services : Known(t, monitored[t])
    BY DEF Tracks, MonitorTypeOK
  <1>2. \A d \in Deployments[s] : d.max \in Nat /\ d.rollback \in BOOLEAN /\ d.target \in STRING
    BY DeploymentsAssumption
  <1>3. state \in States \union {Unmonitored} /\ Known(s, state)
    <2>1. CASE state = Unmonitored
      BY <2>1
    <2>2. CASE monitored[s] # Unmonitored /\ state = Attempt(s)
      <3>1. /\ state \in States /\ state.left \in Nat
            /\ state.left <= monitored[s].left
            /\ state.rollback = monitored[s].rollback
            /\ state.target = monitored[s].target
        BY <2>2, AttemptFacts DEF States
      <3>2. PICK d \in Deployments[s] :
              /\ monitored[s].left <= d.max
              /\ monitored[s].target = d.target /\ monitored[s].rollback = d.rollback
        BY <1>1, <2>2
      <3>3. monitored[s].left \in Nat
        BY <1>1, <2>2 DEF States
      <3> QED BY <1>2, <3>1, <3>2, <3>3
    <2>3. CASE \E d \in Deployments[s] :
                 state = [left |-> d.max, rollback |-> d.rollback, target |-> d.target]
      BY <1>2, <2>3 DEF States
    <2> QED BY <2>1, <2>2, <2>3
  <1> QED BY <1>1, <1>3 DEF MonitorTypeOK

\* What a rollback of the monitor changes, and what it restores.
LEMMA MonitorRollbackFacts ==
  ASSUME DirInv, MonitorTypeOK, NEW s \in Services, MonitorRollback(s)
  PROVE  /\ TypeOK' /\ MonitorTypeOK'
         /\ UNCHANGED <<now, backups, running, prepared, torn>>
         /\ faults' \in {faults, faults + 1}
         /\ last'.op = "check"
         /\ \/ Tracks(s, Attempt(s))
            \/ /\ Tracks(s, Unmonitored)
               /\ Separate /\ LatestIsPrepared /\ ~torn => compose' \in prepared[s]
  <1>1. /\ UNCHANGED <<names, now, backups, running, prepared, torn>>
        /\ monitored[s] # Unmonitored
    BY DEF MonitorRollback
  <1>2. \A f \in Newest(Targets(s)) :
          /\ f.image \in Images /\ Torn(f.image) \in Images
          /\ Separate => IsLatest(f, Of(s, backups))
    <2> SUFFICES ASSUME NEW f \in Newest(Targets(s))
                 PROVE  f.image \in Images /\ (Separate => IsLatest(f, Of(s, backups)))
      BY TornIsImage
    <2>1. f \in backups
      BY DEF Newest, Targets, Entries
    <2>2. ASSUME Separate PROVE IsLatest(f, Of(s, backups))
      <3>1. Targets(s) = Of(s, backups)
        BY <2>2, TargetsFacts DEF Newest
      <3> QED BY <3>1, NewestIsLatest DEF DirInv, Sound
    <2> QED BY <2>1, <2>2 DEF DirInv, Sound, Files
  <1>3. CASE /\ \E f \in Newest(Targets(s)) : compose' = f.image
             /\ Tracks(s, Unmonitored) /\ Ends("check", s, TRUE) /\ UNCHANGED faults
    <2>1. PICK f \in Newest(Targets(s)) : compose' = f.image
      BY <1>3
    <2>2. TypeOK'
      BY <1>1, <1>2, <1>3, <2>1, EndedTypes DEF DirInv, TypeOK, Ends
    <2>3. MonitorTypeOK'
      BY <1>3, <2>2, TracksKeepsTypes
    <2>4. Separate /\ LatestIsPrepared /\ ~torn => compose' \in prepared[s]
      <3> SUFFICES ASSUME Separate, LatestIsPrepared, ~torn PROVE compose' \in prepared[s]
        OBVIOUS
      <3>1. IsLatest(f, Of(s, backups))
        BY <1>2
      <3>2. PICK g \in Of(s, backups) : IsLatest(g, Of(s, backups)) /\ g.image \in prepared[s]
        BY <3>1 DEF IsLatest, LatestIsPrepared, LatestOf
      <3>3. f = g
        BY <3>1, <3>2, LatestIsUnique DEF DirInv, Sound
      <3> QED BY <2>1, <3>2, <3>3
    <2> QED BY <1>1, <1>3, <2>2, <2>3, <2>4 DEF Ends
  <1>4. CASE /\ \E f \in Newest(Targets(s)) : compose' = Torn(f.image)
             /\ Strikes("restore") /\ KeepUnrestored(s) /\ Ends("check", s, FALSE)
    <2>1. TypeOK'
      BY <1>1, <1>2, <1>4, EndedTypes, StrikesKeepsTypes DEF DirInv, TypeOK, Ends
    <2>2. Tracks(s, Attempt(s))
      BY <1>4 DEF KeepUnrestored
    <2>3. MonitorTypeOK'
      BY <1>1, <2>1, <2>2, TracksKeepsTypes
    <2> QED BY <1>1, <1>4, <2>1, <2>2, <2>3 DEF Ends, Strikes
  <1>5. CASE /\ Targets(s) = {}
             /\ KeepUnrestored(s) /\ Ends("check", s, FALSE)
             /\ UNCHANGED <<compose, faults>>
    <2>1. TypeOK'
      BY <1>1, <1>5, EndedTypes DEF DirInv, TypeOK, Ends
    <2>2. Tracks(s, Attempt(s))
      BY <1>5 DEF KeepUnrestored
    <2>3. MonitorTypeOK'
      BY <1>1, <2>1, <2>2, TracksKeepsTypes
    <2> QED BY <1>1, <1>5, <2>1, <2>2, <2>3 DEF Ends
  <1> QED BY <1>3, <1>4, <1>5 DEF MonitorRollback

\* The steps of the monitor that do nothing else.
LEMMA OnlyMonitored ==
  ASSUME DirInv, MonitorTypeOK, NEW s \in Services,
         StartMonitoring(s) \/ StopMonitoring(s) \/ CheckHealthy(s) \/ CheckUnhealthy(s)
  PROVE  UNCHANGED vars /\ MonitorTypeOK'
  <1>1. UNCHANGED vars
    BY DEF StartMonitoring, StopMonitoring, CheckHealthy, CheckUnhealthy
  <1>2. TypeOK'
    BY <1>1 DEF DirInv, TypeOK, vars
  <1>3. CASE StartMonitoring(s)
    <2>1. PICK d \in Deployments[s] :
            Tracks(s, [left |-> d.max, rollback |-> d.rollback, target |-> d.target])
      BY <1>3 DEF StartMonitoring
    <2> QED BY <1>1, <1>2, <2>1, TracksKeepsTypes
  <1>4. CASE StopMonitoring(s)
    BY <1>1, <1>2, <1>4, TracksKeepsTypes DEF StopMonitoring
  <1>5. CASE CheckHealthy(s) \/ CheckUnhealthy(s)
    <2>1. Tracks(s, Attempt(s)) /\ monitored[s] # Unmonitored
      BY <1>5 DEF CheckHealthy, CheckUnhealthy
    <2> QED BY <1>1, <1>2, <2>1, TracksKeepsTypes
  <1> QED BY <1>3, <1>4, <1>5

\* The directory's invariants survive a step of anyone that leaves the variables.
LEMMA StutterKeepsDir ==
  ASSUME DirInv, UNCHANGED vars
  PROVE  /\ DirInv'
         /\ SizeInv => SizeInv'
         /\ ToldApart => (RollbackInv => RollbackInv')
  <1>1. DirInv' /\ (SizeInv => SizeInv') /\ (LatestIsPrepared => LatestIsPrepared')
    BY DEF DirInv, TypeOK, SizeInv, LatestIsPrepared, vars
  <1>2. ToldApart => (RollbackInv => RollbackInv')
    BY <1>1, OtherKeepsRollbackInv DEF RollbackInv, vars
  <1> QED BY <1>1, <1>2

LEMMA MonitorNextKeepsDir ==
  ASSUME DirInv, MonitorTypeOK, MonitorNext
  PROVE  /\ DirInv' /\ MonitorTypeOK'
         /\ SizeInv => SizeInv'
         /\ ToldApart => (RollbackInv => RollbackInv')
  <1>1. CASE Next /\ UNCHANGED monitored
    <2>1. TypeOK'
      BY <1>1, NextKeepsTypes DEF DirInv
    <2>2. MonitorTypeOK'
      BY <1>1, <2>1 DEF MonitorTypeOK
    <2> QED BY <1>1, <2>2, NextKeepsDir
  <1>2. ASSUME NEW s \in Services,
               StartMonitoring(s) \/ StopMonitoring(s) \/ CheckHealthy(s) \/ CheckUnhealthy(s)
        PROVE  /\ DirInv' /\ MonitorTypeOK'
               /\ SizeInv => SizeInv'
               /\ ToldApart => (RollbackInv => RollbackInv')
    BY <1>2, OnlyMonitored, StutterKeepsDir
  <1>3. ASSUME NEW s \in Services, MonitorRollback(s)
        PROVE  /\ DirInv' /\ MonitorTypeOK'
               /\ SizeInv => SizeInv'
               /\ ToldApart => (RollbackInv => RollbackInv')
    <2>1. /\ TypeOK' /\ MonitorTypeOK' /\ last'.op = "check"
          /\ UNCHANGED <<now, backups, prepared, torn>> /\ faults' \in {faults, faults + 1}
      BY <1>3, MonitorRollbackFacts
    <2>2. DirInv' /\ (SizeInv => SizeInv') /\ (LatestIsPrepared => LatestIsPrepared')
      BY <2>1, OtherKeepsDir
    <2> QED BY <2>1, <2>2, OtherKeepsRollbackInv DEF RollbackInv
  <1> QED BY <1>1, <1>2, <1>3 DEF MonitorNext

\* A step of the monitor drops a service only when it has restored its file.
LEMMA MonitorNextDrops ==
  ASSUME Separate, DirInv, MonitorTypeOK, LatestIsPrepared, MonitorNext,
         NEW s \in Services,
         monitored[s] # Unmonitored, monitored'[s] = Unmonitored, ~torn
  PROVE  StopMonitoring(s) \/ compose' \in prepared[s]
  <1>1. monitored \in [Services -> States \union {Unmonitored}]
    BY DEF MonitorTypeOK
  <1>2. ASSUME NEW t \in Services, NEW state, Tracks(t, state)
        PROVE  t = s /\ state = Unmonitored
    BY <1>1, <1>2 DEF Tracks
  <1>3. CASE Next /\ UNCHANGED monitored
    BY <1>3
  <1>4. ASSUME NEW t \in Services,
               StartMonitoring(t) \/ StopMonitoring(t) \/ CheckHealthy(t) \/ CheckUnhealthy(t)
        PROVE  StopMonitoring(s)
    <2>1. /\ UNCHANGED vars
          /\ \E state : Tracks(t, state)
      BY <1>4, OnlyMonitored DEF StartMonitoring, StopMonitoring, CheckHealthy, CheckUnhealthy
    <2>2. Tracks(s, Unmonitored)
      BY <1>2, <2>1
    <2> QED BY <2>1, <2>2 DEF StopMonitoring
  <1>5. ASSUME NEW t \in Services, MonitorRollback(t)
        PROVE  compose' \in prepared[s]
    <2>1. \/ Tracks(t, Attempt(t))
          \/ /\ Tracks(t, Unmonitored)
             /\ Separate /\ LatestIsPrepared /\ ~torn => compose' \in prepared[t]
      BY <1>5, MonitorRollbackFacts
    <2>2. CASE Tracks(t, Attempt(t))
      <3>1. Attempt(t) = Unmonitored
        BY <1>2, <2>2
      <3>2. Attempt(t).rollback = monitored[t].rollback /\ monitored[t].rollback
        BY <1>5, AttemptFacts DEF MonitorRollback, GivesUp
      <3> QED BY <3>1, <3>2 DEF Unmonitored
    <2>3. CASE Tracks(t, Unmonitored) /\ compose' \in prepared[t]
      BY <1>2, <2>3
    <2> QED BY <2>1, <2>2, <2>3
  <1> QED BY <1>3, <1>4, <1>5 DEF MonitorNext

-----------------------------------------------------------------------------
(***************************************************************************)
(* The walks                                                               *)
(***************************************************************************)
LEMMA MonitorStutter ==
  ASSUME MonitorTypeOK, UNCHANGED monitorVars
  PROVE  MonitorTypeOK'
  BY DEF MonitorTypeOK, TypeOK, monitorVars, vars

\* What a walk does to the directory, and what it does to the rest.
WalkOnly ==
  \/ StartWalk \/ Execute \/ EndWalk \/ \E s \in Services : NextService(s)

LEMMA WalkOnlyFacts ==
  ASSUME WalkTypeOK, AtService, WalkOnly
  PROVE  /\ UNCHANGED monitorVars
         /\ WalkTypeOK' /\ AtService'
  <1>1. UNCHANGED monitorVars
    BY DEF WalkOnly, StartWalk, Execute, EndWalk, NextService
  <1>2. MonitorTypeOK'
    BY <1>1, MonitorStutter DEF WalkTypeOK
  <1>3. CASE StartWalk
    <2>1. PICK onFailure \in BOOLEAN, todo \in {Services, {}} :
            walk' = Walk("next", todo, "none", onFailure)
      BY <1>3, Zenon DEF StartWalk
    <2>2. walk' \in [step: Steps, todo: SUBSET Services, at: Services \union {"none"},
                     onFailure: BOOLEAN] /\ AtService'
      BY <2>1 DEF Walk, Steps, AtService
    <2>3. Started \in [compose: Images, running: [Services -> Versions]]
      BY DEF Started, WalkTypeOK, MonitorTypeOK, TypeOK
    <2> QED BY <1>1, <1>2, <1>3, <2>2, <2>3 DEF StartWalk, WalkTypeOK
  <1>4. CASE Execute
    <2>1. PICK step \in {"next", "rollback"} : walk' = [walk EXCEPT !.step = step]
      BY <1>4 DEF Execute, GoesTo
    <2>2. walk.step = "execute"
      BY <1>4 DEF Execute
    <2> QED BY <1>1, <1>2, <1>4, <2>1, <2>2 DEF Execute, WalkTypeOK, AtService, Steps
  <1>5. CASE EndWalk
    <2>1. walk' = Walk("idle", {}, "none", FALSE) /\ before' = {}
      BY <1>5 DEF EndWalk, Idle
    <2>2. walk' \in [step: Steps, todo: SUBSET Services, at: Services \union {"none"},
                     onFailure: BOOLEAN] /\ AtService'
      BY <2>1 DEF Walk, Steps, AtService
    <2> QED BY <1>1, <1>2, <2>1, <2>2 DEF WalkTypeOK
  <1>6. ASSUME NEW s \in Services, NextService(s) PROVE WalkTypeOK' /\ AtService'
    <2>1. PICK step \in {"next", "prepare"} :
            walk' = [walk EXCEPT !.step = step, !.todo = @ \ {s}, !.at = s]
      BY <1>6 DEF NextService
    <2>2. before' = before
      BY <1>6 DEF NextService
    <2> QED BY <1>2, <2>1, <2>2 DEF WalkTypeOK, AtService, Steps
  <1> QED BY <1>1, <1>3, <1>4, <1>5, <1>6 DEF WalkOnly

\* Prepare and RollBack move the walk on; the rest of WalkTypeOK is the
\* directory's.
LEMMA GoesToKeepsTypes ==
  ASSUME WalkTypeOK, AtService, TypeOK', UNCHANGED <<monitored, before>>,
         NEW step \in {"next", "execute"}, GoesTo(step),
         walk.step \in {"prepare", "execute", "rollback"}
  PROVE  WalkTypeOK' /\ AtService'
  <1>1. MonitorTypeOK'
    BY DEF WalkTypeOK, MonitorTypeOK
  <1>2. walk' = [walk EXCEPT !.step = step]
    BY DEF GoesTo
  <1> QED BY <1>1, <1>2 DEF WalkTypeOK, AtService, Steps

\* The cases of a step of the walks, and of a stutter.
LEMMA WalkNextCases ==
  ASSUME [WalkNext]_walkVars
  PROVE  \/ walk = Off /\ MonitorNext /\ UNCHANGED <<walk, before>>
         \/ /\ walk.step # "off" /\ Tick /\ UNCHANGED <<monitored, walk, before>>
         \/ /\ walk.step # "off" /\ Between /\ Deploy
            /\ UNCHANGED <<monitored, walk, before>>
         \/ Prepare /\ PrepareRollback(walk.at) /\ GoesTo("execute")
         \/ Prepare /\ PrepareFails(walk.at) /\ GoesTo("next")
         \/ RollBack /\ Rollback(walk.at)
         \/ RollBack /\ UNCHANGED vars
         \/ WalkOnly
         \/ UNCHANGED walkVars
  BY Zenon DEF WalkNext, WalkOnly, Prepare, RollBack, AfterFailedPrepare

TypeInv == DirInv /\ WalkTypeOK /\ AtService

LEMMA WalkKeepsDir ==
  ASSUME TypeInv, [WalkNext]_walkVars
  PROVE  /\ TypeInv'
         /\ SizeInv => SizeInv'
         /\ ToldApart => (RollbackInv => RollbackInv')
  <1> USE DEF TypeInv
  <1>1. CASE walk = Off /\ MonitorNext /\ UNCHANGED <<walk, before>>
    <2>1. /\ DirInv' /\ MonitorTypeOK'
          /\ SizeInv => SizeInv'
          /\ ToldApart => (RollbackInv => RollbackInv')
      BY <1>1, MonitorNextKeepsDir DEF WalkTypeOK
    <2>2. WalkTypeOK' /\ AtService'
      BY <1>1, <2>1 DEF WalkTypeOK, AtService
    <2> QED BY <2>1, <2>2
  <1>2. CASE (Tick \/ Deploy) /\ UNCHANGED <<monitored, walk, before>>
    <2>1. Next
      BY <1>2 DEF Next
    <2>2. /\ DirInv'
          /\ SizeInv => SizeInv'
          /\ ToldApart => (RollbackInv => RollbackInv')
      BY <2>1, NextKeepsDir
    <2>3. WalkTypeOK' /\ AtService'
      BY <1>2, <2>2 DEF WalkTypeOK, AtService, MonitorTypeOK, DirInv
    <2> QED BY <2>2, <2>3
  <1>3. CASE \/ Prepare /\ PrepareRollback(walk.at) /\ GoesTo("execute")
             \/ Prepare /\ PrepareFails(walk.at) /\ GoesTo("next")
             \/ RollBack /\ Rollback(walk.at)
    <2>1. /\ walk.step \in {"prepare", "rollback"} /\ UNCHANGED <<monitored, before>>
          /\ \E step \in {"next", "execute"} : GoesTo(step)
      BY <1>3 DEF Prepare, RollBack
    <2>2. walk.at \in Services
      BY <2>1 DEF AtService
    <2>3. Next
      BY <1>3, <2>2 DEF Next
    <2>4. /\ DirInv'
          /\ SizeInv => SizeInv'
          /\ ToldApart => (RollbackInv => RollbackInv')
      BY <2>3, NextKeepsDir
    <2>5. WalkTypeOK' /\ AtService'
      BY <2>1, <2>4, GoesToKeepsTypes DEF DirInv
    <2> QED BY <2>4, <2>5
  <1>4. CASE RollBack /\ UNCHANGED vars
    <2>1. /\ DirInv'
          /\ SizeInv => SizeInv'
          /\ ToldApart => (RollbackInv => RollbackInv')
      BY <1>4, StutterKeepsDir
    <2>2. /\ walk.step = "rollback" /\ UNCHANGED <<monitored, before>> /\ GoesTo("next")
      BY <1>4 DEF RollBack
    <2>3. WalkTypeOK' /\ AtService'
      BY <2>1, <2>2, GoesToKeepsTypes DEF DirInv
    <2> QED BY <2>1, <2>3
  <1>5. CASE WalkOnly
    <2>1. UNCHANGED vars /\ WalkTypeOK' /\ AtService'
      BY <1>5, WalkOnlyFacts DEF monitorVars
    <2> QED BY <2>1, StutterKeepsDir
  <1>6. CASE UNCHANGED walkVars
    <2>1. UNCHANGED vars
      BY <1>6 DEF walkVars, monitorVars
    <2>2. WalkTypeOK' /\ AtService'
      BY <1>6, MonitorStutter DEF walkVars, WalkTypeOK, AtService
    <2> QED BY <2>1, <2>2, StutterKeepsDir
  <1> QED BY WalkNextCases, <1>1, <1>2, <1>3, <1>4, <1>5, <1>6

\* The image file of the service in hand is the file the walk is to leave.
LEMMA WalkKeepsFile ==
  ASSUME ToldApart, TypeInv, RollbackInv, WalkInv, [WalkNext]_walkVars
  PROVE  WalkInv'
  <1> USE DEF TypeInv
  <1>1. CASE walk = Off /\ MonitorNext /\ UNCHANGED <<walk, before>>
    <2>1. walk.step = "off" /\ Between /\ before = {}
      BY <1>1 DEF Off, Walk, Between, WalkInv
    <2> QED BY <1>1, <2>1 DEF WalkInv, Between, WalkLeavesFile
  <1>2. CASE walk.step # "off" /\ Tick /\ UNCHANGED <<monitored, walk, before>>
    BY <1>2 DEF Tick, WalkInv, Between, WalkLeavesFile, Started
  <1>3. CASE /\ walk.step # "off" /\ Between /\ Deploy
             /\ UNCHANGED <<monitored, walk, before>>
    <2>1. PICK s \in Services :
            /\ compose.version[s] < MaxVersion
            /\ compose' = [compose EXCEPT !.version[s] = @ + 1]
            /\ running' = [running EXCEPT ![s] = compose'.version[s]]
      BY <1>3 DEF Deploy
    <2>2. compose.whole /\ torn' = torn /\ walk.step = "idle" /\ before = {}
      BY <1>3 DEF Deploy, Between, WalkInv
    <2>3. ~torn => running' = compose'.version
      <3>1. compose.version \in [Services -> Versions]
        BY DEF DirInv, TypeOK, Images
      <3>2. compose'.version = [compose.version EXCEPT ![s] = @ + 1]
        BY <2>1 DEF DirInv, TypeOK, Images
      <3>3. ~torn => running = compose.version
        BY <1>3, <2>2 DEF WalkInv
      <3> QED BY <2>1, <3>1, <3>2, <3>3
    <2> QED BY <1>3, <2>2, <2>3 DEF WalkInv, Between, WalkLeavesFile
  <1>4. CASE Prepare /\ PrepareRollback(walk.at) /\ GoesTo("execute")
    <2>1. /\ walk.step = "prepare" /\ walk'.step = "execute" /\ walk'.at = walk.at
          /\ walk.at \in Services
      BY <1>4 DEF Prepare, GoesTo, WalkTypeOK, AtService
    <2>2. /\ UNCHANGED <<compose, running, torn, before>>
          /\ prepared'[walk.at] = {compose}
      BY <1>4, <2>1 DEF Prepare, PrepareRollback, DirInv, TypeOK
    <2> QED BY <2>1, <2>2 DEF WalkInv, Between, WalkLeavesFile, Started
  <1>5. CASE Prepare /\ PrepareFails(walk.at) /\ GoesTo("next")
    <2>1. walk.step = "prepare" /\ walk'.step = "next"
      BY <1>5 DEF Prepare, GoesTo, WalkTypeOK
    <2>2. UNCHANGED <<compose, running, before>> /\ torn' \in {torn, TRUE}
      BY <1>5 DEF Prepare, PrepareFails
    <2> QED BY <2>1, <2>2 DEF WalkInv, Between, WalkLeavesFile, Started
  <1>6. CASE RollBack /\ Rollback(walk.at)
    <2>1. /\ walk.step = "rollback" /\ walk'.step = "next" /\ walk.at \in Services
          /\ before' = before
      BY <1>6 DEF RollBack, GoesTo, WalkTypeOK, AtService
    <2>2. Restore(walk.at, Of(walk.at, backups))
      BY <1>6, <2>1, RollbackFacts DEF ToldApart
    <2>3. torn' = torn
      BY <2>1, <2>2, RestoreFacts
    <2> SUFFICES ASSUME ~torn, compose'.whole
                 PROVE  compose' = compose /\ running' = running /\ compose.whole
      BY <2>1, <2>3 DEF WalkInv, Between, WalkLeavesFile, Started
    <2>4. prepared[walk.at] = {compose}
      BY <2>1 DEF WalkInv
    <2>5. PICK f \in backups :
            /\ f.image \in prepared[walk.at] /\ f.image \in Images
            /\ \/ /\ compose' = f.image
                  /\ running' = [running EXCEPT ![walk.at] = f.image.version[walk.at]]
               \/ /\ compose' = f.image \/ compose' = Torn(f.image)
                  /\ running' = running
      BY <2>1, <2>2, RestoreIsPrepared DEF RollbackInv
    <2>6. compose' = f.image /\ f.image = compose /\ compose.whole
      BY <2>4, <2>5, TornIsImage
    <2>7. running = compose.version
      BY <2>1, <2>6 DEF WalkInv
    <2>8. running' = running
      <3>1. running \in [Services -> Versions]
        BY DEF DirInv, TypeOK
      <3>2. [running EXCEPT ![walk.at] = running[walk.at]] = running
        BY <2>1, <3>1
      <3> QED BY <2>5, <2>6, <2>7, <3>2
    <2> QED BY <2>6, <2>8
  <1>7. CASE RollBack /\ UNCHANGED vars
    <2>1. walk.step = "rollback" /\ walk'.step = "next" /\ before' = before
      BY <1>7 DEF RollBack, GoesTo, WalkTypeOK
    <2> QED BY <1>7, <2>1 DEF WalkInv, Between, WalkLeavesFile, Started, vars
  <1>8. CASE WalkOnly
    <2>1. UNCHANGED <<compose, running, prepared, torn>>
      BY <1>8, WalkOnlyFacts DEF monitorVars, vars
    <2>2. CASE StartWalk
      <3>1. walk'.step = "next" /\ before' = {Started} /\ walk.step # "off"
        BY <2>2 DEF StartWalk, Walk, Idle
      <3> QED BY <2>1, <3>1 DEF WalkInv, Between, WalkLeavesFile, Started
    <2>3. CASE Execute
      <3>1. /\ walk.step = "execute" /\ walk'.step \in {"next", "rollback"}
            /\ walk'.at = walk.at /\ before' = before
        BY <2>3 DEF Execute, GoesTo, WalkTypeOK
      <3> QED BY <2>1, <3>1 DEF WalkInv, Between, WalkLeavesFile, Started
    <2>4. CASE EndWalk
      <3>1. walk'.step = "idle" /\ before' = {} /\ walk.step = "next"
        BY <2>4 DEF EndWalk, Walk, Idle
      <3> QED BY <2>1, <3>1 DEF WalkInv, Between, WalkLeavesFile
    <2>5. ASSUME NEW s \in Services, NextService(s) PROVE WalkInv'
      <3>1. /\ walk.step = "next" /\ walk'.step \in {"next", "prepare"}
            /\ before' = before
        BY <2>5 DEF NextService, WalkTypeOK
      <3> QED BY <2>1, <3>1 DEF WalkInv, Between, WalkLeavesFile, Started
    <2> QED BY <1>8, <2>2, <2>3, <2>4, <2>5 DEF WalkOnly
  <1>9. CASE UNCHANGED walkVars
    BY <1>9 DEF WalkInv, Between, WalkLeavesFile, Started, walkVars, monitorVars, vars
  <1> QED BY WalkNextCases, <1>1, <1>2, <1>3, <1>4, <1>5, <1>6, <1>7, <1>8, <1>9

-----------------------------------------------------------------------------
(***************************************************************************)
(* The theorems                                                            *)
(***************************************************************************)
LEMMA WalkStarts ==
  ASSUME WalkInit
  PROVE  TypeInv /\ SizeInv /\ RollbackInv /\ WalkInv
  <1> USE DEF WalkInit, MonitorInit, Init
  <1>1. TypeOK
    <2>1. 0 \in Versions /\ compose \in Images /\ running \in [Services -> Versions]
      BY NumbersAssumption DEF Images, Versions
    <2>2. prepared \in [Services -> SUBSET Images] /\ backups \subseteq Files
      OBVIOUS
    <2>3. last \in Ended
      BY EndedTypes
    <2>4. now \in 0 .. MaxTime /\ faults \in 0 .. MaxFaults
      BY NumbersAssumption
    <2>5. torn \in BOOLEAN
      OBVIOUS
    <2> QED BY <2>1, <2>2, <2>3, <2>4, <2>5 DEF TypeOK
  <1>2. Sound(backups, now)
    BY FS_EmptySet DEF Sound, OnePerSecond
  <1>3. MonitorTypeOK
    BY <1>1 DEF MonitorTypeOK
  <1>4. WalkTypeOK /\ AtService
    <2>1. /\ walk.step \in {"off", "idle"}
          /\ walk \in [step: Steps, todo: SUBSET Services, at: Services \union {"none"},
                      onFailure: BOOLEAN]
      <3>1. PICK step \in {"off", "idle"} : walk = Walk(step, {}, "none", FALSE)
        BY DEF Off, Idle
      <3>2. walk = [step |-> step, todo |-> {}, at |-> "none", onFailure |-> FALSE]
        BY <3>1 DEF Walk
      <3> HIDE DEF WalkInit, MonitorInit, Init
      <3> QED BY <3>2 DEF Steps
    <2>2. before = {}
      OBVIOUS
    <2> QED BY <1>3, <2>1, <2>2 DEF WalkTypeOK, AtService
  <1>5. SizeInv
    <2>1. \A s \in Services : Of(s, backups) = {}
      BY DEF Of
    <2>2. faults = 0 /\ MaxHistory \in Nat
      BY NumbersAssumption
    <2>3. \A s \in Services : Cardinality(Of(s, backups)) = 0
      BY <2>1, FS_EmptySet
    <2> QED BY <2>2, <2>3 DEF SizeInv
  <1>6. RollbackInv
    BY DEF RollbackInv, LatestIsPrepared, LatestOf, Of,
           RollbackRestoresPrepared, RollbackCanBeRepeated
  <1>7. WalkInv
    <2>1. walk.step \in {"off", "idle"}
      BY DEF Off, Idle, Walk
    <2> QED BY <2>1 DEF WalkInv, Between, WalkLeavesFile
  <1> QED BY <1>1, <1>2, <1>4, <1>5, <1>6, <1>7 DEF TypeInv, DirInv

\* No step renames a service.
LEMMA NamesStay ==
  ASSUME [WalkNext]_walkVars
  PROVE  names' = names
  <1>1. ASSUME NEW s \in Services, Rollback(s) \/ RollbackToVersion(s) PROVE names' = names
    BY <1>1 DEF Rollback, RollbackToVersion, Restore
  <1>2. ASSUME NEW s \in Services, NEW E, Restore(s, E) PROVE names' = names
    BY <1>2 DEF Restore
  <1>3. CASE Next
    BY <1>1, <1>3 DEF Next, Deploy, CleanupOldBackups, Tick, PrepareRollback, PrepareFails
  <1>4. CASE MonitorNext
    <2>1. ASSUME NEW s \in Services, MonitorRollback(s) PROVE names' = names
      BY <2>1 DEF MonitorRollback
    <2>2. ASSUME UNCHANGED vars PROVE names' = names
      BY <2>2 DEF vars
    <2> QED BY <1>3, <1>4, <2>1, <2>2 DEF MonitorNext, StartMonitoring, StopMonitoring,
                                         CheckHealthy, CheckUnhealthy
  <1>5. CASE Tick \/ Deploy
    BY <1>3, <1>5 DEF Next
  <1>6. CASE Prepare
    BY <1>6 DEF Prepare, PrepareRollback, PrepareFails
  <1>7. CASE RollBack
    BY <1>7 DEF RollBack, Rollback, Restore, vars
  <1>8. CASE WalkOnly
    BY <1>8 DEF WalkOnly, StartWalk, Execute, EndWalk, NextService, monitorVars, vars
  <1>9. CASE UNCHANGED walkVars
    BY <1>9 DEF walkVars, monitorVars, vars
  <1> QED BY WalkNextCases, <1>4, <1>5, <1>6, <1>7, <1>8, <1>9

LEMMA ToldApartBefore ==
  ASSUME [WalkNext]_walkVars, ToldApart'
  PROVE  ToldApart
  BY NamesStay DEF ToldApart, Separate, Mistaken

LEMMA SizeInvariant == WalkSpec => [](TypeInv /\ SizeInv)
  <1>1. WalkInit => TypeInv /\ SizeInv
    BY WalkStarts
  <1>2. (TypeInv /\ SizeInv) /\ [WalkNext]_walkVars => (TypeInv /\ SizeInv)'
    BY WalkKeepsDir
  <1> QED BY <1>1, <1>2, PTL DEF WalkSpec

\* What is kept when the names of the services are told apart.
NamedInv == ToldApart => RollbackInv /\ WalkInv

\* The inductive invariant: the directory has one file of a service for a second
\* and none from the future; and when names are told apart the most recent file of
\* a service is what its last PrepareRollback saw, and a walk is about to roll back
\* to what is there.
THEOREM Invariant == WalkSpec => [](TypeInv /\ NamedInv)
  <1>1. WalkInit => TypeInv /\ NamedInv
    BY WalkStarts DEF NamedInv
  <1>2. (TypeInv /\ NamedInv) /\ [WalkNext]_walkVars => (TypeInv /\ NamedInv)'
    <2> SUFFICES ASSUME TypeInv, NamedInv, [WalkNext]_walkVars
                 PROVE  TypeInv' /\ NamedInv'
      OBVIOUS
    <2>1. TypeInv' /\ (ToldApart => (RollbackInv => RollbackInv'))
      BY WalkKeepsDir
    <2>2. ASSUME ToldApart' PROVE RollbackInv' /\ WalkInv'
      <3>1. ToldApart /\ RollbackInv /\ WalkInv
        BY <2>2, ToldApartBefore DEF NamedInv
      <3> QED BY <2>1, <3>1, WalkKeepsFile
    <2> QED BY <2>1, <2>2 DEF NamedInv
  <1> QED BY <1>1, <1>2, PTL DEF WalkSpec

\* Type correctness of the backups, the monitor and the walks.
THEOREM TypeCorrect == WalkSpec => []WalkTypeOK
  <1>1. TypeInv => WalkTypeOK
    BY DEF TypeInv
  <1> QED BY <1>1, SizeInvariant, PTL

\* Whatever the services are called, each keeps MaxHistory backups after a
\* preparation, and one more for each deletion or copy that failed: CreateBackup
\* and CleanupOldBackups of backup.go.
THEOREM HistoryIsBounded == WalkSpec => []HistoryBounded
  <1>1. SizeInv => HistoryBounded
    BY DEF SizeInv, HistoryBounded, Of
  <1> QED BY <1>1, SizeInvariant, PTL

\* Whatever the services are called, preparing a rollback deletes a backup of
\* another service only when the prefix by which GetBackupHistory finds files of
\* the one prepared is a prefix of that file's name, and only while MaxHistory of
\* the files found so are left.
THEOREM PreparationSparesOthers == WalkSpec => CleanupSparesOthers
  <1> DEFINE Spares ==
        last'.op = "prepare" =>
          \A f \in backups \ backups' :
            \/ f.service = last'.service
            \/ /\ Mistaken(last'.service, f.service)
               /\ Cardinality(Entries(names[last'.service], backups')) >= MaxHistory
  <1>1. ASSUME DirInv, NEW s \in Services, PrepareRollback(s) PROVE Spares
    <2> DEFINE B == WithBackup(s, compose)
    <2>1. \A f \in B \ backups' :
            /\ f \in Entries(names[s], B)
            /\ Cardinality(Entries(names[s], backups')) >= MaxHistory
      BY <1>1, PrepareFacts
    <2>2. \A f \in backups \ B : f.service = s
      BY DEF WithBackup
    <2>3. last'.service = s
      BY <1>1 DEF PrepareRollback, Ends
    <2>4. B \in SUBSET Files /\ names \in Namings
      <3>1. compose \in Images
        BY <1>1 DEF DirInv, TypeOK
      <3> QED BY <1>1, <3>1, WithBackupIsTyped DEF DirInv, TypeOK
    <2>5. \A f \in Entries(names[s], B) : f.service = s \/ Mistaken(s, f.service)
      <3> HIDE DEF B
      <3> QED BY <2>4, EntriesFacts
    <2> HIDE DEF B
    <2> QED BY <2>1, <2>2, <2>3, <2>5
  <1>2. ASSUME NEW s \in Services, PrepareFails(s) PROVE Spares
    <2>1. last'.service = s
      BY <1>2 DEF PrepareFails, Ends
    <2>2. \A f \in backups \ WithBackup(s, Torn(compose)) : f.service = s
      BY DEF WithBackup
    <2>3. backups' = backups \/ backups' = WithBackup(s, Torn(compose))
      BY <1>2 DEF PrepareFails
    <2> QED BY <2>1, <2>2, <2>3
  <1>3. ASSUME DirInv, NEW s \in Services, Rollback(s) \/ RollbackToVersion(s) PROVE Spares
    <2>1. UNCHANGED backups
      BY <1>3, RollbackTakesEntries DEF Restore, Untouched
    <2> QED BY <2>1
  <1>4. ASSUME DirInv, Next PROVE Spares
    <2>1. CASE Deploy
      BY <2>1 DEF Deploy
    <2>2. CASE Tick
      BY <2>2 DEF Tick
    <2>3. CASE CleanupOldBackups
      BY <2>3 DEF CleanupOldBackups, Ends
    <2> QED BY <1>1, <1>2, <1>3, <1>4, <2>1, <2>2, <2>3 DEF Next
  <1>5. ASSUME TypeInv, [WalkNext]_walkVars PROVE Spares
    <2>1. CASE walk = Off /\ MonitorNext /\ UNCHANGED <<walk, before>>
      <3>1. CASE Next
        BY <1>4, <1>5, <3>1 DEF TypeInv
      <3>2. ASSUME NEW s \in Services,
                   \/ StartMonitoring(s) \/ StopMonitoring(s)
                   \/ CheckHealthy(s) \/ CheckUnhealthy(s) \/ MonitorRollback(s)
            PROVE  backups' = backups
        BY <3>2 DEF StartMonitoring, StopMonitoring, CheckHealthy, CheckUnhealthy,
                    MonitorRollback, vars
      <3> QED BY <2>1, <3>1, <3>2 DEF MonitorNext
    <2>2. CASE Tick \/ Deploy
      BY <1>4, <1>5, <2>2 DEF Next, TypeInv
    <2>3. CASE \/ Prepare /\ (PrepareRollback(walk.at) \/ PrepareFails(walk.at))
               \/ RollBack /\ Rollback(walk.at)
      <3>1. walk.at \in Services
        BY <1>5, <2>3 DEF TypeInv, AtService, Prepare, RollBack
      <3> QED BY <1>4, <1>5, <2>3, <3>1 DEF Next, TypeInv
    <2>4. CASE (RollBack /\ UNCHANGED vars) \/ UNCHANGED walkVars
      BY <2>4 DEF vars, monitorVars, walkVars
    <2>5. CASE WalkOnly
      BY <1>5, <2>5, WalkOnlyFacts DEF TypeInv, monitorVars, vars
    <2> QED BY <1>5, WalkNextCases, <2>1, <2>2, <2>3, <2>4, <2>5
  <1>6. TypeInv /\ [WalkNext]_walkVars => [Spares]_vars
    BY <1>5
  <1> QED BY <1>6, SizeInvariant, PTL DEF WalkSpec, CleanupSparesOthers

\* A rollback that succeeds restores the file the last PrepareRollback of the
\* service saw (Rollback of controller.go), as long as no copy has failed and the
\* names of the services are told apart.
THEOREM RollbackIsRight == WalkSpec => []RollbackRestoresPrepared
  <1>1. NamedInv => RollbackRestoresPrepared
    BY DEF NamedInv, RollbackInv, RollbackRestoresPrepared
  <1> QED BY <1>1, Invariant, PTL

\* What a rollback has restored from is still in the directory after it, for
\* services told apart by their names.
THEOREM RollbackIsRepeatable == WalkSpec => []RollbackCanBeRepeated
  <1>1. NamedInv => RollbackCanBeRepeated
    BY DEF NamedInv, RollbackInv, RollbackCanBeRepeated
  <1> QED BY <1>1, Invariant, PTL

\* CheckDeploymentHealth gives a deployment up only after it has restored what
\* was prepared, for services told apart by their names.
THEOREM DroppedIsRestored == WalkSpec => DroppedOnlyRestored
  <1> DEFINE Restored ==
        \A s \in Services :
          /\ monitored[s] # Unmonitored /\ monitored'[s] = Unmonitored
          /\ ~torn /\ ToldApart
          => StopMonitoring(s) \/ compose' \in prepared[s]
  <1>1. ASSUME TypeInv, NamedInv, [WalkNext]_walkVars PROVE Restored
    <2>1. CASE walk = Off /\ MonitorNext /\ UNCHANGED <<walk, before>>
      BY <1>1, <2>1, MonitorNextDrops
         DEF TypeInv, WalkTypeOK, NamedInv, RollbackInv, ToldApart
    <2>2. CASE UNCHANGED monitored
      BY <2>2
    <2>3. CASE Prepare \/ RollBack
      BY <2>3 DEF Prepare, RollBack
    <2>4. CASE WalkOnly \/ UNCHANGED walkVars
      BY <1>1, <2>4, WalkOnlyFacts DEF TypeInv, monitorVars, walkVars
    <2> QED BY <1>1, WalkNextCases, <2>1, <2>2, <2>3, <2>4
  <1>2. TypeInv /\ NamedInv /\ [WalkNext]_walkVars => [Restored]_monitorVars
    BY <1>1
  <1> QED BY <1>2, Invariant, PTL DEF WalkSpec, DroppedOnlyRestored

\* handleRollingUpdate leaves the compose file and the containers as it found
\* them, for every set of services told apart by their names and every order of
\* the walk.
THEOREM WalkIsHarmless == WalkSpec => []WalkLeavesFile
  <1>1. NamedInv => WalkLeavesFile
    BY DEF NamedInv, WalkInv, WalkLeavesFile
  <1> QED BY <1>1, Invariant, PTL
================================================================================
