---------------------------- MODULE ReplicaDetector ----------------------------
(***************************************************************************)
(* What the detectors of internal/replica find: the services of the compose *)
(* file with a number of replicas (scale_detector.go), the groups of         *)
(* services named alike (named_detector.go), and the containers of both,    *)
(* which are recognised by their names.                                     *)
(*                                                                         *)
(* A name is the sequence of its words and of the separators "-", "_" and   *)
(* "." between them.  A world is what one detector meets, the compose file  *)
(* when it reads it and then what Docker lists, which may be of another     *)
(* moment and hold containers of services the file does not have:           *)
(*   services    which services there are, and whether each has a scale or  *)
(*               a number of replicas above zero                            *)
(*   containers  the containers in the order of the list, each with its     *)
(*               name and the service it is one of                          *)
(* The replicas of a service are a set, each with the detector and the       *)
(* service of the compose file it was found for: nobody looks at their       *)
(* order, which with the second detector is that of a map.                  *)
(***************************************************************************)
EXTENDS Integers, Sequences, FiniteSetsExt

\* The replica of a service without a container.
NotFound == [name |-> <<>>, of |-> <<>>]

-----------------------------------------------------------------------------
(***************************************************************************)
(* Containers.                                                             *)
(***************************************************************************)
\* nameParts[1] = serviceName: what is between the first underscore of the name and
\* the second one, or the end.
BelongsTo(c, s) ==
  LET marks == {k \in DOMAIN c.name : c.name[k] = "_"}
      more  == marks \ {Min(marks)}
  IN  /\ marks # {}
      /\ s = SubSeq(c.name, Min(marks) + 1,
                    IF more = {} THEN Len(c.name) ELSE Min(more) - 1)

\* Their positions in the list.
ContainersOf(world, s) ==
  {k \in DOMAIN world.containers : BelongsTo(world.containers[k], s)}

-----------------------------------------------------------------------------
(***************************************************************************)
(* Names.                                                                  *)
(***************************************************************************)
\* Where a pattern ^(.+?)<separator>(\w+)$ can cut a name: what follows is a word,
\* in which underscores are letters.
Cuts(name, separators) ==
  {k \in 2 .. Len(name) - 1 : /\ name[k] \in separators
                              /\ \A j \in k + 1 .. Len(name) : name[j] \notin {"-", "."}}

\* dashPattern is tried first.
CutsOf(name) ==
  IF Cuts(name, {"-", "_"}) # {} THEN Cuts(name, {"-", "_"}) ELSE Cuts(name, {"."})

\* The shortest base name, as .+? has it.
BaseServiceName(name) ==
  SubSeq(name, 1, Min(CutsOf(name)) - 1)

Members(world, base) ==
  {s \in DOMAIN world.services : CutsOf(s) # {} /\ BaseServiceName(s) = base}

\* findNamedServiceGroups: a service alone is no group.
ServiceGroups(world) ==
  LET bases == {BaseServiceName(s) : s \in {x \in DOMAIN world.services : CutsOf(x) # {}}}
  IN  {b \in bases : Cardinality(Members(world, b)) >= 2}

-----------------------------------------------------------------------------
(***************************************************************************)
(* The detectors.                                                          *)
(***************************************************************************)
Replica(detector, s, c) == [by |-> detector, service |-> s, container |-> c]

\* ScaleBasedDetector: all the containers of each scaled service.
ScaleBased(world) ==
  [s \in {x \in DOMAIN world.services : world.services[x]} |->
     {Replica("scale", s, world.containers[k]) : k \in ContainersOf(world, s)}]

\* The first container of a service, or the placeholder.
FirstContainer(world, s) ==
  IF ContainersOf(world, s) = {} THEN NotFound
  ELSE world.containers[Min(ContainersOf(world, s))]

\* NamedServiceDetector: one replica for each service of a group.
NameBased(world) ==
  [b \in ServiceGroups(world) |->
     {Replica("name", m, FirstContainer(world, m)) : m \in Members(world, b)}]

ReplicasIn(found, s) == IF s \in DOMAIN found THEN found[s] ELSE {}

\* Slip: a service both detectors know has what the last one finds.
Overwritten(a, b, s) == IF s \in DOMAIN b THEN b[s] ELSE a[s]

Appended(a, b, s) == ReplicasIn(a, s) \union ReplicasIn(b, s)

\* The merge of detectReplicas.  The detectors read and list one after the other,
\* so each has met a world of its own.
Detected(seen) ==
  LET scaled == ScaleBased(seen.scale)
      named  == NameBased(seen.name)
  IN  [s \in DOMAIN scaled \union DOMAIN named |-> Appended(scaled, named, s)]
================================================================================
