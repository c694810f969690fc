------------------------------- MODULE UpdateOrder -------------------------------
(***************************************************************************)
(* GetUpdateOrder of the dependency manager                                *)
(* (internal/dependency/dependency.go): the depth-first search that orders  *)
(* services so that each comes after the services it depends on, and fails *)
(* on a circular dependency.  The recursion of visit is an explicit stack.  *)
(*                                                                         *)
(* Services are numbers in the order sort.Strings gives their names.  A     *)
(* dependency the compose file does not declare is a service without       *)
(* dependencies, as the nil slice of the map lookup makes it.              *)
(***************************************************************************)
EXTENDS Naturals, Sequences, FiniteSets

CONSTANTS
  Services,  \* the services, declared or only depended on
  Graphs,    \* the dependency graphs a compose file may hold
  Inputs     \* the lists of services an order may be asked for

ASSUME ServicesAssumption == Services \subseteq Nat
ASSUME GraphsAssumption   == Graphs \subseteq [Services -> SUBSET Services]
ASSUME InputsAssumption   == Inputs \subseteq SUBSET Services

VARIABLES
  graph,     \* dm.graph.Services
  services,  \* the argument
  input,     \* what is left of its sorted copy
  stack,     \* the calls of visit under way: [n, deps], deps those left
  tempMark,  \* the services marked true in tempMark
  visited,   \* those marked true in visited (and in added)
  result,
  outcome    \* "none", "order" or "circular"

vars == <<graph, services, input, stack, tempMark, visited, result, outcome>>

Frame == [n: Services, deps: SUBSET Services]

TypeOK ==
  /\ graph \in [Services -> SUBSET Services]
  /\ services \in SUBSET Services /\ input \in SUBSET Services
  /\ stack \in Seq(Frame)
  /\ visited \in SUBSET Services /\ tempMark \in SUBSET (Services \ visited)
  /\ result \in Seq(Services)
  /\ outcome \in {"none", "order", "circular"}

Init ==
  /\ graph \in Graphs
  /\ services \in Inputs /\ input = services
  /\ stack = <<>> /\ tempMark = {} /\ visited = {} /\ result = <<>>
  /\ outcome = "none"

Top == stack[Len(stack)]

IsFirst(d, S) == d \in S /\ \A e \in S : d <= e

\* Slip: a loop that does not get past the service at hand.
StaysAt(S, d) == S

Without(S, d) == S \ {d}

\* visit(d), called with the caller's frames in "frames".
Visit(d, frames) ==
  \/ /\ d \in tempMark
     /\ outcome' = "circular" /\ stack' = frames
     /\ UNCHANGED <<tempMark, visited>>
  \/ /\ d \notin tempMark /\ d \in visited
     /\ stack' = frames
     /\ UNCHANGED <<tempMark, visited, outcome>>
  \/ /\ d \notin tempMark /\ d \notin visited
     /\ stack' = Append(frames, [n |-> d, deps |-> graph[d]])
     /\ tempMark' = tempMark \union {d}
     /\ UNCHANGED <<visited, outcome>>

VisitInput ==
  /\ outcome = "none" /\ stack = <<>>
  /\ \E s \in input :
       /\ IsFirst(s, input)
       /\ input' = Without(input, s)
       /\ Visit(s, stack)
  /\ UNCHANGED <<graph, services, result>>

VisitDependency ==
  /\ outcome = "none" /\ stack # <<>>
  /\ \E d \in Top.deps :
       /\ IsFirst(d, Top.deps)
       /\ Visit(d, [stack EXCEPT ![Len(stack)].deps = Without(@, d)])
  /\ UNCHANGED <<graph, services, input, result>>

\* Slip: a call does not wait for the dependencies it has left.
NotWaiting(call) == TRUE

Done(call) == call.deps = {}

\* Slip: the temporary mark stays.
KeepMark(n) == UNCHANGED tempMark

Unmark(n) == tempMark' = tempMark \ {n}

\* Slip: the service does not count as visited.
Forget(n) == UNCHANGED visited

Remember(n) == visited' = visited \union {n}

\* The dependencies of the innermost call are done.
Leave ==
  /\ outcome = "none" /\ stack # <<>> /\ Done(Top)
  /\ Unmark(Top.n) /\ Remember(Top.n)
  /\ result' = Append(result, Top.n)
  /\ stack' = SubSeq(stack, 1, Len(stack) - 1)
  /\ UNCHANGED <<graph, services, input, outcome>>

AllVisited == input = {}

Finish ==
  /\ outcome = "none" /\ stack = <<>> /\ AllVisited
  /\ outcome' = "order"
  /\ UNCHANGED <<graph, services, input, stack, tempMark, visited, result>>

Returned == outcome # "none" /\ UNCHANGED vars

Step == VisitInput \/ VisitDependency \/ Leave \/ Finish
Next == Step \/ Returned
Spec == Init /\ [][Next]_vars /\ WF_vars(Step)

-----------------------------------------------------------------------------
(***************************************************************************)
(* Properties                                                              *)
(***************************************************************************)
\* A service comes after everything it depends on: at every moment, the
\* dependencies of a service in the result stand before it.
DependenciesFirst ==
  \A i \in DOMAIN result : \A d \in graph[result[i]] :
    \E j \in 1 .. i - 1 : result[j] = d

\* No service is updated twice.
NoRepetition ==
  \A i, j \in DOMAIN result : result[i] = result[j] => i = j

\* An order holds the services that were asked for.
OrderIsComplete ==
  outcome = "order" => services \subseteq {result[i] : i \in DOMAIN result}

\* A set of services that holds all they depend on.
Closed(S) == \A s \in S : graph[s] \subseteq S

\* The services an order must hold: those in every closed set with the services
\* that were asked for.
Needed ==
  {s \in Services : \A S \in SUBSET Services :
                      services \subseteq S /\ Closed(S) => s \in S}

\* In some of the services one can go from dependency to dependency for ever.
Circular(S) ==
  \E C \in SUBSET S : C # {} /\ \A s \in C : graph[s] \intersect C # {}

\* The verdict is right: the search reports a circular dependency exactly when
\* there is one among the services that it must order, and an order holds
\* nothing but what it must.
VerdictIsRight ==
  /\ outcome = "circular" => Circular(Needed)
  /\ outcome = "order" => ~Circular(Needed) /\ visited = Needed

\* GetUpdateOrder returns, on a circular graph, too.
Terminates == <>(outcome # "none")

-----------------------------------------------------------------------------
\* The inductive invariant: the stack is a chain of dependencies, its services
\* are the temporarily marked ones, and what a call has dealt with is visited or
\* is the call right above it.
StackIsChain ==
  /\ \A i \in DOMAIN stack : stack[i].n \in tempMark \ visited
  /\ \A i, j \in DOMAIN stack : stack[i].n = stack[j].n => i = j
  /\ \A s \in tempMark : \E i \in DOMAIN stack : stack[i].n = s

Dealt ==
  \A i \in DOMAIN stack : \A d \in graph[stack[i].n] :
    \/ d \in stack[i].deps \/ d \in visited
    \/ i < Len(stack) /\ d = stack[i + 1].n
    \/ outcome = "circular"

ResultIsVisited ==
  /\ \A i \in DOMAIN result : result[i] \in visited
  /\ \A s \in visited : \E i \in DOMAIN result : result[i] = s

InputDealt ==
  \A s \in services :
    \/ s \in input \/ s \in visited \/ outcome = "circular"
    \/ stack # <<>> /\ s = stack[1].n

\* What has been visited, or is under way, must be ordered; each call on the
\* stack was made for a dependency of the call under it.
MustBeOrdered ==
  /\ input \subseteq services /\ visited \subseteq Needed
  /\ \A i \in DOMAIN stack :
       stack[i].n \in Needed /\ stack[i].deps \subseteq graph[stack[i].n]
  /\ \A i \in DOMAIN stack :
       i < Len(stack) => stack[i + 1].n \in graph[stack[i].n]

\* What has been visited holds its dependencies and no cycle.
VisitedIsOrdered == Closed(visited) /\ ~Circular(visited)

InductiveInvariant ==
  /\ StackIsChain /\ Dealt /\ ResultIsVisited /\ InputDealt
  /\ DependenciesFirst /\ NoRepetition /\ OrderIsComplete
  /\ MustBeOrdered /\ VisitedIsOrdered /\ VerdictIsRight
================================================================================
