---------------------------- MODULE UpdateOrderProofs ----------------------------
(***************************************************************************)
(* Proofs about UpdateOrder: for every set of services, dependency graph    *)
(* and list of services, the result lists dependencies first, without      *)
(* repetition, an order is complete, and the verdict on circular           *)
(* dependencies is right.                                                  *)
(***************************************************************************)
EXTENDS UpdateOrder, TLAPS

IInv == TypeOK /\ InductiveInvariant

\* The initial states satisfy the invariant.
LEMMA InitInvariant == Init => IInv
BY GraphsAssumption, InputsAssumption
   DEF Init, IInv, TypeOK, InductiveInvariant, StackIsChain, Dealt,
       ResultIsVisited, InputDealt, DependenciesFirst, NoRepetition,
       OrderIsComplete, MustBeOrdered, VisitedIsOrdered, VerdictIsRight,
       Closed, Circular

\* A service asked for must be ordered, and with a service its dependencies.
LEMMA NeededFacts ==
  ASSUME TypeOK
  PROVE  /\ services \subseteq Needed /\ Needed \subseteq Services
         /\ \A s \in Needed : graph[s] \subseteq Needed
BY DEF TypeOK, Needed, Closed

\* The services that must be ordered are least among the closed sets.
LEMMA NeededIsLeast ==
  ASSUME TypeOK, NEW S \in SUBSET Services, services \subseteq S, Closed(S)
  PROVE  Needed \subseteq S
BY DEF Needed

\* What must be ordered depends on the graph and on the argument alone.
LEMMA NeededStays ==
  ASSUME UNCHANGED <<graph, services>>
  PROVE  /\ Needed' = Needed
         /\ \A S : Circular(S)' <=> Circular(S)
         /\ \A S : Closed(S)' <=> Closed(S)
BY DEF Needed, Closed, Circular

\* A dependency of the innermost call that is marked is a call further down,
\* and the calls from there on are a cycle.
LEMMA MarkMeansCycle ==
  ASSUME IInv, NEW d \in tempMark, stack # <<>>, d \in graph[Top.n]
  PROVE  Circular(Needed)
<1>1. /\ stack \in Seq(Frame) /\ StackIsChain /\ MustBeOrdered
      /\ Len(stack) \in Nat /\ DOMAIN stack = 1 .. Len(stack)
  BY DEF IInv, TypeOK, InductiveInvariant
<1>2. PICK i \in 1 .. Len(stack) : stack[i].n = d
  BY <1>1 DEF StackIsChain
<1>. DEFINE C == {stack[j].n : j \in i .. Len(stack)}
<1>3. C \in SUBSET Needed /\ d \in C
  BY <1>1, <1>2 DEF MustBeOrdered
<1>4. ASSUME NEW s \in C PROVE graph[s] \intersect C # {}
  <2>1. PICK j \in i .. Len(stack) : s = stack[j].n
    OBVIOUS
  <2>2. CASE j = Len(stack)
    <3>1. d \in graph[s]
      BY <2>1, <2>2 DEF Top
    <3>. QED
      BY <1>3, <3>1
  <2>3. CASE j < Len(stack)
    <3>1. j + 1 \in i .. Len(stack) /\ j \in DOMAIN stack
      BY <1>1, <1>2, <2>3
    <3>2. stack[j + 1].n \in graph[s] /\ stack[j + 1].n \in C
      BY <1>1, <2>1, <2>3, <3>1 DEF MustBeOrdered
    <3>. QED
      BY <3>2
  <2>4. j \in Nat /\ j <= Len(stack) /\ Len(stack) \in Nat
    <3>1. Len(stack) \in Nat /\ i \in 1 .. Len(stack)
      BY <1>1
    <3>. QED
      BY ONLY <3>1, j \in i .. Len(stack)
  <2>5. j = Len(stack) \/ j < Len(stack)
    BY ONLY <2>4
  <2>. QED
    BY <2>2, <2>3, <2>5
<1>. QED
  BY <1>3, <1>4 DEF Circular

\* A service whose dependencies have all been visited closes no cycle.
LEMMA NoNewCycle ==
  ASSUME NEW n, n \notin visited, graph[n] \subseteq visited,
         Closed(visited), ~Circular(visited)
  PROVE  Closed(visited \union {n}) /\ ~Circular(visited \union {n})
<1>1. Closed(visited \union {n})
  BY DEF Closed
<1>2. ASSUME NEW C \in SUBSET (visited \union {n}), C # {},
             \A s \in C : graph[s] \intersect C # {}
      PROVE  FALSE
  <2>. DEFINE D == C \ {n}
  <2>1. D \in SUBSET visited
    BY <1>2
  <2>2. \A s \in D : graph[s] \intersect D # {}
    <3>. SUFFICES ASSUME NEW s \in D PROVE graph[s] \intersect D # {}
      OBVIOUS
    <3>1. graph[s] \subseteq visited
      BY <2>1 DEF Closed
    <3>2. PICK d \in graph[s] : d \in C
      BY <1>2
    <3>. QED
      BY <3>1, <3>2
  <2>3. D = {}
    BY <2>1, <2>2 DEF Circular
  <2>4. n \in C /\ C = {n}
    BY <1>2, <2>3
  <2>. QED
    BY <1>2, <2>4
<1>. QED
  BY <1>1, <1>2 DEF Circular

\* A call of visit, from the frames its caller leaves behind, keeps the stack a
\* chain of marked services and loses no dependency.
LEMMA VisitKeeps ==
  ASSUME IInv, outcome = "none", NEW d \in Services,
         NEW frames \in Seq(Frame), Len(frames) = Len(stack),
         \A i \in DOMAIN stack : frames[i].n = stack[i].n,
         \A i \in DOMAIN stack : \A e \in stack[i].deps :
            e \in frames[i].deps \/ (i = Len(stack) /\ e = d),
         \A i \in DOMAIN stack : frames[i].deps \subseteq stack[i].deps,
         d \in Needed, stack = <<>> \/ d \in graph[Top.n],
         input' \subseteq services,
         Visit(d, frames), UNCHANGED <<graph, services, result>>
  PROVE  /\ stack' \in Seq(Frame) /\ tempMark' \in SUBSET (Services \ visited')
         /\ visited' = visited /\ outcome' \in {"none", "circular"}
         /\ StackIsChain' /\ Dealt'
         /\ MustBeOrdered' /\ VisitedIsOrdered' /\ VerdictIsRight'
<1>a. /\ stack \in Seq(Frame) /\ tempMark \in SUBSET (Services \ visited)
      /\ graph \in [Services -> SUBSET Services]
      /\ StackIsChain /\ Dealt
  BY DEF IInv, TypeOK, InductiveInvariant
<1>b. /\ Len(stack) \in Nat /\ DOMAIN stack = 1 .. Len(stack)
      /\ DOMAIN frames = 1 .. Len(stack)
  BY <1>a
<1>c. ASSUME stack' = frames, UNCHANGED <<tempMark, visited>>
      PROVE  StackIsChain'
  BY <1>a, <1>b, <1>c DEF StackIsChain
<1>d. /\ Needed' = Needed /\ MustBeOrdered /\ VisitedIsOrdered
      /\ VisitedIsOrdered' <=> VisitedIsOrdered
      /\ Circular(Needed)' <=> Circular(Needed)
  <2>1. visited' = visited
    BY DEF Visit
  <2>2. MustBeOrdered /\ VisitedIsOrdered
    BY DEF IInv, InductiveInvariant
  <2>. QED
    BY <2>1, <2>2, NeededStays DEF VisitedIsOrdered
<1>e. ASSUME stack' = frames, UNCHANGED visited
      PROVE  MustBeOrdered'
  <2>1. input' \subseteq services' /\ visited' \subseteq Needed'
    BY <1>d, <1>e DEF MustBeOrdered
  <2>2. ASSUME NEW i \in DOMAIN stack
        PROVE  frames[i].n \in Needed /\ frames[i].deps \subseteq graph[frames[i].n]
    <3>1. stack[i].n \in Needed /\ stack[i].deps \subseteq graph[stack[i].n]
      BY <1>d DEF MustBeOrdered
    <3>. QED
      BY <3>1
  <2>3. ASSUME NEW i \in DOMAIN stack, i < Len(stack)
        PROVE  frames[i + 1].n \in graph[frames[i].n]
    <3>1. stack[i + 1].n \in graph[stack[i].n] /\ i + 1 \in DOMAIN stack
      BY <1>b, <1>d, <2>3 DEF MustBeOrdered
    <3>. QED
      BY <3>1
  <2>. QED
    BY <1>b, <1>d, <1>e, <2>1, <2>2, <2>3 DEF MustBeOrdered
<1>f. (outcome' = "circular" => d \in tempMark) => VerdictIsRight'
  <2>1. outcome' # "order"
    BY DEF Visit
  <2>2. d \in tempMark => stack # <<>>
    BY <1>a, <1>b DEF StackIsChain
  <2>3. d \in tempMark => Circular(Needed)
    BY <2>2, MarkMeansCycle
  <2>. QED
    BY <1>d, <2>1, <2>3 DEF VerdictIsRight
<1>1. CASE d \in tempMark
  <2>1. /\ outcome' = "circular" /\ stack' = frames
        /\ UNCHANGED <<tempMark, visited>>
    BY <1>1 DEF Visit
  <2>. QED
    BY <1>1, <1>a, <1>c, <1>d, <1>e, <1>f, <2>1 DEF Dealt
<1>2. CASE d \notin tempMark /\ d \in visited
  <2>1. stack' = frames /\ UNCHANGED <<tempMark, visited, outcome>>
    BY <1>2 DEF Visit
  <2>2. Dealt'
    BY <1>a, <1>b, <1>2, <2>1 DEF Dealt
  <2>. QED
    BY <1>a, <1>c, <1>d, <1>e, <1>f, <2>1, <2>2
<1>3. CASE d \notin tempMark /\ d \notin visited
  <2>1. /\ stack' = Append(frames, [n |-> d, deps |-> graph[d]])
        /\ tempMark' = tempMark \union {d}
        /\ visited' = visited /\ outcome' = outcome /\ graph' = graph
    BY <1>3 DEF Visit
  <2>2. [n |-> d, deps |-> graph[d]] \in Frame
    BY <1>a DEF Frame
  <2>3. /\ stack' \in Seq(Frame) /\ Len(stack') = Len(stack) + 1
        /\ \A i \in 1 .. Len(stack) : stack'[i] = frames[i]
        /\ stack'[Len(stack) + 1] = [n |-> d, deps |-> graph[d]]
    BY <1>a, <1>b, <2>1, <2>2
  <2>4. DOMAIN stack' = 1 .. Len(stack) + 1
    BY <1>b, <2>3
  <2>5. StackIsChain'
    <3>1. \A i \in DOMAIN stack' : stack'[i].n \in tempMark' \ visited'
      BY <1>a, <1>b, <1>3, <2>1, <2>3, <2>4 DEF StackIsChain
    <3>2. \A i, j \in DOMAIN stack' : stack'[i].n = stack'[j].n => i = j
      BY <1>a, <1>b, <1>3, <2>1, <2>3, <2>4 DEF StackIsChain
    <3>3. \A s \in tempMark' : \E i \in DOMAIN stack' : stack'[i].n = s
      BY <1>a, <1>b, <1>3, <2>1, <2>3, <2>4 DEF StackIsChain
    <3>. QED
      BY <3>1, <3>2, <3>3 DEF StackIsChain
  <2>6. Dealt'
    BY <1>a, <1>b, <2>1, <2>3, <2>4 DEF Dealt
  <2>7. MustBeOrdered'
    <3>1. input' \subseteq services' /\ visited' \subseteq Needed'
      BY <1>d, <2>1 DEF MustBeOrdered
    <3>2. ASSUME NEW i \in 1 .. Len(stack)
          PROVE  /\ stack'[i].n \in Needed
                 /\ stack'[i].deps \subseteq graph[stack'[i].n]
      <4>1. stack[i].n \in Needed /\ stack[i].deps \subseteq graph[stack[i].n]
        BY <1>b, <1>d DEF MustBeOrdered
      <4>. QED
        BY <1>b, <2>3, <4>1
    <3>3. ASSUME NEW i \in 1 .. Len(stack)
          PROVE  stack'[i + 1].n \in graph[stack'[i].n]
      <4>1. stack'[i].n = stack[i].n
        BY <1>b, <2>3
      <4>2. CASE i = Len(stack)
        BY <1>b, <2>3, <4>1, <4>2 DEF Top
      <4>3. CASE i < Len(stack)
        <5>1. stack[i + 1].n \in graph[stack[i].n] /\ i + 1 \in DOMAIN stack
          BY <1>b, <1>d, <4>3 DEF MustBeOrdered
        <5>. QED
          BY <1>b, <2>3, <4>1, <5>1
      <4>. QED
        BY <1>b, <4>2, <4>3
    <3>4. /\ stack'[Len(stack) + 1].n \in Needed
          /\ stack'[Len(stack) + 1].deps \subseteq graph[stack'[Len(stack) + 1].n]
      BY <2>3
    <3>. QED
      BY <1>b, <1>d, <2>1, <2>3, <2>4, <3>1, <3>2, <3>3, <3>4 DEF MustBeOrdered
  <2>. QED
    BY <1>a, <1>d, <1>f, <1>3, <2>1, <2>3, <2>5, <2>6, <2>7
<1>. QED
  BY <1>1, <1>2, <1>3

\* Every step of the search keeps the invariant.
LEMMA StepInvariant == IInv /\ [Next]_vars => IInv'
<1>. SUFFICES ASSUME IInv, [Next]_vars PROVE IInv'
  OBVIOUS
<1>. USE DEF IInv, TypeOK, InductiveInvariant
<1>1. CASE VisitInput
  <2>1. PICK s \in input : input' = input \ {s} /\ Visit(s, stack)
    BY <1>1 DEF VisitInput, Without
  <2>2. /\ outcome = "none" /\ stack = <<>>
        /\ UNCHANGED <<graph, services, result>>
    BY <1>1 DEF VisitInput
  <2>3. /\ stack' \in Seq(Frame) /\ tempMark' \in SUBSET (Services \ visited')
        /\ visited' = visited /\ outcome' \in {"none", "circular"}
        /\ StackIsChain' /\ Dealt'
        /\ MustBeOrdered' /\ VisitedIsOrdered' /\ VerdictIsRight'
    <3>1. s \in Services /\ s \in Needed /\ input' \subseteq services
      BY <2>1, NeededFacts DEF MustBeOrdered
    <3>2. /\ stack \in Seq(Frame) /\ IInv
          /\ \A i \in DOMAIN stack : stack[i].n = stack[i].n
          /\ \A i \in DOMAIN stack : stack[i].deps \subseteq stack[i].deps
          /\ \A i \in DOMAIN stack : \A e \in stack[i].deps :
                e \in stack[i].deps \/ (i = Len(stack) /\ e = s)
      OBVIOUS
    <3>. QED
      BY ONLY <2>1, <2>2, <3>1, <3>2, VisitKeeps
  <2>4. TypeOK'
    BY <2>1, <2>2, <2>3
  <2>5. ResultIsVisited' /\ DependenciesFirst' /\ NoRepetition' /\ OrderIsComplete'
    BY <2>2, <2>3 DEF ResultIsVisited, DependenciesFirst, NoRepetition,
       OrderIsComplete
  <2>6. InputDealt'
    <3>1. \/ outcome' = "circular" \/ s \in visited'
          \/ stack' # <<>> /\ s = stack'[1].n
      BY <2>1, <2>2 DEF Visit
    <3>. QED
      BY <2>1, <2>2, <2>3, <3>1 DEF InputDealt
  <2>. QED
    BY <2>3, <2>4, <2>5, <2>6
<1>2. CASE VisitDependency
  <2>1. PICK d \in Top.deps :
          Visit(d, [stack EXCEPT ![Len(stack)].deps = @ \ {d}])
    BY <1>2 DEF VisitDependency, Without
  <2>2. /\ outcome = "none" /\ stack # <<>>
        /\ UNCHANGED <<graph, services, input, result>>
    BY <1>2 DEF VisitDependency
  <2>. DEFINE frames == [stack EXCEPT ![Len(stack)].deps = @ \ {d}]
  <2>3. Len(stack) \in DOMAIN stack /\ Top \in Frame /\ d \in Services
    <3>1. stack \in Seq(Frame) /\ Len(stack) \in DOMAIN stack
      BY <2>2
    <3>2. Top \in Frame
      BY <3>1 DEF Top
    <3>. QED
      BY <3>1, <3>2 DEF Frame
  <2>4. /\ frames \in Seq(Frame) /\ Len(frames) = Len(stack)
        /\ \A i \in DOMAIN stack : frames[i].n = stack[i].n
        /\ \A i \in DOMAIN stack : \A e \in stack[i].deps :
              e \in frames[i].deps \/ (i = Len(stack) /\ e = d)
        /\ \A i \in DOMAIN stack : frames[i].deps \subseteq stack[i].deps
    BY <2>3 DEF Frame, Top
  <2>5. /\ stack' \in Seq(Frame) /\ tempMark' \in SUBSET (Services \ visited')
        /\ visited' = visited /\ outcome' \in {"none", "circular"}
        /\ StackIsChain' /\ Dealt'
        /\ MustBeOrdered' /\ VisitedIsOrdered' /\ VerdictIsRight'
    <3>1. Visit(d, frames)
      BY <2>1
    <3>. HIDE DEF frames
    <3>2. /\ d \in graph[Top.n] /\ Top.n \in Needed /\ input' \subseteq services
      BY <2>1, <2>2, <2>3 DEF MustBeOrdered, Top
    <3>3. d \in Needed /\ IInv
      BY <3>2, NeededFacts
    <3>. QED
      BY ONLY <2>2, <2>3, <2>4, <3>1, <3>2, <3>3, VisitKeeps
  <2>6. TypeOK'
    BY <2>2, <2>5
  <2>7. ResultIsVisited' /\ DependenciesFirst' /\ NoRepetition' /\ OrderIsComplete'
    BY <2>2, <2>5 DEF ResultIsVisited, DependenciesFirst, NoRepetition,
       OrderIsComplete
  <2>8. InputDealt'
    <3>1. stack' # <<>> /\ stack'[1].n = stack[1].n
      <4>1. stack' = frames
            \/ \E f \in Frame : stack' = Append(frames, f)
        BY <2>1, <2>3 DEF Visit, Frame
      <4>2. 1 \in DOMAIN stack /\ frames[1].n = stack[1].n /\ Len(frames) >= 1
        BY <2>3, <2>4
      <4>. HIDE DEF frames
      <4>. QED
        BY <2>4, <4>1, <4>2
    <3>. QED
      BY <2>2, <2>5, <3>1 DEF InputDealt
  <2>. QED
    BY <2>5, <2>6, <2>7, <2>8
<1>3. CASE Leave
  <2>. DEFINE n == Top.n
  <2>1. /\ outcome = "none" /\ stack # <<>> /\ Top.deps = {}
        /\ tempMark' = tempMark \ {n} /\ visited' = visited \union {n}
        /\ result' = Append(result, n)
        /\ stack' = SubSeq(stack, 1, Len(stack) - 1)
        /\ UNCHANGED <<graph, services, input, outcome>>
    BY <1>3 DEF Leave, Done, Unmark, Remember
  <2>2. /\ Len(stack) \in DOMAIN stack /\ n \in Services
        /\ n = stack[Len(stack)].n /\ stack[Len(stack)].deps = {}
    <3>1. stack \in Seq(Frame) /\ Len(stack) \in DOMAIN stack
      BY <2>1
    <3>2. Top \in Frame /\ Top = stack[Len(stack)]
      BY <3>1 DEF Top
    <3>. QED
      BY <2>1, <3>1, <3>2 DEF Frame
  <2>3. /\ stack' \in Seq(Frame) /\ Len(stack') = Len(stack) - 1
        /\ \A i \in DOMAIN stack' : i \in DOMAIN stack /\ stack'[i] = stack[i]
        /\ \A i \in DOMAIN stack : i # Len(stack) => i \in DOMAIN stack'
    <3>1. stack \in Seq(Frame) /\ Len(stack) \in Nat /\ Len(stack) >= 1
          /\ DOMAIN stack = 1 .. Len(stack)
      BY <2>2
    <3>. QED
      BY <2>1, <3>1
  <2>4. /\ result' \in Seq(Services) /\ Len(result') = Len(result) + 1
        /\ \A i \in 1 .. Len(result) : result'[i] = result[i]
        /\ result'[Len(result) + 1] = n
    BY <2>1, <2>2
  <2>. HIDE DEF n
  <2>5. n \notin visited
    BY <2>2 DEF StackIsChain
  <2>6. graph[n] \subseteq visited
    <3>1. Dealt /\ Len(stack) \in Nat
      BY <2>2
    <3>. SUFFICES ASSUME NEW d \in graph[n]
                  PROVE  d \in visited
      OBVIOUS
    <3>2. \/ d \in stack[Len(stack)].deps \/ d \in visited
          \/ Len(stack) < Len(stack) \/ outcome = "circular"
      BY ONLY <2>2, <3>1, d \in graph[n] DEF Dealt
    <3>3. stack[Len(stack)].deps = {} /\ outcome # "circular"
      BY ONLY <2>1, <2>2
    <3>. QED
      BY ONLY <3>1, <3>2, <3>3
  <2>7. TypeOK'
    BY <2>1, <2>2, <2>3, <2>4
  <2>8. StackIsChain'
    <3>1. StackIsChain
      OBVIOUS
    <3>2. \A i \in DOMAIN stack' : i # Len(stack) /\ stack'[i].n # n
      BY ONLY <2>2, <2>3, <3>1 DEF StackIsChain
    <3>3. \A i \in DOMAIN stack' : stack'[i].n \in tempMark' \ visited'
      BY ONLY <2>1, <2>3, <3>1, <3>2 DEF StackIsChain
    <3>4. \A i, j \in DOMAIN stack' : stack'[i].n = stack'[j].n => i = j
      BY ONLY <2>3, <3>1 DEF StackIsChain
    <3>5. \A s \in tempMark' : \E i \in DOMAIN stack' : stack'[i].n = s
      <4>. SUFFICES ASSUME NEW s \in tempMark \ {n}
                    PROVE  \E i \in DOMAIN stack' : stack'[i].n = s
        BY <2>1
      <4>1. PICK i \in DOMAIN stack : stack[i].n = s
        BY <3>1 DEF StackIsChain
      <4>2. i \in DOMAIN stack' /\ stack'[i] = stack[i]
        BY <2>2, <2>3, <4>1
      <4>. QED
        BY <4>1, <4>2
    <3>. QED
      BY <3>3, <3>4, <3>5 DEF StackIsChain
  <2>9. Dealt'
    BY <2>1, <2>2, <2>3 DEF Dealt
  <2>10. ResultIsVisited'
    <3>1. ResultIsVisited /\ result \in Seq(Services)
      OBVIOUS
    <3>2. DOMAIN result = 1 .. Len(result) /\ Len(result) \in Nat
          /\ DOMAIN result' = 1 .. Len(result) + 1
      BY ONLY <2>4, <3>1
    <3>. QED
      BY ONLY <2>1, <2>4, <3>1, <3>2 DEF ResultIsVisited
  <2>11. InputDealt'
    BY <2>1, <2>2, <2>3 DEF InputDealt
  <2>12. DependenciesFirst'
    <3>. SUFFICES ASSUME NEW i \in DOMAIN result', NEW d \in graph[result'[i]]
                  PROVE  \E j \in 1 .. i - 1 : result'[j] = d
      BY <2>1 DEF DependenciesFirst
    <3>a. /\ DependenciesFirst /\ ResultIsVisited /\ result \in Seq(Services)
          /\ graph' = graph
      BY <2>1
    <3>1. CASE i \in 1 .. Len(result)
      BY ONLY <2>4, <3>a, <3>1, i \in DOMAIN result', d \in graph[result'[i]]
         DEF DependenciesFirst
    <3>2. CASE i = Len(result) + 1
      BY ONLY <2>4, <2>6, <3>a, <3>2, d \in graph[result'[i]] DEF ResultIsVisited
    <3>. QED
      BY <2>4, <3>1, <3>2
  <2>13. NoRepetition'
    BY <2>4, <2>5 DEF NoRepetition, ResultIsVisited
  <2>14. OrderIsComplete'
    BY <2>1 DEF OrderIsComplete
  <2>15. MustBeOrdered'
    <3>1. Needed' = Needed /\ MustBeOrdered
      BY <2>1, NeededStays
    <3>2. n \in Needed
      BY <2>2, <3>1 DEF MustBeOrdered
    <3>3. \A i \in DOMAIN stack' : i < Len(stack') =>
             i + 1 \in DOMAIN stack' /\ i < Len(stack)
      BY <2>2, <2>3
    <3>. QED
      BY ONLY <2>1, <2>3, <3>1, <3>2, <3>3 DEF MustBeOrdered
  <2>16. VisitedIsOrdered'
    BY <2>1, <2>5, <2>6, NoNewCycle, NeededStays DEF VisitedIsOrdered
  <2>17. VerdictIsRight'
    BY <2>1 DEF VerdictIsRight
  <2>. QED
    BY <2>7, <2>8, <2>9, <2>10, <2>11, <2>12, <2>13, <2>14, <2>15, <2>16, <2>17
<1>4. CASE Finish
  <2>1. /\ outcome = "none" /\ stack = <<>> /\ input = {} /\ outcome' = "order"
        /\ UNCHANGED <<graph, services, input, stack, tempMark, visited, result>>
    BY <1>4 DEF Finish, AllVisited
  <2>2. /\ Needed' = Needed
        /\ Circular(visited)' <=> Circular(visited)
        /\ VisitedIsOrdered' <=> VisitedIsOrdered
    BY <2>1, NeededStays DEF VisitedIsOrdered
  <2>3. /\ TypeOK' /\ StackIsChain' /\ Dealt' /\ ResultIsVisited' /\ InputDealt'
        /\ DependenciesFirst' /\ NoRepetition' /\ OrderIsComplete'
    BY <2>1 DEF StackIsChain, Dealt, ResultIsVisited,
       InputDealt, DependenciesFirst, NoRepetition, OrderIsComplete
  <2>4. MustBeOrdered' /\ VisitedIsOrdered'
    BY <2>1, <2>2 DEF MustBeOrdered
  <2>5. VerdictIsRight'
    <3>1. visited = Needed
      <4>1. services \subseteq visited /\ Closed(visited)
        BY <2>1 DEF InputDealt, VisitedIsOrdered
      <4>2. Needed \subseteq visited
        BY <4>1, NeededIsLeast
      <4>. QED
        BY <4>2 DEF MustBeOrdered
    <3>2. ~Circular(Needed)'
      BY <2>1, <2>2, <3>1, NeededStays DEF VisitedIsOrdered
    <3>. QED
      BY <2>1, <2>2, <3>1, <3>2 DEF VerdictIsRight
  <2>. QED
    BY <2>3, <2>4, <2>5
<1>5. CASE UNCHANGED vars
  <2>1. UNCHANGED <<graph, services, input, stack, tempMark, visited, result, outcome>>
    BY <1>5 DEF vars
  <2>2. /\ TypeOK' /\ StackIsChain' /\ Dealt' /\ ResultIsVisited' /\ InputDealt'
        /\ DependenciesFirst' /\ NoRepetition' /\ OrderIsComplete'
    BY <2>1 DEF StackIsChain, Dealt, ResultIsVisited,
       InputDealt, DependenciesFirst, NoRepetition, OrderIsComplete
  <2>3. MustBeOrdered' /\ VisitedIsOrdered' /\ VerdictIsRight'
    BY <2>1, NeededStays DEF MustBeOrdered, VisitedIsOrdered, VerdictIsRight
  <2>. QED
    BY <2>2, <2>3
<1>. QED
  BY <1>1, <1>2, <1>3, <1>4, <1>5 DEF Next, Step, Returned

-----------------------------------------------------------------------------
\* Every reachable state of the search satisfies the invariant.
THEOREM Invariant == Spec => []IInv
BY InitInvariant, StepInvariant, PTL DEF Spec

\* The variables of the search keep their types.
THEOREM TypeCorrect == Spec => []TypeOK
<1>1. IInv => TypeOK
  BY DEF IInv
<1>. QED
  BY <1>1, Invariant, PTL

\* On every dependency graph, what has been put in the order stands after
\* everything it depends on.
THEOREM OrderIsTopological == Spec => []DependenciesFirst
<1>1. IInv => DependenciesFirst
  BY DEF IInv, InductiveInvariant
<1>. QED
  BY <1>1, Invariant, PTL

\* On every dependency graph, no service is put in the order twice.
THEOREM OrderHasNoRepetition == Spec => []NoRepetition
<1>1. IInv => NoRepetition
  BY DEF IInv, InductiveInvariant
<1>. QED
  BY <1>1, Invariant, PTL

\* An order that is returned holds every service that was asked for.
THEOREM NothingIsLeftOut == Spec => []OrderIsComplete
<1>1. IInv => OrderIsComplete
  BY DEF IInv, InductiveInvariant
<1>. QED
  BY <1>1, Invariant, PTL

\* On every dependency graph, GetUpdateOrder (dependency.go) reports a circular
\* dependency exactly when the services it must order have one, and an order
\* holds those services and no others.
THEOREM CyclesAreFound == Spec => []VerdictIsRight
<1>1. IInv => VerdictIsRight
  BY DEF IInv, InductiveInvariant
<1>. QED
  BY <1>1, Invariant, PTL
================================================================================
