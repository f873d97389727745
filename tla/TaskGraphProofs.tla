--------------------------- MODULE TaskGraphProofs --------------------------
(***************************************************************************)
(* Theorems about TaskGraphAlgorithms, for every finite set of nodes and   *)
(* every set of dependency functions: the loops of validate() and of       *)
(* skip_unreachable() compute what TaskGraph defines without loops.        *)
(***************************************************************************)
EXTENDS TaskGraphAlgorithms, FiniteSetTheorems, TLAPS

-----------------------------------------------------------------------------
(***************************************************************************)
(* The sort of validate().  A node is done when its indegree has fallen to *)
(* zero and it has left the queue; visited counts these nodes, and every   *)
(* indegree counts the dependencies that are not done yet.  What is done   *)
(* contains all its dependencies and no cycle.                             *)
(***************************************************************************)
Done == {n \in Nodes : indegree[n] = 0} \ queue

NoCycleIn(D) == \A S \in SUBSET D : S # {} => \E n \in S : deps[n] \cap S = {}

Sorting ==
    pc = "sort" =>
        /\ KnownDeps(deps)
        /\ \A n \in queue : indegree[n] = 0
        /\ \A n \in Nodes : indegree[n] = Cardinality(deps[n] \ Done)
        /\ visited = Cardinality(Done)
        /\ NoCycleIn(Done)

(***************************************************************************)
(* The search of skip_unreachable().  Every skipped node has to be         *)
(* skipped, and no pending node depends on a failed or skipped node whose  *)
(* dependents have been looked at, that is, one outside the frontier.      *)
(***************************************************************************)
Skipped == {n \in Nodes : status[n] = "SKIPPED"}

Fresh ==
    pc \in {"check", "sort"} =>
        /\ failed = {} /\ frontier = {} /\ before = status /\ Skipped = {}
        /\ pc = "check" => queue = {} /\ visited = 0

Searching ==
    /\ \A n \in Nodes : status[n] = "PENDING" => before[n] = "PENDING"
    /\ \A n \in Nodes : before[n] = "PENDING" => status[n] \in {"PENDING", "SKIPPED"}
    /\ \A n \in failed : status[n] = "FAILED"
    /\ frontier \subseteq failed \cup Skipped
    /\ pc # "search" => frontier = {}
    /\ pc = "search" => \A n \in seen : status[n] # "PENDING"
    /\ Skipped \subseteq SkipUnreachable(deps, before, failed)
    /\ \A n \in Nodes : status[n] = "PENDING" =>
          deps[n] \cap ((failed \cup Skipped) \ frontier) = {}

IInv ==
    /\ TypeOK
    /\ Sorting
    /\ Fresh
    /\ Searching
    /\ ValidateDecides

-----------------------------------------------------------------------------
(***************************************************************************)
(* The initial states and the steps of validate().                         *)
(***************************************************************************)
LEMMA InitInv == Init => IInv
<1> SUFFICES ASSUME Init PROVE IInv
  OBVIOUS
<1>1. TypeOK
  BY GraphsAssumption DEF Init, TypeOK
<1>2. Sorting /\ Fresh /\ ValidateDecides
  BY DEF Init, Sorting, Fresh, Skipped, ValidateDecides
<1>3. Searching
  BY DEF Init, Searching, Skipped
<1> QED BY <1>1, <1>2, <1>3 DEF IInv

\* A set of known dependencies is finite, and so is what is left of it.
LEMMA FiniteDeps ==
    ASSUME KnownDeps(deps), NEW n \in Nodes, NEW D
    PROVE  /\ IsFiniteSet(deps[n] \ D) /\ Cardinality(deps[n] \ D) \in Nat
           /\ Cardinality(deps[n] \ D) = 0 <=> deps[n] \subseteq D
<1>1. deps[n] \ D \in SUBSET Nodes
  BY DEF KnownDeps
<1>2. IsFiniteSet(deps[n] \ D)
  BY <1>1, NodesAssumption, FS_Subset
<1>3. Cardinality(deps[n] \ D) \in Nat
  BY <1>2, FS_CardinalityType
<1>4. Cardinality(deps[n] \ D) = 0 <=> deps[n] \ D = {}
  BY <1>2, FS_EmptySet
<1> QED BY <1>2, <1>3, <1>4

\* The search variables are untouched by validate().
LEMMA SearchingKept ==
    ASSUME IInv, UNCHANGED <<deps, skipVars>>, pc # "search", pc' # "search"
    PROVE  Searching'
BY DEF IInv, Searching, Skipped, skipVars, SkipUnreachable, SkipClosed, PendingNodes

LEMMA CheckDepsInv == IInv /\ CheckDeps => IInv'
<1> SUFFICES ASSUME IInv, CheckDeps PROVE IInv'
  OBVIOUS
<1>1. /\ TypeOK /\ pc = "check" /\ queue = {} /\ visited = 0
      /\ UNCHANGED <<deps, visited, status, before, failed, frontier, seen>>
  BY DEF IInv, Fresh, CheckDeps, skipVars
<1>2. pc' \in {"sort", "rejected"} /\ Searching'
  BY SearchingKept, <1>1 DEF CheckDeps, skipVars
<1>3. CASE ~KnownDeps(deps)
  <2>1. pc' = "rejected" /\ UNCHANGED <<indegree, queue>>
    BY <1>3 DEF CheckDeps
  <2>2. ~Valid(deps)'
    BY <1>1, <1>3 DEF Valid, KnownDeps
  <2>3. TypeOK' /\ Sorting' /\ Fresh' /\ ValidateDecides'
    BY <1>1, <2>1, <2>2 DEF TypeOK, Sorting, Fresh, ValidateDecides
  <2> QED BY <1>2, <2>3 DEF IInv
<1>4. CASE KnownDeps(deps)
  <2>1. /\ pc' = "sort"
        /\ indegree' = [n \in Nodes |-> Cardinality(deps[n])]
        /\ queue' = {n \in Nodes : deps[n] = {}}
    BY <1>4 DEF CheckDeps
  <2>2. \A n \in Nodes : /\ indegree'[n] \in Nat
                         /\ indegree'[n] = Cardinality(deps[n] \ {})
                         /\ indegree'[n] = 0 <=> n \in queue'
    <3> TAKE n \in Nodes
    <3>1. deps[n] \ {} = deps[n]
      OBVIOUS
    <3>2. /\ Cardinality(deps[n] \ {}) \in Nat
          /\ Cardinality(deps[n] \ {}) = 0 <=> deps[n] \subseteq {}
      BY <1>4, FiniteDeps
    <3> QED BY <2>1, <3>1, <3>2
  <2>3. Done' = {}
    BY <2>2 DEF Done
  <2>4. visited' = Cardinality(Done')
    BY <1>1, <2>3, FS_EmptySet
  <2>5. NoCycleIn(Done)'
    BY <2>3 DEF NoCycleIn
  <2>6. Sorting'
    <3>1. KnownDeps(deps)'
      BY <1>1, <1>4 DEF KnownDeps
    <3>2. \A n \in Nodes : indegree'[n] = Cardinality(deps'[n] \ Done')
      BY <1>1, <2>2, <2>3
    <3>3. \A n \in queue' : indegree'[n] = 0
      BY <2>1, <2>2
    <3> QED BY <2>4, <2>5, <3>1, <3>2, <3>3 DEF Sorting
  <2>7. indegree' \in [Nodes -> Int]
    BY <2>1, <2>2
  <2>8. TypeOK' /\ Fresh' /\ ValidateDecides'
    BY <1>1, <2>1, <2>7 DEF IInv, TypeOK, Fresh, Skipped, ValidateDecides
  <2> QED BY <1>2, <2>6, <2>8 DEF IInv
<1> QED BY <1>3, <1>4

\* Taking a node off the queue makes it done, and nothing else.
LEMMA SortStepInv == IInv /\ SortStep => IInv'
<1> SUFFICES ASSUME IInv, SortStep PROVE IInv'
  OBVIOUS
<1>1. /\ TypeOK /\ pc = "sort" /\ pc' = "sort" /\ KnownDeps(deps)
      /\ \A n \in queue : indegree[n] = 0
      /\ \A n \in Nodes : indegree[n] = Cardinality(deps[n] \ Done)
      /\ visited = Cardinality(Done) /\ NoCycleIn(Done)
      /\ UNCHANGED <<deps, status, before, failed, frontier, seen>>
  BY DEF IInv, Sorting, SortStep, skipVars
<1>2. PICK current \in queue :
        /\ visited' = visited + 1
        /\ indegree' = [n \in Nodes |-> IF current \in deps[n] THEN indegree[n] - 1
                                        ELSE indegree[n]]
        /\ queue' = (queue \ {current})
                \cup {n \in Nodes : current \in deps[n] /\ indegree'[n] = 0}
  BY DEF SortStep
<1>3. current \in Nodes /\ indegree[current] = 0 /\ current \notin Done
  BY <1>1 DEF TypeOK, Done
<1>4. \A n \in Nodes : /\ indegree[n] \in Nat
                       /\ indegree[n] = 0 <=> deps[n] \subseteq Done
  <2> TAKE n \in Nodes
  <2>1. /\ Cardinality(deps[n] \ Done) \in Nat
        /\ Cardinality(deps[n] \ Done) = 0 <=> deps[n] \subseteq Done
    BY <1>1, FiniteDeps
  <2> QED BY <1>1, <2>1
<1>5. \A n \in Nodes : indegree[n] = 0 => current \notin deps[n] /\ indegree'[n] = 0
  BY <1>2, <1>3, <1>4
<1>6. Done' = Done \cup {current}
  BY <1>1, <1>2, <1>3, <1>4, <1>5 DEF Done, TypeOK
<1>7. \A n \in Nodes : indegree'[n] = Cardinality(deps[n] \ Done')
  <2> TAKE n \in Nodes
  <2>1. CASE current \in deps[n]
    <3>1. deps[n] \ Done' = (deps[n] \ Done) \ {current}
      BY <1>6
    <3>2. IsFiniteSet(deps[n] \ Done)
      BY <1>1, FiniteDeps
    <3>3. Cardinality((deps[n] \ Done) \ {current}) = Cardinality(deps[n] \ Done) - 1
      BY <1>3, <2>1, <3>2, FS_RemoveElement
    <3> QED BY <1>1, <1>2, <2>1, <3>1, <3>3
  <2>2. CASE current \notin deps[n]
    <3>1. deps[n] \ Done' = deps[n] \ Done
      BY <1>6, <2>2
    <3> QED BY <1>1, <1>2, <2>2, <3>1
  <2> QED BY <2>1, <2>2
<1>8. visited' = Cardinality(Done')
  <2>1. IsFiniteSet(Done)
    <3>1. Done \in SUBSET Nodes
      BY DEF Done
    <3> QED BY <3>1, NodesAssumption, FS_Subset
  <2>2. Cardinality(Done \cup {current}) = Cardinality(Done) + 1
    BY <1>3, <2>1, FS_AddElement
  <2> QED BY <1>1, <1>2, <1>6, <2>2
<1>9. NoCycleIn(Done)'
  <2> SUFFICES ASSUME NEW S \in SUBSET (Done \cup {current}), S # {}
               PROVE  \E n \in S : deps[n] \cap S = {}
    BY <1>1, <1>6 DEF NoCycleIn
  <2>1. CASE S \subseteq Done
    BY <1>1, <2>1 DEF NoCycleIn
  <2>2. CASE S = {current}
    BY <1>1, <1>3, <2>2 DEF KnownDeps
  <2>3. CASE S \cap Done # {} /\ current \in S
    <3>1. PICK n \in S \cap Done : deps[n] \cap (S \cap Done) = {}
      BY <1>1, <2>3 DEF NoCycleIn
    <3>2. n \in Nodes /\ current \notin deps[n]
      BY <1>5 DEF Done
    <3> QED BY <3>1, <3>2
  <2> QED BY <2>1, <2>2, <2>3
<1>10. \A n \in queue' : indegree'[n] = 0
  BY <1>1, <1>2, <1>5 DEF TypeOK
<1>11. Sorting'
  <2>1. KnownDeps(deps)'
    BY <1>1 DEF KnownDeps
  <2>2. \A n \in Nodes : indegree'[n] = Cardinality(deps'[n] \ Done')
    BY <1>1, <1>7
  <2> QED BY <1>8, <1>9, <1>10, <2>1, <2>2 DEF Sorting
<1>12. TypeOK'
  <2>1. indegree' \in [Nodes -> Int] /\ visited' \in Nat /\ queue' \in SUBSET Nodes
    BY <1>1, <1>2, <1>4 DEF TypeOK
  <2> QED BY <1>1, <2>1 DEF TypeOK
<1>13. Fresh' /\ ValidateDecides'
  BY <1>1 DEF IInv, Fresh, Skipped, ValidateDecides
<1>14. Searching'
  BY <1>1, SearchingKept DEF skipVars
<1> QED BY <1>11, <1>12, <1>13, <1>14 DEF IInv

\* When the queue is empty, the visited nodes are the whole graph or the rest
\* of it is a set in which every node depends on another.
LEMMA SortDoneInv == IInv /\ SortDone => IInv'
<1> SUFFICES ASSUME IInv, SortDone PROVE IInv'
  OBVIOUS
<1>1. /\ TypeOK /\ pc = "sort" /\ queue = {} /\ KnownDeps(deps)
      /\ \A n \in Nodes : indegree[n] = Cardinality(deps[n] \ Done)
      /\ visited = Cardinality(Done) /\ NoCycleIn(Done)
      /\ pc' = IF visited = Cardinality(Nodes) THEN "ready" ELSE "rejected"
      /\ UNCHANGED <<deps, indegree, queue, visited, status, before, failed, frontier, seen>>
  BY DEF IInv, Sorting, SortDone, skipVars, sortVars
<1>2. Done \in SUBSET Nodes /\ Done = {n \in Nodes : indegree[n] = 0}
  BY <1>1 DEF Done
<1>3. pc' = "ready" => Valid(deps)
  <2> SUFFICES ASSUME visited = Cardinality(Nodes) PROVE Valid(deps)
    BY <1>1
  <2>1. Done = Nodes
    BY <1>1, <1>2, NodesAssumption, FS_Subset
  <2> QED BY <1>1, <2>1 DEF NoCycleIn, Valid, Acyclic
<1>4. pc' = "rejected" => ~Valid(deps)
  <2> SUFFICES ASSUME visited # Cardinality(Nodes) PROVE ~Acyclic(deps)
    BY <1>1 DEF Valid
  <2>1. Nodes \ Done # {}
    <3>1. Done # Nodes
      BY <1>1
    <3> QED BY <1>2, <3>1
  <2>2. ASSUME NEW n \in Nodes \ Done PROVE deps[n] \cap (Nodes \ Done) # {}
    <3>1. Cardinality(deps[n] \ Done) # 0
      BY <1>1, <1>2
    <3>2. ~(deps[n] \subseteq Done)
      BY <1>1, <3>1, FiniteDeps
    <3> QED BY <1>1, <3>2 DEF KnownDeps
  <2> QED BY <2>1, <2>2 DEF Acyclic
<1>5. pc' \in {"ready", "rejected"} /\ Valid(deps)' = Valid(deps)
  BY <1>1 DEF Valid, KnownDeps, Acyclic
<1>6. ValidateDecides'
  BY <1>3, <1>4, <1>5 DEF ValidateDecides
<1>7. TypeOK' /\ Sorting' /\ Fresh'
  BY <1>1, <1>5 DEF TypeOK, Sorting, Fresh
<1>8. Searching'
  BY <1>1, <1>5, SearchingKept DEF skipVars
<1> QED BY <1>6, <1>7, <1>8 DEF IInv

-----------------------------------------------------------------------------
(***************************************************************************)
(* The steps of skip_unreachable().                                        *)
(***************************************************************************)
\* A further failed node only adds to what must be skipped.
LEMMA SkipUnreachableMonotone ==
    ASSUME NEW d, NEW st, NEW F, NEW G, F \subseteq G
    PROVE  SkipUnreachable(d, st, F) \subseteq SkipUnreachable(d, st, G)
<1>1. \A S : SkipClosed(d, st, G, S) => SkipClosed(d, st, F, S)
  BY DEF SkipClosed
<1> QED BY <1>1 DEF SkipUnreachable

LEMMA ProgressInv == IInv /\ Progress => IInv'
<1> SUFFICES ASSUME IInv, Progress PROVE IInv'
  OBVIOUS
<1>1. PICK ran \in SUBSET Nodes :
        status' = [n \in Nodes |-> IF n \in ran THEN "FAILED" ELSE "PENDING"]
  BY DEF Progress
<1>2. /\ TypeOK /\ pc = "ready" /\ failed = {} /\ before' = status'
      /\ UNCHANGED <<deps, pc, indegree, queue, visited, failed, frontier, seen>>
  BY DEF IInv, Progress, sortVars
<1>3. TypeOK' /\ Sorting' /\ Fresh'
  BY <1>1, <1>2 DEF TypeOK, Sorting, Fresh
<1>4. Searching'
  BY <1>1, <1>2 DEF IInv, Searching, Skipped, TypeOK
<1>5. ValidateDecides'
  BY <1>2 DEF IInv, ValidateDecides, Valid, KnownDeps, Acyclic
<1> QED BY <1>3, <1>4, <1>5 DEF IInv

LEMMA SkipUnreachableCallInv ==
    ASSUME IInv, NEW n \in Nodes, SkipUnreachableCall(n)
    PROVE  IInv'
<1>1. /\ TypeOK /\ pc = "ready" /\ status[n] = "FAILED" /\ pc' = "search"
      /\ failed' = failed \cup {n} /\ frontier' = {n} /\ seen' = {n}
      /\ UNCHANGED <<deps, indegree, queue, visited, status, before>>
  BY DEF IInv, SkipUnreachableCall, sortVars
<1>2. TypeOK' /\ Sorting' /\ Fresh'
  BY <1>1 DEF TypeOK, Sorting, Fresh
<1>3. Searching'
  <2>1. Skipped' = Skipped /\ frontier = {}
    BY <1>1 DEF IInv, Searching, Skipped
  <2>2. Skipped' \subseteq SkipUnreachable(deps, before, failed')
    BY <1>1, <2>1, SkipUnreachableMonotone DEF IInv, Searching
  <2>3. Skipped' \subseteq SkipUnreachable(deps, before, failed)'
    BY <1>1, <2>2
  <2>4. \A m \in Nodes : status'[m] = "PENDING" =>
          deps[m] \cap ((failed' \cup Skipped') \ frontier') = {}
    BY <1>1, <2>1 DEF IInv, Searching
  <2> QED BY <1>1, <2>1, <2>3, <2>4 DEF IInv, Searching
<1>4. ValidateDecides'
  BY <1>1 DEF IInv, ValidateDecides, Valid, KnownDeps, Acyclic
<1> QED BY <1>2, <1>3, <1>4 DEF IInv

\* The pending dependents of a node in the frontier have to be skipped, and
\* afterwards it has none.
LEMMA SearchStepInv == IInv /\ SearchStep => IInv'
<1> SUFFICES ASSUME IInv, SearchStep PROVE IInv'
  OBVIOUS
<1>1. /\ TypeOK /\ Searching /\ pc = "search" /\ pc' = "search"
      /\ UNCHANGED <<deps, indegree, queue, visited, before, failed>>
  BY DEF IInv, SearchStep, sortVars
<1> DEFINE Found(x) == {n \in Nodes \ seen : x \in deps[n] /\ status[n] = "PENDING"}
<1>2. PICK current \in frontier :
        /\ status' = [n \in Nodes |-> IF n \in Found(current) THEN "SKIPPED" ELSE status[n]]
        /\ seen' = seen \cup Found(current)
        /\ frontier' = (frontier \ {current}) \cup Found(current)
  BY DEF SearchStep
<1> DEFINE found == Found(current)
<1>3. \A n \in Nodes : n \in found <=> current \in deps[n] /\ status[n] = "PENDING"
  BY <1>1 DEF Searching
<1>4. found \subseteq Nodes /\ current \in failed \cup Skipped
  BY <1>1 DEF Searching
<1>5. Skipped' = Skipped \cup found
  BY <1>2, <1>4 DEF Skipped
<1>6. found \subseteq SkipUnreachable(deps, before, failed)
  <2>1. found \subseteq PendingNodes(before)
    BY <1>1, <1>3 DEF Searching, PendingNodes
  <2>2. ASSUME NEW n \in found,
               NEW S \in SUBSET PendingNodes(before), SkipClosed(deps, before, failed, S)
        PROVE  n \in S
    <3>1. Skipped \subseteq S
      BY <1>1, <2>2 DEF Searching, SkipUnreachable
    <3>2. deps[n] \cap (failed \cup S) # {}
      BY <1>3, <1>4, <3>1
    <3> QED BY <2>1, <2>2, <3>2 DEF SkipClosed
  <2> QED BY <2>1, <2>2 DEF SkipUnreachable
<1>7. \A n \in Nodes : status'[n] = "PENDING" =>
        deps[n] \cap ((failed \cup Skipped') \ frontier') = {}
  <2> SUFFICES ASSUME NEW n \in Nodes, status'[n] = "PENDING",
                      NEW d \in deps[n], d \in failed \cup Skipped', d \notin frontier'
               PROVE  FALSE
    OBVIOUS
  <2>1. status[n] = "PENDING" /\ d # current
    BY <1>2, <1>3
  <2>2. d \in failed \cup Skipped /\ d \notin frontier
    BY <1>2, <1>5, <2>1
  <2> QED BY <1>1, <2>1, <2>2 DEF Searching
<1>8. Searching'
  <2>1. /\ \A n \in Nodes : status'[n] = "PENDING" => before[n] = "PENDING"
        /\ \A n \in Nodes : before[n] = "PENDING" => status'[n] \in {"PENDING", "SKIPPED"}
    BY <1>1, <1>2 DEF Searching
  <2>2. \A n \in failed : status'[n] = "FAILED"
    BY <1>1, <1>2, <1>3 DEF Searching, TypeOK
  <2>3. frontier' \subseteq failed \cup Skipped'
    BY <1>1, <1>2, <1>5 DEF Searching
  <2>4. \A n \in seen' : status'[n] # "PENDING"
    BY <1>1, <1>2, <1>4 DEF Searching, TypeOK
  <2>5. Skipped' \subseteq SkipUnreachable(deps, before, failed)'
    BY <1>1, <1>5, <1>6 DEF Searching
  <2> QED BY <1>1, <1>7, <2>1, <2>2, <2>3, <2>4, <2>5 DEF Searching
<1>9. TypeOK' /\ Sorting' /\ Fresh'
  BY <1>1, <1>2 DEF TypeOK, Sorting, Fresh
<1>10. ValidateDecides'
  BY <1>1 DEF IInv, ValidateDecides, Valid, KnownDeps, Acyclic
<1> QED BY <1>8, <1>9, <1>10 DEF IInv

LEMMA SearchDoneInv == IInv /\ SearchDone => IInv'
<1> SUFFICES ASSUME IInv, SearchDone PROVE IInv'
  OBVIOUS
<1>1. /\ TypeOK /\ pc = "search" /\ pc' = "ready" /\ frontier = {}
      /\ UNCHANGED <<deps, indegree, queue, visited, status, before, failed, frontier, seen>>
  BY DEF IInv, SearchDone, sortVars, skipVars
<1>2. TypeOK' /\ Sorting' /\ Fresh'
  BY <1>1 DEF TypeOK, Sorting, Fresh
<1>3. Searching'
  <2>1. Skipped' = Skipped
    BY <1>1 DEF Skipped
  <2> QED BY <1>1, <2>1 DEF IInv, Searching, SkipUnreachable, SkipClosed, PendingNodes
<1>4. ValidateDecides'
  BY <1>1 DEF IInv, ValidateDecides, Valid, KnownDeps, Acyclic
<1> QED BY <1>2, <1>3, <1>4 DEF IInv

THEOREM GraphInvariant == Spec => []IInv
<1>1. Init => IInv
  BY InitInv
<1>2. IInv /\ [Next]_vars => IInv'
  <2> SUFFICES ASSUME IInv, [Next]_vars PROVE IInv'
    OBVIOUS
  <2>1. CASE CheckDeps \/ SortStep \/ SortDone
    BY <2>1, CheckDepsInv, SortStepInv, SortDoneInv
  <2>2. CASE Progress \/ SearchStep \/ SearchDone
    BY <2>2, ProgressInv, SearchStepInv, SearchDoneInv
  <2>3. ASSUME NEW n \in Nodes, SkipUnreachableCall(n) PROVE IInv'
    BY <2>3, SkipUnreachableCallInv
  <2>4. CASE UNCHANGED vars
    <3>1. TypeOK' /\ Sorting' /\ Fresh'
      BY <2>4 DEF IInv, vars, TypeOK, Sorting, Fresh, Done, NoCycleIn, KnownDeps, Skipped
    <3>2. Searching'
      BY <2>4 DEF IInv, vars, Searching, Skipped, SkipUnreachable, SkipClosed, PendingNodes
    <3>3. ValidateDecides'
      BY <2>4 DEF IInv, vars, ValidateDecides, Valid, KnownDeps, Acyclic
    <3> QED BY <3>1, <3>2, <3>3 DEF IInv
  <2> QED BY <2>1, <2>2, <2>3, <2>4 DEF Next
<1> QED BY <1>1, <1>2, PTL DEF Spec

-----------------------------------------------------------------------------
\* validate() accepts exactly the graphs whose dependencies are known and that
\* have no cycle: Kahn's queue decides the declarative definition.
THEOREM ValidateIsCorrect == Spec => []ValidateDecides
<1>1. IInv => ValidateDecides
  BY DEF IInv
<1> QED BY <1>1, GraphInvariant, PTL

\* Calls of skip_unreachable() for any failed nodes, in any order, skip together
\* the least set closed under pending dependents, as one call for all would.
THEOREM SkipsLeastClosedSet == Spec => []SkipIsLeastClosedSet
<1>1. IInv => SkipIsLeastClosedSet
  <2> SUFFICES ASSUME IInv, pc = "ready"
               PROVE  Skipped = SkipUnreachable(deps, before, failed)
    BY DEF SkipIsLeastClosedSet, Skipped
  <2>1. /\ TypeOK /\ frontier = {}
        /\ Skipped \subseteq SkipUnreachable(deps, before, failed)
    BY DEF IInv, Searching
  <2>2. Skipped \in SUBSET PendingNodes(before)
    BY <2>1 DEF SkipUnreachable
  <2>3. SkipClosed(deps, before, failed, Skipped)
    <3> SUFFICES ASSUME NEW n \in PendingNodes(before),
                        deps[n] \cap (failed \cup Skipped) # {}
                 PROVE  n \in Skipped
      BY DEF SkipClosed
    <3>1. n \in Nodes /\ status[n] \in {"PENDING", "SKIPPED"}
      BY DEF IInv, Searching, PendingNodes
    <3>2. status[n] # "PENDING"
      BY <2>1, <3>1 DEF IInv, Searching
    <3> QED BY <3>1, <3>2 DEF Skipped
  <2>4. SkipUnreachable(deps, before, failed) \subseteq Skipped
    BY <2>2, <2>3 DEF SkipUnreachable
  <2> QED BY <2>1, <2>4
<1> QED BY <1>1, GraphInvariant, PTL
=============================================================================
