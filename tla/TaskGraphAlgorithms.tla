------------------------- MODULE TaskGraphAlgorithms ------------------------
(***************************************************************************)
(* The two loops of planning/task_graph.py, step by step: the topological  *)
(* sort of validate() and the search of skip_unreachable().  TaskGraph     *)
(* defines what they compute without the loops; the invariants below say   *)
(* that the loops compute just that.                                       *)
(*                                                                         *)
(* One behaviour validates a graph and, if it is accepted, calls           *)
(* skip_unreachable for each of a set of failed nodes, in some order.  The *)
(* lists queue and frontier are sets: the order in which the code pops     *)
(* their elements is one of the orders allowed here.                       *)
(***************************************************************************)
EXTENDS TaskGraph

CONSTANT Graphs     \* the dependency functions to validate

ASSUME GraphsAssumption == Graphs \subseteq [Nodes -> SUBSET (Nodes \cup Unknown)]

VARIABLES
    deps,
    pc,         \* "check", "sort", "rejected", "ready", "search"
    indegree, queue, visited,           \* locals of validate()
    status,                             \* node.status
    before,                             \* the statuses before the first call (history)
    failed,                             \* nodes skip_unreachable was called for
    frontier, seen                      \* locals of skip_unreachable()

vars == <<deps, pc, indegree, queue, visited, status, before, failed, frontier, seen>>
sortVars == <<indegree, queue, visited>>
skipVars == <<status, before, failed, frontier, seen>>

Init ==
    /\ deps \in Graphs
    /\ pc = "check"
    /\ indegree = [n \in Nodes |-> 0]
    /\ queue = {}
    /\ visited = 0
    /\ status = [n \in Nodes |-> "PENDING"]
    /\ before = status
    /\ failed = {}
    /\ frontier = {}
    /\ seen = {}

\* Fault: a dependency on an unknown task is ignored instead of rejected.
CheckDeps_UnknownIgnored ==
    /\ pc = "check"
    /\ IF \A n \in Nodes : n \notin deps[n]
         THEN /\ pc' = "sort"
              /\ indegree' = [n \in Nodes |-> Cardinality(deps[n] \cap Nodes)]
              /\ queue' = {n \in Nodes : deps[n] \cap Nodes = {}}
         ELSE pc' = "rejected" /\ UNCHANGED <<indegree, queue>>
    /\ UNCHANGED <<deps, visited, skipVars>>

\* Unknown and self-dependencies are rejected; then the indegrees are counted.
CheckDeps ==
    /\ pc = "check"
    /\ IF KnownDeps(deps)
         THEN /\ pc' = "sort"
              /\ indegree' = [n \in Nodes |-> Cardinality(deps[n])]
              /\ queue' = {n \in Nodes : deps[n] = {}}
         ELSE pc' = "rejected" /\ UNCHANGED <<indegree, queue>>
    /\ UNCHANGED <<deps, visited, skipVars>>

SortStep ==
    /\ pc = "sort"
    /\ \E current \in queue :
         /\ visited' = visited + 1
         /\ indegree' = [n \in Nodes |-> IF current \in deps[n] THEN indegree[n] - 1
                                         ELSE indegree[n]]
         /\ queue' = (queue \ {current})
                \cup {n \in Nodes : current \in deps[n] /\ indegree'[n] = 0}
    /\ UNCHANGED <<deps, pc, skipVars>>

SortDone ==
    /\ pc = "sort"
    /\ queue = {}
    /\ pc' = IF visited = Cardinality(Nodes) THEN "ready" ELSE "rejected"
    /\ UNCHANGED <<deps, sortVars, skipVars>>

\* External: the executor has run some nodes to an end before the first call.
Progress ==
    /\ pc = "ready" /\ failed = {} /\ before = status
    /\ \E ran \in SUBSET Nodes :
         status' = [n \in Nodes |-> IF n \in ran THEN "FAILED" ELSE "PENDING"]
    /\ before' = status'
    /\ UNCHANGED <<deps, pc, sortVars, failed, frontier, seen>>

SkipUnreachableCall(n) ==
    /\ pc = "ready"
    /\ status[n] = "FAILED" /\ n \notin failed
    /\ pc' = "search"
    /\ failed' = failed \cup {n}
    /\ frontier' = {n}
    /\ seen' = {n}
    /\ UNCHANGED <<deps, sortVars, status, before>>

\* Fault: only direct dependents are skipped.
SearchStep_DirectOnly ==
    /\ pc = "search"
    /\ \E current \in frontier :
         LET found == {n \in Nodes \ seen :
                         current \in deps[n] /\ status[n] = "PENDING"} IN
         /\ status' = [n \in Nodes |-> IF n \in found THEN "SKIPPED" ELSE status[n]]
         /\ seen' = seen \cup found
         /\ frontier' = frontier \ {current}
    /\ UNCHANGED <<deps, pc, sortVars, before, failed>>

SearchStep ==
    /\ pc = "search"
    /\ \E current \in frontier :
         LET found == {n \in Nodes \ seen :
                         current \in deps[n] /\ status[n] = "PENDING"} IN
         /\ status' = [n \in Nodes |-> IF n \in found THEN "SKIPPED" ELSE status[n]]
         /\ seen' = seen \cup found
         /\ frontier' = (frontier \ {current}) \cup found
    /\ UNCHANGED <<deps, pc, sortVars, before, failed>>

SearchDone ==
    /\ pc = "search"
    /\ frontier = {}
    /\ pc' = "ready"
    /\ UNCHANGED <<deps, sortVars, skipVars>>

Next ==
    \/ CheckDeps \/ SortStep \/ SortDone
    \/ Progress
    \/ \E n \in Nodes : SkipUnreachableCall(n)
    \/ SearchStep \/ SearchDone

Spec == Init /\ [][Next]_vars

-----------------------------------------------------------------------------
TypeOK ==
    /\ deps \in [Nodes -> SUBSET (Nodes \cup Unknown)]
    /\ pc \in {"check", "sort", "rejected", "ready", "search"}
    /\ indegree \in [Nodes -> Int]
    /\ queue \in SUBSET Nodes
    /\ visited \in Nat
    /\ status \in [Nodes -> {"PENDING", "FAILED", "SKIPPED"}]
    /\ before \in [Nodes -> {"PENDING", "FAILED"}]
    /\ failed \in SUBSET Nodes
    /\ frontier \in SUBSET Nodes
    /\ seen \in SUBSET Nodes

\* validate() accepts exactly the graphs with known dependencies and no cycle.
ValidateDecides ==
    /\ pc = "rejected" => ~Valid(deps)
    /\ pc \in {"ready", "search"} => Valid(deps)

\* After any calls of skip_unreachable, in any order, the skipped nodes are the
\* least set that is closed under pending dependents of the failed nodes.
SkipIsLeastClosedSet ==
    pc = "ready" =>
        {n \in Nodes : status[n] = "SKIPPED"} = SkipUnreachable(deps, before, failed)
=============================================================================
