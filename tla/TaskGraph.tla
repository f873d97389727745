------------------------------ MODULE TaskGraph ------------------------------
(***************************************************************************)
(* The dependency graph of a plan (planning/task_graph.py): which nodes    *)
(* may be scheduled, which must be skipped after a critical failure, and   *)
(* which plans are rejected before any node runs.  The graph does no       *)
(* scheduling; TaskExecutor extends this module.                           *)
(*                                                                         *)
(* A plan is a record: deps gives each node the ids it depends on, critical*)
(* the nodes whose failure skips their dependents, retries the             *)
(* max_retries of each node's RetryPolicy, and rank each node's place in   *)
(* the order (-priority, id), by which ready nodes are sorted.             *)
(***************************************************************************)
EXTENDS Integers, FiniteSets

CONSTANTS
    Nodes,      \* ids of the plan's TaskNodes
    Unknown     \* ids a dependency list may name that are not nodes of the plan

ASSUME UnknownAreNotNodes == Nodes \cap Unknown = {}
ASSUME NodesAssumption == IsFiniteSet(Nodes)

Failures == {"FAILED", "TIMED_OUT", "CANCELLED"}
Terminal == Failures \cup {"SUCCEEDED", "SKIPPED"}
Status   == Terminal \cup {"PENDING", "READY", "RUNNING"}

PlanType == [deps     : [Nodes -> SUBSET (Nodes \cup Unknown)],
             critical : SUBSET Nodes,
             retries  : [Nodes -> Nat],
             rank     : [Nodes -> Nat]]

(***************************************************************************)
(* validate(): no unknown dependency, no self-dependency, no cycle.  A     *)
(* graph has no cycle exactly when every nonempty set of nodes has a       *)
(* member with no dependency in the set; TaskGraphAlgorithms checks that   *)
(* this agrees with the queue of Kahn's algorithm in the code.             *)
(***************************************************************************)
KnownDeps(deps) == \A n \in Nodes : deps[n] \subseteq Nodes \ {n}

Acyclic(deps) ==
    \A S \in SUBSET Nodes : S # {} => \E n \in S : deps[n] \cap S = {}

Valid(deps) == KnownDeps(deps) /\ Acyclic(deps)

PendingNodes(status) == {n \in Nodes : status[n] = "PENDING"}

\* Fault: a node counts as ready as soon as one of its dependencies is completed.
ReadyNodes_AnyDependency(deps, status, completed) ==
    {n \in PendingNodes(status) : deps[n] = {} \/ deps[n] \cap completed # {}}

\* The nodes ready_nodes() returns, without their order.
ReadyNodes(deps, status, completed) ==
    {n \in PendingNodes(status) : deps[n] \subseteq completed}

(***************************************************************************)
(* skip_unreachable() marks every pending node that a failed node reaches  *)
(* along pending dependents: the least set of pending nodes that contains  *)
(* the pending dependents of the failed nodes and of its own members.      *)
(* Several critical nodes may fail between two turns of the scheduler; the *)
(* calls made for them one after the other skip the same nodes as one call *)
(* for the whole set (checked in TaskGraphAlgorithms).                     *)
(***************************************************************************)
SkipClosed(deps, status, failed, S) ==
    \A n \in PendingNodes(status) :
        deps[n] \cap (failed \cup S) # {} => n \in S

SkipUnreachable(deps, status, failed) ==
    {n \in PendingNodes(status) :
        \A S \in SUBSET PendingNodes(status) :
            SkipClosed(deps, status, failed, S) => n \in S}
=============================================================================
