---------------------------- MODULE PlanContract ----------------------------
(***************************************************************************)
(* What a plan execution promises of its nodes, with no scheduler, tasks,  *)
(* semaphore or retries (the life cycle drawn in planning/models.py and    *)
(* the guarantees of planning/executor.py): a node is started only once    *)
(* its dependencies are settled and none of them blocks it, it is skipped  *)
(* only if one of them does, and what has been settled stays settled.      *)
(* Several nodes may move in one step.                                     *)
(***************************************************************************)
CONSTANT Nodes

VARIABLES
    deps,       \* the dependencies of each node
    critical,   \* the nodes whose failure blocks their dependents
    open,       \* is the plan still being executed?
    stopping,   \* has cancellation been requested?
    phase       \* where each node is

vars == <<deps, critical, open, stopping, phase>>

Settled == {"succeeded", "failed", "cancelled", "skipped"}

Blocks(d, ph) ==
    \/ ph[d] = "skipped"
    \/ d \in critical /\ ph[d] \in {"failed", "cancelled"}

Init ==
    /\ open = TRUE
    /\ stopping = FALSE
    /\ phase = [n \in Nodes |-> "todo"]

MayStart(n) ==
    /\ phase[n] = "todo" /\ ~stopping'
    /\ \A d \in deps[n] : phase'[d] \in Settled /\ ~Blocks(d, phase')

MaySkip(n) ==
    /\ phase[n] = "todo"
    /\ \E d \in deps[n] : Blocks(d, phase')

MayCancel(n) == phase[n] \in {"todo", "active"} /\ stopping'

Moves(n) ==
    \/ phase'[n] = phase[n]
    \/ phase'[n] = "active" /\ MayStart(n)
    \/ phase'[n] = "skipped" /\ MaySkip(n)
    \/ phase'[n] = "cancelled" /\ MayCancel(n)
    \/ phase'[n] \in {"succeeded", "failed"} /\ phase[n] = "active"

\* Nodes move, cancellation may be requested and is never withdrawn; the plan
\* closes exactly when the last of its nodes is settled.
Execute ==
    /\ open
    /\ stopping => stopping'
    /\ \A n \in Nodes : Moves(n)
    /\ open' = (\E n \in Nodes : phase'[n] \notin Settled)
    /\ UNCHANGED <<deps, critical>>

\* A plan may be rejected before any of its nodes has started.
Reject ==
    /\ open
    /\ \A n \in Nodes : phase[n] = "todo" /\ phase'[n] = "failed"
    /\ open' = FALSE
    /\ UNCHANGED <<deps, critical, stopping>>

Next == Execute \/ Reject

Spec == Init /\ [][Next]_vars
=============================================================================
