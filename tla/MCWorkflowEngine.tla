-------------------------- MODULE MCWorkflowEngine --------------------------
(***************************************************************************)
(* Instances of WorkflowEngine with two executions.  A plan of fewer steps *)
(* than StepCount is one whose other steps need an id that no step has.    *)
(***************************************************************************)
EXTENDS WorkflowEngine, TLC

CONSTANTS r1, r2

\* Every plan whose steps depend on earlier steps only, or on an unknown id, and
\* a chain against the plan's order, a cycle, and a step that needs itself.
Plans3 ==
    {p \in Plan : Ordered(p)}
        \cup {[deps |-> d, conditional |-> c] :
                 d \in {<<{2}, {3}, {}>>, <<{3}, {1}, {2}>>, <<{}, {2}, {1}>>},
                 c \in SUBSET Steps}

\* Nothing of it can be started, but its execute() clears the flag.
Idle == [deps |-> <<{0}, {0}, {0}>>, conditional |-> {}]

\* Two steps in turn, the second with a condition; two at once.
Chain == [deps |-> <<{}, {1}, {0}>>, conditional |-> {2}]
Fork  == [deps |-> <<{}, {}, {0}>>, conditional |-> {}]

\* Any plan beside an execution that comes and goes, and two that take their time.
Pairs ==
    {r1 :> p @@ r2 :> Idle : p \in Plans3}
        \cup {r1 :> Chain @@ r2 :> p : p \in {Chain, Fork}}
=============================================================================
