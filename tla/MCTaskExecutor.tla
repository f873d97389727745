--------------------------- MODULE MCTaskExecutor ---------------------------
(***************************************************************************)
(* Instances of TaskExecutor: every acyclic plan over three nodes, and     *)
(* plans that validation rejects.                                          *)
(***************************************************************************)
EXTENDS TaskExecutor, TLC

CONSTANTS a, b, c, ghost

\* Every acyclic graph over a, b, c is one of these up to a renaming, and the
\* order of the ranks is not the order of the graph.
Shapes3 == {a :> {} @@ b :> x @@ c :> y : x \in SUBSET {a}, y \in SUBSET {a, b}}

Rank3 == a :> 2 @@ b :> 3 @@ c :> 1

Plans3(shapes, criticals, retries) ==
    {[deps |-> s, critical |-> k, retries |-> r, rank |-> Rank3] :
        s \in shapes, k \in criticals, r \in retries}

Rejected3 ==
    {a :> {} @@ b :> {ghost} @@ c :> {}, a :> {} @@ b :> {b} @@ c :> {},
     a :> {c} @@ b :> {a} @@ c :> {b}}

OneRetry3 == a :> 1 @@ b :> 0 @@ c :> 0
TwoRetries3 == a :> 1 @@ b :> 0 @@ c :> 1

AllPlans3 ==
    Plans3(Shapes3, SUBSET {a, b, c}, {OneRetry3})
        \cup Plans3(Shapes3, {{b}}, {TwoRetries3})
        \cup Plans3(Rejected3, {{a, b, c}}, {OneRetry3})

Nodes3 == {a, b, c}
Ghosts == {ghost}
=============================================================================
