------------------------ MODULE MCTaskGraphAlgorithms -----------------------
(***************************************************************************)
(* Every graph over three nodes that may also name an unknown id, and      *)
(* every acyclic graph over four nodes up to a renaming.                   *)
(***************************************************************************)
EXTENDS TaskGraphAlgorithms

CONSTANTS a, b, c, d, ghost

Nodes4 == {a, b, c, d}
Ghosts == {ghost}

AnyGraph3 ==
    {[n \in Nodes4 |-> IF n = d THEN {} ELSE f[n]] :
        f \in [{a, b, c} -> SUBSET {a, b, c}]}

Forward4 ==
    {[n \in Nodes4 |-> IF n = a THEN {} ELSE IF n = b THEN x ELSE IF n = c THEN y ELSE z] :
        x \in SUBSET {a}, y \in SUBSET {a, b}, z \in SUBSET {a, b, c}}

NamesGhost ==
    {[n \in Nodes4 |-> IF n = b THEN {a, ghost} ELSE IF n = c THEN x ELSE {}] :
        x \in SUBSET Nodes4}

AllGraphs == AnyGraph3 \cup Forward4 \cup NamesGhost
=============================================================================
