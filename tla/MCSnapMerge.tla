----------------------------- MODULE MCSnapMerge ------------------------------
EXTENDS SnapMerge

\* A fix is a ghost, or recorded before, with or after the fix in front of it.
Paces == {[ghost |-> TRUE, step |-> 1]}
         \cup [ghost : {FALSE}, step : {-1, 0, 1}]
TimeAt(paces, i) ==
    FoldLeft(LAMBDA time, j : time + paces[j].step, 0, [j \in 1 .. i |-> j])
Timed(paces) == [i \in DOMAIN paces |-> [ghost |-> paces[i].ghost,
                                         time |-> TimeAt(paces, i)]]
UpTo(n) == UNION {{Timed(paces) : paces \in [1 .. k -> Paces]} : k \in 1 .. n}
Driven(n) == {Timed(paces) : paces \in
                [1 .. n -> {[ghost |-> FALSE, step |-> 1], [ghost |-> TRUE, step |-> 1]}]}

ShortAndDriven == UpTo(3) \cup Driven(7)

\* A point is unsnapped, on an edge where the one before it may have been the last of
\* a road, or interpolated, on no edge, where a road may end.
WithFlags ==
    {Unsnapped}
    \cup [matched : {TRUE}, edge : {TRUE}, begin : BOOLEAN, end : {FALSE}]
    \cup [matched : {TRUE}, edge : {FALSE}, begin : {FALSE}, end : BOOLEAN]
=============================================================================
