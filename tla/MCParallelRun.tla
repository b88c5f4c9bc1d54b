---------------------------- MODULE MCParallelRun ----------------------------
(* Instances of ParallelRun for TLC. *)
EXTENDS ParallelRun

CONSTANTS s, a, r, b, x, e

\* Handles of the router's edges: a branch each, or one branch with two edges.
Handles == {[n \in Nodes |-> CASE n = e -> 1 [] n = a -> 2 [] n = x -> 3 [] OTHER -> 0],
            [n \in Nodes |-> IF n = a THEN 2 ELSE 0]}

EdgesOf(pairs, handle) ==
    [i \in DOMAIN pairs |->
        Edge(pairs[i][1], pairs[i][2], IF pairs[i][1] = r THEN handle[pairs[i][2]] ELSE Plain)]

\* Every graph over s, a, r, b, e in that order, s -> e excepted; as it is, with a branch of
\* r that loops back to a or to START, with a second END x, that nothing or one edge follows,
\* or with a loop of r and b that b closes twice and x leaves.
Forward == << <<s, a>>, <<s, r>>, <<s, b>>, <<a, r>>, <<a, b>>, <<a, e>>,
              <<r, b>>, <<r, e>>, <<b, e>> >>
Extras == {<<>>, << <<r, a>> >>, << <<r, s>> >>, << <<r, x>> >>, << <<b, x>> >>,
           << <<r, x>>, <<x, b>> >>, << <<b, r>>, <<b, r>>, <<r, x>> >>}
AllGraphs ==
    {EdgesOf(SelectSeq(Forward, LAMBDA q : q \in S) \o extra, handle) :
        S \in SUBSET Range(Forward), extra \in Extras, handle \in Handles}

=============================================================================
