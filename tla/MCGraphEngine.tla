--------------------------- MODULE MCGraphEngine ---------------------------
(***************************************************************************)
(* Small graphs for GraphEngine: every way to draw grant and trust edges   *)
(* over a fixed set of pairs, with some ways to classify the nodes.        *)
(***************************************************************************)
EXTENDS GraphEngine

CONSTANTS a, b, c, d

MCNode == {Start, a, b, c, d}

\* Chains of four hops, shortcuts, a diamond and cycles; there is always a way back to
\* the start, and an ownership edge, which carries no capability.
Pairs == {<<Start, a>>, <<Start, b>>, <<a, c>>, <<b, d>>, <<c, d>>, <<b, c>>, <<d, a>>}

Always == {[src |-> b, kind |-> "grant", dst |-> Start],
           [src |-> Start, kind |-> "other", dst |-> c]}

MCGraphs ==
    {Always \cup {[src |-> p[1], kind |-> k[p], dst |-> p[2]] :
                     p \in {q \in Pairs : k[q] # "none"}} :
        k \in [Pairs -> {"none", "grant", "trust"}]}

\* The nearer nodes worth less than the farther ones, the other way round, and nodes
\* that are no target; the start itself may be worth reporting.
MCClassings ==
    {[n \in MCNode |-> CASE n = Start -> s
                         [] n = a -> f[1] [] n = b -> f[2] [] n = c -> f[3] [] n = d -> f[4]] :
        s \in {"principal", "admin"},
        f \in {<<"high", "high", "crown_jewel", "high">>,
               <<"crown_jewel", "admin", "high", "high">>,
               <<"principal", "absent", "crown_jewel", "crown_jewel">>}}
============================================================================
