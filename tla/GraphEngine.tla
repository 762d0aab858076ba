---------------------------- MODULE GraphEngine ----------------------------
(***************************************************************************)
(* The traversals of internal/graph: one breadth-first search over the     *)
(* capability graph, which Reachable, TrustChainDepth and AttackPaths run  *)
(* with an edge filter and a result of their own.                          *)
(*                                                                         *)
(* LoadAll sorts the edges by type and by ids drawn at random, so a node's *)
(* edges are looked at in any order; and it reads the nodes before the     *)
(* edges, so an edge may lead to, or leave, a node that was inserted in    *)
(* between: such a node is "absent".  path holds the walk by which a node  *)
(* was visited, AttackPaths' cur.path; its length is the hop count of the  *)
(* other two.                                                              *)
(***************************************************************************)
EXTENDS Integers, Sequences, FiniteSets

CONSTANTS
    Node,       \* the nodes the edges mention
    Start,      \* where the traversal begins
    Graphs,     \* the sets of edges to try
    Classings,  \* the ways to try to classify the nodes
    Walkers,    \* the traversals to run
    Limits,     \* the numbers of attack paths a caller may ask for
    MaxHops     \* blastMaxHops

Kind  == {"trust", "grant", "other"}
Class == {"principal", "resource", "high", "crown_jewel", "admin", "absent"}
Edge  == [src : Node, kind : Kind, dst : Node]

ASSUME GraphAssumption ==
    /\ Start \in Node
    /\ Graphs \subseteq SUBSET Edge
    /\ Classings \subseteq [Node -> Class]
    /\ Walkers \subseteq {"reach", "trust", "paths"}
    /\ MaxHops \in Nat
    /\ Limits \subseteq Nat

VARIABLES
    edges,   \* g.out
    class,   \* g.nodes: type, criticality and privilege level
    walker,  \* the traversal that runs
    limit,   \* AttackPaths' limit
    path,    \* visited, with the walk that led to each visited node
    queue,   \* q
    cur,     \* the node taken from q
    found,   \* AttackPaths' results, in the order in which they were appended
    done

graphVars == <<edges, class, walker, limit>>
vars == <<edges, class, walker, limit, path, queue, cur, found, done>>

----------------------------------------------------------------------------
\* isCapabilityEdge and IsTrustEdge: every trust edge is a capability edge.
IsCapabilityEdge(e) == e.kind \in {"trust", "grant"}
IsTrustEdge(e)      == e.kind = "trust"

Usable == {e \in edges : IF walker = "trust" THEN IsTrustEdge(e)
                                             ELSE IsCapabilityEdge(e)}

Visited == DOMAIN path
Hops(n) == Len(path[n])

\* targetImpact: crown jewels, and privileged roles, rank above high resources.
Targets   == {n \in Node : class[n] \in {"high", "crown_jewel", "admin"}}
Impact(n) == IF class[n] = "high" THEN 1 ELSE 2

----------------------------------------------------------------------------
Init ==
    /\ edges \in Graphs
    /\ class \in Classings
    /\ walker \in Walkers
    /\ limit \in Limits
    /\ path = [n \in {Start} |-> <<>>]
    /\ queue = <<>>
    /\ cur = Start
    /\ found = <<>>
    /\ done = FALSE

\* Mutant: The hop bound checked one hop too late.
FreshPastBound ==
    IF Hops(cur) > MaxHops THEN {}
    ELSE {e \in Usable : e.src = cur /\ e.dst \notin Visited}

\* Mutant: A target taken for the end of its path, so that nothing behind it is visited.
FreshEndsAtTarget ==
    IF Hops(cur) >= MaxHops \/ cur \in Targets THEN {}
    ELSE {e \in Usable : e.src = cur /\ e.dst \notin Visited}

\* The edges of cur that lead to a node not yet visited.
Fresh ==
    IF Hops(cur) >= MaxHops THEN {}
    ELSE {e \in Usable : e.src = cur /\ e.dst \notin Visited}

\* Mutant: The node put into the queue but not into visited.
VisitForgotten(e) == path

Visit(e) ==
    [n \in Visited \cup {e.dst} |->
        IF n = e.dst THEN Append(path[cur], e) ELSE path[n]]

\* Mutant: A stack instead of a queue.
FollowDepthFirst(e) ==
    /\ ~done
    /\ e \in Fresh
    /\ path' = Visit(e)
    /\ queue' = <<e.dst>> \o queue
    /\ UNCHANGED <<graphVars, cur, found, done>>

\* The loop over g.out[cur.id].
Follow(e) ==
    /\ ~done
    /\ e \in Fresh
    /\ path' = Visit(e)
    /\ queue' = Append(queue, e.dst)
    /\ UNCHANGED <<graphVars, cur, found, done>>

\* AttackPaths' results when n is taken from the queue.
Gathered(n) ==
    IF walker = "paths" /\ n \in Targets THEN Append(found, n) ELSE found

\* The head of the outer loop; AttackPaths leaves it when it has enough targets.
Dequeue ==
    /\ ~done
    /\ Fresh = {}
    /\ queue # <<>>
    /\ cur' = Head(queue)
    /\ queue' = Tail(queue)
    /\ found' = Gathered(cur')
    /\ done' = (found' # found /\ Len(found') >= limit * 3)
    /\ UNCHANGED <<graphVars, path>>

Finish ==
    /\ ~done
    /\ Fresh = {}
    /\ queue = <<>>
    /\ done' = TRUE
    /\ UNCHANGED <<graphVars, path, queue, cur, found>>

Next ==
    \/ \E e \in edges : Follow(e)
    \/ Dequeue
    \/ Finish

Spec == Init /\ [][Next]_vars

----------------------------------------------------------------------------
(* What the three functions return.                                        *)

Least(S)    == CHOOSE i \in S : \A j \in S : i <= j
Greatest(S) == CHOOSE i \in S : \A j \in S : j <= i

\* Mutant: The start node counted among what it reaches.
ReachedWithStart == Visited

\* Reachable leaves the start node out, also when a cycle leads back to it.
Reached == Visited \ {Start}

ComputeBlastRadius ==
    LET Of(classes) == {n \in Reached : class[n] \in classes}
    IN  [resources |-> Cardinality(Of({"resource", "high", "crown_jewel"})),
         high      |-> Cardinality(Of({"high"})),
         crown     |-> Cardinality(Of({"crown_jewel"})),
         nearest   |-> IF Of({"crown_jewel"}) = {} THEN -1
                       ELSE Least({Hops(n) : n \in Of({"crown_jewel"})}),
         admin     |-> Of({"admin"}) # {}]

TrustChainDepth == Greatest({Hops(n) : n \in Visited})

\* Mutant: Hops compared before impact.
BetterByHops(i, j) ==
    LET s == found[i]
        t == found[j]
    IN  \/ Hops(s) < Hops(t)
        \/ Hops(s) = Hops(t) /\ Impact(s) > Impact(t)
        \/ Hops(s) = Hops(t) /\ Impact(s) = Impact(t) /\ i < j

\* The order of the stable sort: impact, then hops, then as appended.
Better(i, j) ==
    LET s == found[i]
        t == found[j]
    IN  \/ Impact(s) > Impact(t)
        \/ Impact(s) = Impact(t) /\ Hops(s) < Hops(t)
        \/ Impact(s) = Impact(t) /\ Hops(s) = Hops(t) /\ i < j

Place(i) == 1 + Cardinality({j \in DOMAIN found : Better(j, i)})

AttackPaths ==
    [p \in 1 .. IF Len(found) > limit THEN limit ELSE Len(found) |->
        found[CHOOSE i \in DOMAIN found : Place(i) = p]]

----------------------------------------------------------------------------
(* Properties.  A walk is a sequence of usable edges from the start node.  *)

IsWalk(w) ==
    \A i \in DOMAIN w : w[i].src = IF i = 1 THEN Start ELSE w[i - 1].dst

Walks == {w \in UNION {[1 .. k -> Usable] : k \in 0 .. MaxHops} : IsWalk(w)}

End(w) == IF w = <<>> THEN Start ELSE w[Len(w)].dst

\* AttackPaths left its loop because it had gathered enough.
Stopped == Len(found) >= limit * 3 /\ found # <<>>

TypeOK ==
    /\ edges \subseteq Edge
    /\ class \in [Node -> Class]
    /\ walker \in Walkers
    /\ limit \in Limits
    /\ Visited \subseteq Node
    /\ \A n \in Visited : path[n] \in Seq(edges)
    /\ cur \in Visited
    /\ queue \in Seq(Visited)
    /\ found \in Seq(Node)
    /\ done \in BOOLEAN

\* The path reported for a node exists: edge by edge, it leads from the start to
\* that node over edges of the kind asked for, within the hop bound (AttackPaths).
PathsAreReal ==
    \A n \in Visited :
        /\ path[n] \in Seq(Usable) /\ IsWalk(path[n])
        /\ End(path[n]) = n
        /\ Hops(n) <= MaxHops

\* A traversal that ran to its end has visited whatever a walk within the hop bound
\* reaches, and over a shortest walk, in whatever order the edges came (Reachable).
HopsAreShortest ==
    done /\ ~Stopped =>
        \A w \in Walks : End(w) \in Visited /\ Hops(End(w)) <= Len(w)

\* What AttackPaths leaves out because it stops early is no nearer than what it has.
NearestAreGathered ==
    done /\ walker = "paths" =>
        \A w \in Walks :
            LET t == End(w)
            IN  t \in Targets \ {Start} =>
                    \/ \E i \in DOMAIN found : found[i] = t
                    \/ Stopped /\ \A i \in DOMAIN found : Hops(found[i]) <= Len(w)

\* u is at least as good a target as t, which is k hops away.
AsGood(u, t, k) ==
    \/ Impact(u) > Impact(t)
    \/ Impact(u) = Impact(t) /\ Hops(u) <= k

\* AttackPaths returns its targets by impact and then by hops, each once; and when it did
\* not stop early, it leaves out none that is better than one it returns.
BestAreReported ==
    done /\ walker = "paths" =>
        LET best == AttackPaths
        IN  /\ \A p, q \in DOMAIN best :
                  p < q => best[p] # best[q] /\ AsGood(best[p], best[q], Hops(best[q]))
            /\ Stopped \/ \A w \in Walks :
                  LET t == End(w)
                  IN  t \in Targets \ {Start} =>
                          \/ \E p \in DOMAIN best : best[p] = t
                          \/ /\ Len(best) = limit
                             /\ \A p \in DOMAIN best : AsGood(best[p], t, Len(w))

\* The blast radius counts each resource that some walk reaches once, finds a
\* privileged role if one can be reached, and the shortest way to a crown jewel.
BlastIsExact ==
    done /\ walker = "reach" =>
        LET To(classes) == {w \in Walks : /\ End(w) # Start
                                          /\ class[End(w)] \in classes}
            Count(classes) == Cardinality({End(w) : w \in To(classes)})
        IN  ComputeBlastRadius =
                [resources |-> Count({"resource", "high", "crown_jewel"}),
                 high      |-> Count({"high"}),
                 crown     |-> Count({"crown_jewel"}),
                 nearest   |-> IF To({"crown_jewel"}) = {} THEN -1
                               ELSE Least({Len(w) : w \in To({"crown_jewel"})}),
                 admin     |-> To({"admin"}) # {}]

============================================================================
