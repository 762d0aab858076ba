------------------------- MODULE GraphEngineProofs -------------------------
(***************************************************************************)
(* Theorems of GraphEngine for every graph, hop bound and limit.           *)
(*   TypeCorrect         the type invariant                                *)
(*   PathsAreWalks       a reported path exists in the graph               *)
(*   ShortestWalks       the hop counts are the distances                  *)
(*   NearestFirst        stopping early leaves out nothing nearer          *)
(*   BlastCounted        the blast radius is what walks lead to            *)
(*   BestReported        the reported targets are the best, in order       *)
(***************************************************************************)
EXTENDS GraphEngine, FiniteSetTheorems, WellFoundedInduction, TLAPS

-----------------------------------------------------------------------------
(* Type correctness.                                                       *)

LEMMA BoundsType == Start \in Node /\ MaxHops \in Nat
BY GraphAssumption

LEMMA SeqGrows ==
  ASSUME NEW S, NEW T, S \subseteq T, NEW s \in Seq(S), NEW x \in T
  PROVE  /\ Append(s, x) \in Seq(T)
         /\ Len(Append(s, x)) = Len(s) + 1
         /\ \A i \in 1 .. Len(s) : Append(s, x)[i] = s[i]
         /\ Append(s, x)[Len(s) + 1] = x
<1>1. s \in Seq(T) OBVIOUS
<1> QED BY <1>1

LEMMA EmptyIsSeq ==
  ASSUME NEW S
  PROVE  <<>> \in Seq(S) /\ Len(<<>>) = 0
OBVIOUS

LEMMA HopsType ==
  ASSUME TypeOK, NEW n \in Visited
  PROVE  Hops(n) \in Nat
BY DEF TypeOK, Hops

LEMMA FreshType ==
  ASSUME NEW e \in Fresh
  PROVE  e \in Usable /\ e \in edges /\ e.src = cur /\ e.dst \notin Visited /\ ~ Hops(cur) >= MaxHops
BY DEF Fresh, Usable

\* What the visit of a node changes in path.
LEMMA VisitPath ==
  ASSUME TypeOK, NEW e \in edges, Follow(e)
  PROVE  /\ e \in Usable /\ e.src = cur /\ e.dst \notin Visited /\ e.dst \in Node
         /\ Visited' = Visited \cup {e.dst}
         /\ \A n \in Visited : path'[n] = path[n]
         /\ path'[e.dst] = Append(path[cur], e)
<1>1. e \in Usable /\ e.src = cur /\ e.dst \notin Visited
  BY FreshType DEF Follow
<1>2. e.dst \in Node
  BY DEF TypeOK, Edge
<1>3. path' = [n \in Visited \cup {e.dst} |-> IF n = e.dst THEN Append(path[cur], e) ELSE path[n]]
  BY DEF Follow, Visit
<1> QED BY <1>1, <1>2, <1>3 DEF Visited

LEMMA FollowType ==
  ASSUME TypeOK, NEW e \in edges, Follow(e)
  PROVE  TypeOK'
<1>1. /\ Visited' = Visited \cup {e.dst} /\ e.dst \in Node
      /\ \A n \in Visited : path'[n] = path[n]
      /\ path'[e.dst] = Append(path[cur], e)
  BY VisitPath
<1>2. edges' = edges /\ class' = class /\ walker' = walker /\ limit' = limit
      /\ cur' = cur /\ found' = found /\ done' = done
  BY DEF Follow, graphVars
<1>3. \A n \in Visited' : path'[n] \in Seq(edges')
  <2>1. path[cur] \in Seq(edges) /\ \A n \in Visited : path[n] \in Seq(edges)
    BY DEF TypeOK
  <2>2. Append(path[cur], e) \in Seq(edges) BY <2>1
  <2> QED BY <1>1, <1>2, <2>1, <2>2
<1>4. queue' \in Seq(Visited')
  <2>1. queue \in Seq(Visited) /\ Visited \subseteq Visited' /\ e.dst \in Visited'
    BY <1>1 DEF TypeOK
  <2>2. queue' = Append(queue, e.dst) BY DEF Follow
  <2> QED BY <2>1, <2>2, SeqGrows
<1> QED BY <1>1, <1>2, <1>3, <1>4 DEF TypeOK

LEMMA DequeueType ==
  ASSUME TypeOK, Dequeue
  PROVE  TypeOK' /\ cur' \in Visited
<1>1. queue \in Seq(Visited) /\ queue # <<>> BY DEF TypeOK, Dequeue
<1>2. Head(queue) \in Visited /\ Tail(queue) \in Seq(Visited) BY <1>1
<1>3. Visited' = Visited /\ edges' = edges /\ class' = class /\ walker' = walker /\ limit' = limit /\ path' = path
      /\ cur' = Head(queue) /\ queue' = Tail(queue)
  BY DEF Dequeue, graphVars, Visited
<1>4. found' \in Seq(Node) /\ done' \in BOOLEAN
  BY <1>2, <1>3 DEF TypeOK, Dequeue, Gathered
<1>5. \A n \in Visited' : path'[n] \in Seq(edges')
  BY <1>3 DEF TypeOK
<1>6. queue' \in Seq(Visited') /\ cur' \in Visited' BY <1>2, <1>3
<1> QED BY <1>2, <1>3, <1>4, <1>5, <1>6 DEF TypeOK

\* The type invariant: nodes are visited once, paths are sequences of the graph's
\* edges, the queue holds visited nodes (the data structures of internal/graph).
THEOREM TypeCorrect == Spec => []TypeOK
<1>1. Init => TypeOK
  <2> SUFFICES ASSUME Init PROVE TypeOK
    OBVIOUS
  <2>1. edges \subseteq Edge /\ class \in [Node -> Class] /\ walker \in Walkers /\ limit \in Limits
    BY GraphAssumption DEF Init
  <2>2. Visited = {Start} /\ path[Start] = <<>> BY DEF Init, Visited
  <2>3. Visited \subseteq Node /\ cur \in Visited BY <2>2, GraphAssumption DEF Init
  <2>4. \A n \in Visited : path[n] \in Seq(edges) BY <2>2, EmptyIsSeq
  <2>5. queue \in Seq(Visited) /\ found \in Seq(Node) /\ done \in BOOLEAN BY EmptyIsSeq DEF Init
  <2> QED BY <2>1, <2>3, <2>4, <2>5 DEF TypeOK
<1>2. TypeOK /\ [Next]_vars => TypeOK'
  <2> SUFFICES ASSUME TypeOK, [Next]_vars PROVE TypeOK'
    OBVIOUS
  <2>1. CASE \E e \in edges : Follow(e) BY <2>1, FollowType
  <2>2. CASE Dequeue BY <2>2, DequeueType
  <2>3. CASE Finish
    BY <2>3 DEF Finish, graphVars, TypeOK, Visited
  <2>4. CASE UNCHANGED vars BY <2>4 DEF vars, TypeOK, Visited
  <2> QED BY <2>1, <2>2, <2>3, <2>4 DEF Next
<1> QED BY <1>1, <1>2, PTL DEF Spec

-----------------------------------------------------------------------------
(* The paths.                                                              *)

LEMMA WalkGrows ==
  ASSUME NEW w \in Seq(Usable), IsWalk(w), NEW e \in Usable, e.src = End(w)
  PROVE  /\ Append(w, e) \in Seq(Usable)
         /\ Len(Append(w, e)) = Len(w) + 1
         /\ IsWalk(Append(w, e))
         /\ End(Append(w, e)) = e.dst
<1> DEFINE v == Append(w, e)
<1>1. /\ v \in Seq(Usable) /\ Len(v) = Len(w) + 1 /\ Len(w) \in Nat
      /\ DOMAIN v = 1 .. Len(w) + 1
      /\ \A i \in 1 .. Len(w) : v[i] = w[i]
      /\ v[Len(w) + 1] = e
      /\ v # <<>>
  OBVIOUS
<1>2. DOMAIN w = 1 .. Len(w) /\ (w = <<>> <=> Len(w) = 0) OBVIOUS
<1> HIDE DEF v
<1>3. End(v) = e.dst BY <1>1 DEF End
<1>4. ASSUME NEW i \in DOMAIN v
      PROVE  v[i].src = IF i = 1 THEN Start ELSE v[i - 1].dst
  <2>1. CASE i \in 1 .. Len(w)
    <3>1. v[i] = w[i] /\ (i # 1 => v[i - 1] = w[i - 1]) BY <1>1, <2>1
    <3> QED BY <3>1, <2>1, <1>2 DEF IsWalk
  <2>2. CASE i = Len(w) + 1
    <3>1. CASE Len(w) = 0 BY <1>1, <1>2, <2>2, <3>1 DEF End
    <3>2. CASE Len(w) # 0
      <4>1. End(w) = w[Len(w)].dst BY <1>2, <3>2 DEF End
      <4>2. i # 1 /\ v[i - 1] = w[Len(w)] BY <1>1, <2>2, <3>2
      <4> QED BY <1>1, <2>2, <4>1, <4>2
    <3> QED BY <3>1, <3>2
  <2> QED BY <1>1, <2>1, <2>2
<1>5. IsWalk(v) BY <1>4 DEF IsWalk
<1> QED BY <1>1, <1>3, <1>5 DEF v

PathInv == PathsAreReal /\ Start \in Visited /\ path[Start] = <<>>

\* A step that leaves path and the graph alone.
LEMMA PathFrame ==
  ASSUME PathInv, UNCHANGED <<edges, walker, path>>
  PROVE  PathInv'
<1>1. Usable' = Usable BY DEF Usable
<1> QED BY <1>1 DEF PathInv, PathsAreReal, Visited, Hops, IsWalk, End

LEMMA PathInvInit == Init => PathInv
<1> SUFFICES ASSUME Init PROVE PathInv
  OBVIOUS
<1>1. Visited = {Start} /\ path[Start] = <<>> BY DEF Init, Visited
<1>2. <<>> \in Seq(Usable) /\ Len(<<>>) = 0 BY EmptyIsSeq
<1>3. IsWalk(<<>>) /\ End(<<>>) = Start BY DEF IsWalk, End
<1>4. \A n \in Visited : path[n] = <<>> /\ n = Start BY <1>1
<1>5. 0 <= MaxHops BY BoundsType
<1> QED BY <1>1, <1>2, <1>3, <1>4, <1>5 DEF PathInv, PathsAreReal, Hops

LEMMA FollowPath ==
  ASSUME TypeOK, PathInv, NEW e \in edges, Follow(e)
  PROVE  PathInv'
<1>1. /\ e \in Usable /\ e.src = cur /\ e.dst \notin Visited
      /\ Visited' = Visited \cup {e.dst}
      /\ \A n \in Visited : path'[n] = path[n]
      /\ path'[e.dst] = Append(path[cur], e)
  BY VisitPath
<1>2. Usable' = Usable BY DEF Follow, graphVars, Usable
<1>3. /\ path[cur] \in Seq(Usable) /\ IsWalk(path[cur]) /\ End(path[cur]) = cur
      /\ Hops(cur) \in Nat /\ Len(path[cur]) < MaxHops
  <2>1. cur \in Visited BY DEF TypeOK
  <2>2. ~ Hops(cur) >= MaxHops BY FreshType DEF Follow
  <2> QED BY <2>1, <2>2, HopsType, BoundsType DEF PathInv, PathsAreReal, Hops
<1>4. /\ Append(path[cur], e) \in Seq(Usable)
      /\ Len(Append(path[cur], e)) = Len(path[cur]) + 1
      /\ IsWalk(Append(path[cur], e))
      /\ End(Append(path[cur], e)) = e.dst
  BY <1>1, <1>3, WalkGrows
<1>5. ASSUME NEW n \in Visited'
      PROVE  /\ path'[n] \in Seq(Usable) /\ IsWalk(path'[n])
             /\ End(path'[n]) = n
             /\ Len(path'[n]) <= MaxHops
  <2>1. CASE n \in Visited BY <1>1, <2>1 DEF PathInv, PathsAreReal, Hops
  <2>2. CASE n = e.dst
    <3>1. Len(path[cur]) + 1 <= MaxHops BY <1>3, BoundsType DEF Hops
    <3> QED BY <1>1, <1>4, <2>2, <3>1
  <2> QED BY <1>1, <2>1, <2>2
<1>6. Start \in Visited' /\ path'[Start] = <<>> BY <1>1 DEF PathInv
<1> QED BY <1>2, <1>5, <1>6 DEF PathInv, PathsAreReal, Hops, IsWalk, End

LEMMA PathInvNext == TypeOK /\ PathInv /\ [Next]_vars => PathInv'
<1> SUFFICES ASSUME TypeOK, PathInv, [Next]_vars PROVE PathInv'
  OBVIOUS
<1>1. CASE \E e \in edges : Follow(e) BY <1>1, FollowPath
<1>2. CASE Dequeue BY <1>2, PathFrame DEF Dequeue, graphVars
<1>3. CASE Finish BY <1>3, PathFrame DEF Finish, graphVars
<1>4. CASE UNCHANGED vars BY <1>4, PathFrame DEF vars
<1> QED BY <1>1, <1>2, <1>3, <1>4 DEF Next

\* Every path that is kept for a node is a walk of the graph to that node, over edges
\* of the kind asked for and within the hop bound (AttackPaths' np and ne).
THEOREM PathsAreWalks == Spec => []PathsAreReal
<1>1. PathInv => PathsAreReal BY DEF PathInv
<1> QED BY <1>1, TypeCorrect, PathInvInit, PathInvNext, PTL DEF Spec

-----------------------------------------------------------------------------
(* Breadth first.                                                          *)

Waiting == {queue[i] : i \in DOMAIN queue}

\* Every usable edge of n has been looked at.
Covered(n) ==
  \A e \in Usable : e.src = n => e.dst \in Visited /\ Hops(e.dst) <= Hops(n) + 1

\* The queue is sorted by hops and holds at most two levels; what has left it is no
\* farther than cur, and all of it but cur has been expanded.
BreadthInv ==
  /\ \A i \in DOMAIN queue :
        Hops(cur) <= Hops(queue[i]) /\ Hops(queue[i]) <= Hops(cur) + 1
  /\ \A i, j \in DOMAIN queue : i <= j => Hops(queue[i]) <= Hops(queue[j])
  /\ \A n \in Visited \ Waiting : Hops(n) <= Hops(cur)
  /\ \A n \in Visited \ (Waiting \cup {cur}) : Hops(n) < MaxHops => Covered(n)

LEMMA BreadthInit == Init => BreadthInv
<1> SUFFICES ASSUME Init PROVE BreadthInv
  OBVIOUS
<1>1. /\ Visited = {Start} /\ cur = Start /\ queue = <<>> /\ path[Start] = <<>>
  BY DEF Init, Visited
<1>2. DOMAIN queue = {} BY <1>1
<1>3. Hops(Start) = 0 BY <1>1, EmptyIsSeq DEF Hops
<1> QED BY <1>1, <1>2, <1>3 DEF BreadthInv

LEMMA BreadthFrame ==
  ASSUME BreadthInv, UNCHANGED <<edges, walker, path, queue, cur>>
  PROVE  BreadthInv'
BY DEF BreadthInv, Waiting, Covered, Usable, Visited, Hops

LEMMA FollowBreadth ==
  ASSUME TypeOK, BreadthInv, NEW e \in edges, Follow(e)
  PROVE  BreadthInv'
<1> DEFINE h(n) == Len(path[n])
           k(n) == Len(path'[n])
<1>1. /\ e \in Usable /\ e.src = cur /\ e.dst \notin Visited
      /\ Visited' = Visited \cup {e.dst}
      /\ \A n \in Visited : path'[n] = path[n]
      /\ path'[e.dst] = Append(path[cur], e)
  BY VisitPath
<1>2. Usable' = Usable /\ cur' = cur BY DEF Follow, graphVars, Usable
<1>3. cur \in Visited /\ queue \in Seq(Visited) BY DEF TypeOK
<1>4. \A n \in Visited : h(n) \in Nat /\ k(n) = h(n) BY <1>1, HopsType DEF Hops
<1>5. k(e.dst) = h(cur) + 1
  <2>1. path[cur] \in Seq(edges) BY <1>3 DEF TypeOK
  <2> QED BY <1>1, <2>1
<1>6. /\ DOMAIN queue' = 1 .. Len(queue) + 1 /\ DOMAIN queue = 1 .. Len(queue)
      /\ Len(queue) \in Nat
      /\ \A i \in 1 .. Len(queue) : queue'[i] = queue[i] /\ queue[i] \in Visited
      /\ queue'[Len(queue) + 1] = e.dst
  <2>1. queue' = Append(queue, e.dst) BY DEF Follow
  <2> QED BY <1>3, <2>1
<1>7. /\ \A i \in DOMAIN queue : h(cur) <= h(queue[i]) /\ h(queue[i]) <= h(cur) + 1
      /\ \A i, j \in DOMAIN queue : i <= j => h(queue[i]) <= h(queue[j])
      /\ \A n \in Visited \ Waiting : h(n) <= h(cur)
      /\ \A n \in Visited \ (Waiting \cup {cur}) : h(n) < MaxHops =>
            \A d \in Usable : d.src = n => d.dst \in Visited /\ h(d.dst) <= h(n) + 1
  BY DEF BreadthInv, Covered, Hops
<1>8. Waiting' = Waiting \cup {e.dst} BY <1>6 DEF Waiting
<1> HIDE DEF h, k
<1>9. ASSUME NEW i \in DOMAIN queue'
      PROVE  k(cur) <= k(queue'[i]) /\ k(queue'[i]) <= k(cur) + 1
  <2>1. CASE i \in 1 .. Len(queue) BY <1>3, <1>4, <1>6, <1>7, <2>1
  <2>2. CASE i = Len(queue) + 1 BY <1>3, <1>4, <1>5, <1>6, <2>2
  <2> QED BY <1>6, <2>1, <2>2
<1>10. ASSUME NEW i \in DOMAIN queue', NEW j \in DOMAIN queue', i <= j
       PROVE  k(queue'[i]) <= k(queue'[j])
  <2>1. CASE j \in 1 .. Len(queue)
    <3>1. i \in 1 .. Len(queue) BY <1>6, <1>10, <2>1
    <3> QED BY <1>4, <1>6, <1>7, <1>10, <2>1, <3>1
  <2>2. CASE j = Len(queue) + 1
    <3>1. k(queue'[j]) = k(cur) + 1 BY <1>3, <1>4, <1>5, <1>6, <2>2
    <3> QED BY <1>9, <3>1
  <2> QED BY <1>6, <2>1, <2>2
<1>11. \A n \in Visited' \ Waiting' : k(n) <= k(cur)
  BY <1>1, <1>3, <1>4, <1>7, <1>8
<1>12. ASSUME NEW n \in Visited' \ (Waiting' \cup {cur}), k(n) < MaxHops,
              NEW d \in Usable, d.src = n
       PROVE  d.dst \in Visited' /\ k(d.dst) <= k(n) + 1
  <2>1. n \in Visited \ (Waiting \cup {cur}) BY <1>1, <1>8
  <2> QED BY <1>1, <1>4, <1>7, <1>12, <2>1
<1> QED BY <1>2, <1>9, <1>10, <1>11, <1>12 DEF BreadthInv, Covered, Hops, h, k

LEMMA DequeueBreadth ==
  ASSUME TypeOK, BreadthInv, Dequeue
  PROVE  /\ BreadthInv'
         /\ cur' \in Waiting /\ Hops(cur) <= Hops(cur')
         /\ Waiting \subseteq Waiting' \cup {cur'}
<1>1. /\ cur \in Visited /\ queue \in Seq(Visited) /\ queue # <<>>
      /\ cur' = Head(queue) /\ queue' = Tail(queue)
      /\ path' = path /\ Visited' = Visited /\ Usable' = Usable
  BY DEF TypeOK, Dequeue, graphVars, Visited, Usable
<1>2. /\ Len(queue) \in Nat \ {0} /\ DOMAIN queue = 1 .. Len(queue)
      /\ DOMAIN queue' = 1 .. Len(queue) - 1
      /\ cur' = queue[1]
      /\ \A i \in 1 .. Len(queue) - 1 : queue'[i] = queue[i + 1]
      /\ \A i \in 1 .. Len(queue) : queue[i] \in Visited
  BY <1>1
<1>3. cur' \in Waiting /\ Waiting = Waiting' \cup {cur'}
  <2>1. cur' \in Waiting /\ Waiting' \subseteq Waiting BY <1>2 DEF Waiting
  <2>2. ASSUME NEW i \in 1 .. Len(queue) PROVE queue[i] \in Waiting' \cup {cur'}
    <3>1. CASE i = 1 BY <1>2, <3>1
    <3>2. CASE i # 1
      <4>1. i - 1 \in DOMAIN queue' /\ queue'[i - 1] = queue[i] BY <1>2, <3>2
      <4> QED BY <4>1 DEF Waiting
    <3> QED BY <3>1, <3>2
  <2>3. \A n \in Waiting : \E i \in 1 .. Len(queue) : n = queue[i] BY <1>2 DEF Waiting
  <2> QED BY <2>1, <2>2, <2>3
<1>4. \A n \in Visited : Hops(n) \in Nat BY HopsType
<1>5. cur' \in Visited /\ Hops(cur) <= Hops(cur') /\ Hops(cur') <= Hops(cur) + 1
  BY <1>2 DEF BreadthInv
<1>6. Covered(cur) \/ Hops(cur) >= MaxHops
  <2> SUFFICES ASSUME ~ Hops(cur) >= MaxHops, NEW d \in Usable, d.src = cur
               PROVE  d.dst \in Visited /\ Hops(d.dst) <= Hops(cur) + 1
    BY DEF Covered
  <2>1. d.dst \in Visited BY DEF Dequeue, Fresh
  <2>2. CASE d.dst \in Waiting BY <2>1, <2>2 DEF Waiting, BreadthInv
  <2>3. CASE d.dst \notin Waiting
    <3>1. Hops(d.dst) <= Hops(cur) BY <2>1, <2>3 DEF BreadthInv
    <3> QED BY <1>1, <1>4, <2>1, <3>1
  <2> QED BY <2>2, <2>3
<1>7. ASSUME NEW i \in DOMAIN queue'
      PROVE  Hops(cur') <= Hops(queue'[i]) /\ Hops(queue'[i]) <= Hops(cur') + 1
  <2>1. i + 1 \in DOMAIN queue /\ 1 \in DOMAIN queue /\ 1 <= i + 1 BY <1>2
  <2>2. Hops(queue[1]) <= Hops(queue[i + 1]) /\ Hops(queue[i + 1]) <= Hops(cur) + 1
    BY <2>1 DEF BreadthInv
  <2>3. queue[i + 1] \in Visited BY <1>2, <2>1
  <2> QED BY <1>1, <1>2, <1>4, <1>5, <2>2, <2>3
<1>8. ASSUME NEW i \in DOMAIN queue', NEW j \in DOMAIN queue', i <= j
      PROVE  Hops(queue'[i]) <= Hops(queue'[j])
  <2>1. i + 1 \in DOMAIN queue /\ j + 1 \in DOMAIN queue /\ i + 1 <= j + 1 BY <1>2, <1>8
  <2> QED BY <1>2, <2>1 DEF BreadthInv
<1>9. ASSUME NEW n \in Visited \ Waiting' PROVE Hops(n) <= Hops(cur')
  <2>1. CASE n = cur' BY <1>4, <1>5, <2>1
  <2>2. CASE n # cur'
    <3>1. n \in Visited /\ n \notin Waiting BY <1>3, <1>9, <2>2
    <3>2. Hops(n) <= Hops(cur) BY <3>1 DEF BreadthInv
    <3>3. Hops(n) \in Nat /\ Hops(cur) \in Nat /\ Hops(cur') \in Nat BY <1>1, <1>4, <1>5, <3>1
    <3> QED BY <1>5, <3>2, <3>3
  <2> QED BY <2>1, <2>2
<1>10. ASSUME NEW n \in Visited \ (Waiting' \cup {cur'}), Hops(n) < MaxHops
       PROVE  Covered(n)
  <2>1. n \notin Waiting BY <1>3, <1>10
  <2>2. CASE n = cur
    <3>1. ~ Hops(cur) >= MaxHops BY <1>1, <1>4, <1>10, <2>2, BoundsType
    <3> QED BY <1>6, <2>2, <3>1
  <2>3. CASE n # cur BY <1>10, <2>1, <2>3 DEF BreadthInv
  <2> QED BY <2>2, <2>3
<1>11. BreadthInv'
  BY <1>1, <1>7, <1>8, <1>9, <1>10 DEF BreadthInv, Covered, Hops
<1> QED BY <1>3, <1>5, <1>11

LEMMA BreadthNext == TypeOK /\ BreadthInv /\ [Next]_vars => BreadthInv'
<1> SUFFICES ASSUME TypeOK, BreadthInv, [Next]_vars PROVE BreadthInv'
  OBVIOUS
<1>1. CASE \E e \in edges : Follow(e) BY <1>1, FollowBreadth
<1>2. CASE Dequeue BY <1>2, DequeueBreadth
<1>3. CASE Finish BY <1>3, BreadthFrame DEF Finish, graphVars
<1>4. CASE UNCHANGED vars BY <1>4, BreadthFrame DEF vars
<1> QED BY <1>1, <1>2, <1>3, <1>4 DEF Next

-----------------------------------------------------------------------------
(* Distances.                                                              *)

Below == {p \in Nat \X Nat : p[1] < p[2]}

\* Induction in the form the provers can use: a set of numbers has a least one.
LEMMA LeastOf ==
  ASSUME NEW S, S \subseteq Nat, S # {}
  PROVE  \E m \in S : \A k \in S : m <= k
<1>1. IsWellFoundedOn(Below, Nat)
  BY NatLessThanWellFounded DEF Below, OpToRel
<1>2. PICK m \in S : \A k \in S : ~ (<<k, m>> \in Below)
  BY <1>1, WFMin
<1>3. ASSUME NEW k \in S PROVE m <= k
  <2>1. k \in Nat /\ m \in Nat OBVIOUS
  <2>2. <<k, m>> \in Nat \X Nat BY <2>1
  <2>3. ~ (k < m)
    <3>1. k < m => <<k, m>> \in Below BY <2>2 DEF Below
    <3> QED BY <1>2, <3>1
  <2> QED BY <2>1, <2>3
<1> QED BY <1>3

\* The node a walk is at after i edges.
At(w, i) == IF i = 0 THEN Start ELSE w[i].dst

LEMMA WalkType ==
  ASSUME NEW w \in Walks
  PROVE  /\ Len(w) \in Nat /\ Len(w) <= MaxHops
         /\ End(w) = At(w, Len(w))
         /\ \A i \in 1 .. Len(w) : w[i] \in Usable /\ w[i].src = At(w, i - 1)
<1>1. PICK k \in 0 .. MaxHops : w \in [1 .. k -> Usable]
  BY DEF Walks
<1>2. k \in Nat /\ k <= MaxHops BY <1>1, BoundsType
<1>3. Len(w) = k /\ DOMAIN w = 1 .. k /\ (w = <<>> <=> k = 0)
  <2>1. w \in Seq(Usable) BY <1>1, <1>2
  <2>2. DOMAIN w = 1 .. k BY <1>1
  <2>3. Len(w) = k BY <1>2, <2>1, <2>2
  <2> QED BY <2>1, <2>2, <2>3
<1>4. IsWalk(w) BY DEF Walks
<1>5. \A i \in 1 .. k : w[i] \in Usable BY <1>1
<1>6. ASSUME NEW i \in 1 .. k PROVE w[i].src = At(w, i - 1)
  BY <1>2, <1>3, <1>4 DEF IsWalk, At
<1> QED BY <1>2, <1>3, <1>5, <1>6 DEF End, At

\* If all nodes visited in fewer than K hops are covered, the hop count of whatever a
\* walk of at most K edges leads to is at most the length of the walk.
LEMMA CoveredWalk ==
  ASSUME TypeOK, PathInv, NEW K \in Nat,
         \A n \in Visited : Hops(n) < K => Covered(n),
         NEW w \in Walks, Len(w) <= K
  PROVE  End(w) \in Visited /\ Hops(End(w)) <= Len(w)
<1> DEFINE Good(i) == At(w, i) \in Visited /\ Hops(At(w, i)) <= i
           Bad == {i \in 0 .. Len(w) : ~ Good(i)}
<1>1. /\ Len(w) \in Nat
      /\ \A i \in 1 .. Len(w) : w[i] \in Usable /\ w[i].src = At(w, i - 1)
      /\ End(w) = At(w, Len(w))
  BY WalkType
<1>2. Good(0)
  BY EmptyIsSeq DEF PathInv, At, Hops
<1>3. Bad = {}
  <2> SUFFICES ASSUME Bad # {} PROVE FALSE
    OBVIOUS
  <2>1. Bad \subseteq Nat BY <1>1
  <2>2. PICK m \in Bad : \A k \in Bad : m <= k BY <2>1, LeastOf
  <2>3. m \in 1 .. Len(w) /\ m - 1 \in 0 .. Len(w) BY <1>1, <1>2, <2>2
  <2>4. Good(m - 1)
    <3>1. m - 1 \notin Bad BY <2>2, <2>3
    <3> QED BY <2>3, <3>1
  <2>5. Hops(At(w, m - 1)) \in Nat /\ Hops(At(w, m - 1)) < K
    BY <1>1, <2>3, <2>4, HopsType
  <2>6. Covered(At(w, m - 1)) BY <2>4, <2>5
  <2>7. w[m].dst \in Visited /\ Hops(w[m].dst) <= Hops(At(w, m - 1)) + 1
    BY <1>1, <2>3, <2>6 DEF Covered
  <2>8. Hops(w[m].dst) \in Nat BY <2>7, HopsType
  <2>9. At(w, m) = w[m].dst BY <2>3 DEF At
  <2>10. Hops(w[m].dst) <= m BY <2>3, <2>4, <2>5, <2>7, <2>8
  <2> QED BY <2>2, <2>7, <2>9, <2>10
<1>4. Len(w) \in 0 .. Len(w) BY <1>1
<1> QED BY <1>1, <1>3, <1>4

\* A traversal that is done has either stopped or run dry.
DoneInv == done => Stopped \/ (queue = <<>> /\ Fresh = {})

LEMMA DoneInit == Init => DoneInv
BY DEF Init, DoneInv

LEMMA DoneNext == TypeOK /\ DoneInv /\ [Next]_vars => DoneInv'
<1> SUFFICES ASSUME TypeOK, DoneInv, [Next]_vars PROVE DoneInv'
  OBVIOUS
<1>1. CASE \E e \in edges : Follow(e) BY <1>1 DEF Follow, DoneInv
<1>2. CASE Dequeue
  <2> SUFFICES ASSUME done' PROVE Stopped'
    BY DEF DoneInv
  <2>1. found' # found /\ Len(found') >= limit' * 3 BY <1>2 DEF Dequeue, graphVars
  <2>2. found' = Append(found, cur') BY <1>2, <2>1 DEF Dequeue, Gathered
  <2>3. found' # <<>> BY <2>2 DEF TypeOK
  <2> QED BY <2>1, <2>3 DEF Stopped
<1>3. CASE Finish
  BY <1>3 DEF Finish, graphVars, DoneInv, Fresh, Hops, Usable, Visited
<1>4. CASE UNCHANGED vars
  BY <1>4 DEF vars, DoneInv, Fresh, Hops, Usable, Visited, Stopped
<1> QED BY <1>1, <1>2, <1>3, <1>4 DEF Next

SearchInv == TypeOK /\ PathInv /\ BreadthInv /\ DoneInv

LEMMA DistancesHold == SearchInv => HopsAreShortest
<1> SUFFICES ASSUME SearchInv, done, ~Stopped, NEW w \in Walks
             PROVE  End(w) \in Visited /\ Hops(End(w)) <= Len(w)
  BY DEF HopsAreShortest
<1>1. TypeOK /\ PathInv /\ BreadthInv BY DEF SearchInv
<1>2. queue = <<>> /\ Fresh = {} BY DEF SearchInv, DoneInv
<1>3. Waiting = {} BY <1>2 DEF Waiting
<1>4. MaxHops \in Nat /\ Len(w) <= MaxHops BY BoundsType, WalkType
<1>5. ASSUME NEW n \in Visited, Hops(n) < MaxHops PROVE Covered(n)
  <2>1. CASE n # cur BY <1>1, <1>3, <1>5, <2>1 DEF BreadthInv
  <2>2. CASE n = cur
    <3>1. Hops(cur) \in Nat BY <1>1, <1>5, <2>2, HopsType
    <3>2. ~ Hops(cur) >= MaxHops BY <1>4, <1>5, <2>2, <3>1
    <3>3. \A e \in Usable : e.src = cur => e.dst \in Visited
      BY <1>2, <3>2 DEF Fresh
    <3>4. \A m \in Visited : Hops(m) \in Nat /\ Hops(m) <= Hops(cur)
      BY <1>1, <1>3, HopsType DEF BreadthInv
    <3>5. \A m \in Visited : Hops(m) <= Hops(cur) + 1 BY <3>1, <3>4
    <3> QED BY <2>2, <3>3, <3>5 DEF Covered
  <2> QED BY <2>1, <2>2
<1> QED BY <1>1, <1>4, <1>5, CoveredWalk

\* A traversal that was not cut short has visited all that a walk within the hop bound
\* leads to, and no walk is shorter than the hops it counted (Reachable).
THEOREM ShortestWalks == Spec => []HopsAreShortest
<1>1. Init => PathInv /\ BreadthInv /\ DoneInv BY PathInvInit, BreadthInit, DoneInit
<1>2. TypeOK /\ PathInv /\ BreadthInv /\ DoneInv /\ [Next]_vars => PathInv' /\ BreadthInv' /\ DoneInv'
  BY PathInvNext, BreadthNext, DoneNext
<1>3. TypeOK /\ PathInv /\ BreadthInv /\ DoneInv => HopsAreShortest
  BY DistancesHold DEF SearchInv
<1> QED BY <1>1, <1>2, <1>3, TypeCorrect, PTL DEF Spec

-----------------------------------------------------------------------------
(* The targets AttackPaths gathers.                                        *)

\* Targets that have left the queue have been found, and none is farther than cur.
GatherInv ==
  walker = "paths" =>
    /\ \A t \in (Visited \ Waiting) \cap (Targets \ {Start}) :
          \E i \in DOMAIN found : found[i] = t
    /\ \A i \in DOMAIN found : found[i] \in Visited /\ Hops(found[i]) <= Hops(cur)

LEMMA GatherInit == Init => GatherInv
BY EmptyIsSeq DEF Init, GatherInv, Visited

LEMMA GatherFrame ==
  ASSUME GatherInv, UNCHANGED <<graphVars, path, queue, cur, found>>
  PROVE  GatherInv'
BY DEF GatherInv, graphVars, Waiting, Visited, Targets, Hops

LEMMA FollowGather ==
  ASSUME TypeOK, GatherInv, NEW e \in edges, Follow(e)
  PROVE  GatherInv'
<1> SUFFICES ASSUME walker = "paths"
             PROVE  /\ \A t \in (Visited' \ Waiting') \cap (Targets' \ {Start}) :
                          \E i \in DOMAIN found' : found'[i] = t
                    /\ \A i \in DOMAIN found' :
                          found'[i] \in Visited' /\ Len(path'[found'[i]]) <= Len(path'[cur'])
  BY DEF Follow, graphVars, GatherInv, Hops
<1>1. /\ Visited' = Visited \cup {e.dst}
      /\ \A n \in Visited : path'[n] = path[n]
  BY VisitPath
<1>2. cur' = cur /\ found' = found /\ Targets' = Targets /\ cur \in Visited
  BY DEF Follow, graphVars, Targets, TypeOK
<1>3. Waiting \cup {e.dst} \subseteq Waiting'
  <2>1. queue' = Append(queue, e.dst) /\ queue \in Seq(Visited) BY DEF Follow, TypeOK
  <2>2. /\ DOMAIN queue = 1 .. Len(queue) /\ DOMAIN queue' = 1 .. Len(queue) + 1
        /\ Len(queue) \in Nat
        /\ \A i \in 1 .. Len(queue) : queue'[i] = queue[i]
        /\ queue'[Len(queue) + 1] = e.dst
    BY <2>1
  <2> QED BY <2>2 DEF Waiting
<1> QED BY <1>1, <1>2, <1>3 DEF GatherInv, Hops

LEMMA DequeueGather ==
  ASSUME TypeOK, BreadthInv, GatherInv, Dequeue
  PROVE  GatherInv'
<1> SUFFICES ASSUME walker = "paths"
             PROVE  /\ \A t \in (Visited \ Waiting') \cap (Targets \ {Start}) :
                          \E i \in DOMAIN found' : found'[i] = t
                    /\ \A i \in DOMAIN found' :
                          found'[i] \in Visited /\ Hops(found'[i]) <= Hops(cur')
  BY DEF Dequeue, graphVars, GatherInv, Hops, Visited, Targets
<1>1. Hops(cur) <= Hops(cur') /\ Waiting \subseteq Waiting' \cup {cur'} /\ cur' \in Visited
  BY DequeueBreadth, DequeueType
<1>2. \A n \in Visited : Hops(n) \in Nat BY HopsType
<1>3. cur \in Visited /\ found \in Seq(Node) BY DEF TypeOK
<1>4. \A i \in DOMAIN found : found[i] \in Visited /\ Hops(found[i]) <= Hops(cur')
  <2> SUFFICES ASSUME NEW i \in DOMAIN found
               PROVE  found[i] \in Visited /\ Hops(found[i]) <= Hops(cur')
    OBVIOUS
  <2>1. found[i] \in Visited /\ Hops(found[i]) <= Hops(cur) BY DEF GatherInv
  <2> QED BY <1>1, <1>2, <1>3, <2>1
<1>5. \A t \in (Visited \ Waiting') \cap (Targets \ {Start}) :
         t = cur' \/ \E i \in DOMAIN found : found[i] = t
  BY <1>1 DEF GatherInv
<1>6. CASE cur' \notin Targets
  <2>1. found' = found BY <1>6 DEF Dequeue, Gathered
  <2> QED BY <1>4, <1>5, <1>6, <2>1
<1>7. CASE cur' \in Targets
  <2>1. found' = Append(found, cur') BY <1>7 DEF Dequeue, Gathered
  <2>2. /\ DOMAIN found = 1 .. Len(found) /\ DOMAIN found' = 1 .. Len(found) + 1
        /\ Len(found) \in Nat
        /\ \A i \in 1 .. Len(found) : found'[i] = found[i]
        /\ found'[Len(found) + 1] = cur'
    BY <1>1, <1>3, <2>1, DequeueType DEF TypeOK
  <2>3. Hops(cur') <= Hops(cur') BY <1>1, <1>2
  <2>4. \A i \in DOMAIN found' : i \in DOMAIN found \/ found'[i] = cur' BY <2>2
  <2>5. \A i \in DOMAIN found : i \in DOMAIN found' /\ found'[i] = found[i] BY <2>2
  <2>6. \E i \in DOMAIN found' : found'[i] = cur' BY <2>2
  <2> QED BY <1>1, <1>4, <1>5, <2>3, <2>4, <2>5, <2>6
<1> QED BY <1>6, <1>7

LEMMA GatherNext == TypeOK /\ BreadthInv /\ GatherInv /\ [Next]_vars => GatherInv'
<1> SUFFICES ASSUME TypeOK, BreadthInv, GatherInv, [Next]_vars PROVE GatherInv'
  OBVIOUS
<1>1. CASE \E e \in edges : Follow(e) BY <1>1, FollowGather
<1>2. CASE Dequeue BY <1>2, DequeueGather
<1>3. CASE Finish BY <1>3, GatherFrame DEF Finish
<1>4. CASE UNCHANGED vars BY <1>4, GatherFrame DEF vars, graphVars
<1> QED BY <1>1, <1>2, <1>3, <1>4 DEF Next

LEMMA GatheredAreNearest == SearchInv /\ GatherInv => NearestAreGathered
<1> SUFFICES ASSUME SearchInv, GatherInv, done, walker = "paths", NEW w \in Walks,
                    End(w) \in Targets \ {Start},
                    ~ \E i \in DOMAIN found : found[i] = End(w)
             PROVE  Stopped /\ \A i \in DOMAIN found : Hops(found[i]) <= Len(w)
  BY DEF NearestAreGathered
<1>1. TypeOK /\ PathInv /\ BreadthInv BY DEF SearchInv
<1>2. cur \in Visited /\ Hops(cur) \in Nat /\ Hops(cur) <= MaxHops
  BY <1>1, HopsType DEF TypeOK, PathInv, PathsAreReal
<1>3. End(w) \in Visited => End(w) \in Waiting BY DEF GatherInv
<1>4. Stopped
  <2> SUFFICES ASSUME ~Stopped PROVE FALSE
    OBVIOUS
  <2>1. End(w) \in Visited BY DistancesHold DEF HopsAreShortest
  <2>2. queue = <<>> BY DEF SearchInv, DoneInv
  <2>3. Waiting = {} BY <2>2 DEF Waiting
  <2> QED BY <1>3, <2>1, <2>3
<1>5. Len(w) \in Nat BY WalkType
<1>6. ASSUME NEW n \in Visited, Hops(n) < Hops(cur) PROVE Covered(n)
  <2>1. Hops(n) \in Nat /\ Hops(n) < MaxHops BY <1>1, <1>2, <1>6, HopsType, BoundsType
  <2>2. n # cur BY <1>2, <1>6
  <2>3. n \notin Waiting
    <3>1. \A i \in DOMAIN queue : Hops(cur) <= Hops(queue[i]) BY <1>1 DEF BreadthInv
    <3>2. n \in Waiting => Hops(cur) <= Hops(n) BY <3>1 DEF Waiting
    <3> QED BY <1>2, <1>6, <2>1, <3>2
  <2> QED BY <1>1, <2>1, <2>2, <2>3 DEF BreadthInv
<1>7. Hops(cur) <= Len(w)
  <2> SUFFICES ASSUME Len(w) < Hops(cur) PROVE FALSE
    BY <1>2, <1>5
  <2>1. End(w) \in Visited /\ Hops(End(w)) <= Len(w)
    BY <1>1, <1>2, <1>5, <1>6, CoveredWalk
  <2>2. \E i \in DOMAIN queue : End(w) = queue[i] BY <1>3, <2>1 DEF Waiting
  <2>3. Hops(cur) <= Hops(End(w)) BY <1>1, <2>2 DEF BreadthInv
  <2>4. Hops(End(w)) \in Nat BY <1>1, <2>1, HopsType
  <2> QED BY <1>2, <1>5, <2>1, <2>3, <2>4
<1>8. ASSUME NEW i \in DOMAIN found PROVE Hops(found[i]) <= Len(w)
  <2>1. found[i] \in Visited /\ Hops(found[i]) <= Hops(cur) BY DEF GatherInv
  <2>2. Hops(found[i]) \in Nat BY <1>1, <2>1, HopsType
  <2> QED BY <1>2, <1>5, <1>7, <2>1, <2>2
<1> QED BY <1>4, <1>8

\* AttackPaths misses a target within the hop bound only when it has gathered enough,
\* and then the target is no nearer than any that was gathered.
THEOREM NearestFirst == Spec => []NearestAreGathered
<1>1. Init => PathInv /\ BreadthInv /\ DoneInv /\ GatherInv
  BY PathInvInit, BreadthInit, DoneInit, GatherInit
<1>2. TypeOK /\ PathInv /\ BreadthInv /\ DoneInv /\ GatherInv /\ [Next]_vars
        => PathInv' /\ BreadthInv' /\ DoneInv' /\ GatherInv'
  BY PathInvNext, BreadthNext, DoneNext, GatherNext
<1>3. TypeOK /\ PathInv /\ BreadthInv /\ DoneInv /\ GatherInv => NearestAreGathered
  BY GatheredAreNearest DEF SearchInv
<1> QED BY <1>1, <1>2, <1>3, TypeCorrect, PTL DEF Spec

-----------------------------------------------------------------------------
(* The blast radius.                                                       *)

LEMMA LeastIs ==
  ASSUME NEW S, S \subseteq Nat, NEW m \in S, \A k \in S : m <= k
  PROVE  Least(S) = m
<1>1. Least(S) \in S /\ \A k \in S : Least(S) <= k
  BY DEF Least
<1> DEFINE l == Least(S)
<1>2. l \in Nat /\ m \in Nat /\ l <= m /\ m <= l BY <1>1
<1> HIDE DEF l
<1>3. l = m BY <1>2
<1> QED BY <1>3 DEF l

\* Two sets of numbers of which the smaller one has, for each number of the larger, one
\* that is not greater.
LEMMA LeastOfBoth ==
  ASSUME NEW A, NEW B, A \subseteq B, B \subseteq Nat, B # {},
         \A k \in B : \E m \in A : m <= k
  PROVE  Least(A) = Least(B)
<1>1. A \subseteq Nat /\ A # {} OBVIOUS
<1>2. PICK m \in A : \A k \in A : m <= k BY <1>1, LeastOf
<1>3. ASSUME NEW k \in B PROVE m <= k
  <2>1. PICK a \in A : a <= k OBVIOUS
  <2> QED BY <1>1, <1>2, <2>1
<1> QED BY <1>1, <1>2, <1>3, LeastIs

\* The path that is kept for a node is one of the walks.
LEMMA PathIsWalk ==
  ASSUME TypeOK, PathsAreReal, NEW n \in Visited
  PROVE  path[n] \in Walks /\ End(path[n]) = n /\ Len(path[n]) = Hops(n)
<1>1. /\ path[n] \in Seq(Usable) /\ IsWalk(path[n]) /\ End(path[n]) = n
      /\ Len(path[n]) <= MaxHops
  BY DEF PathsAreReal, Hops
<1>2. Len(path[n]) \in 0 .. MaxHops BY <1>1, BoundsType
<1>3. path[n] \in [1 .. Len(path[n]) -> Usable] BY <1>1
<1>4. path[n] \in UNION {[1 .. k -> Usable] : k \in 0 .. MaxHops} BY <1>2, <1>3
<1> QED BY <1>1, <1>4 DEF Walks, Hops

\* Only AttackPaths gathers, so the other two never stop early.
FoundInv == walker # "paths" => found = <<>>

LEMMA FoundStep == FoundInv /\ [Next]_vars => FoundInv'
BY DEF FoundInv, Next, Follow, Dequeue, Gathered, Finish, vars, graphVars

LEMMA BlastHolds ==
  ASSUME SearchInv, FoundInv, done, walker = "reach"
  PROVE  BlastIsExact
<1> DEFINE Of(classes) == {n \in Reached : class[n] \in classes}
           To(classes) == {w \in Walks : End(w) # Start /\ class[End(w)] \in classes}
           Ends(classes) == {End(w) : w \in To(classes)}
<1>1. TypeOK /\ PathsAreReal /\ HopsAreShortest
  BY DistancesHold DEF SearchInv, PathInv
<1>2. ~Stopped BY DEF FoundInv, Stopped
<1>3. \A w \in Walks : End(w) \in Visited /\ Hops(End(w)) <= Len(w)
  BY <1>1, <1>2 DEF HopsAreShortest
<1>4. \A n \in Visited : path[n] \in Walks /\ End(path[n]) = n /\ Len(path[n]) = Hops(n)
  BY <1>1, PathIsWalk
<1>5. ASSUME NEW classes PROVE Ends(classes) = Of(classes)
  <2>1. \A n \in Of(classes) : path[n] \in To(classes) /\ End(path[n]) = n
    BY <1>4 DEF Reached
  <2>2. \A w \in To(classes) : End(w) \in Of(classes)
    BY <1>3 DEF Reached
  <2> HIDE DEF Of, To
  <2> QED BY <2>1, <2>2
<1>6. ASSUME NEW classes PROVE To(classes) = {} <=> Of(classes) = {}
  <2>1. To(classes) = {} <=> Ends(classes) = {} BY DEF Ends
  <2> QED BY <1>5, <2>1
<1>7. ASSUME NEW classes, Of(classes) # {}
      PROVE  Least({Hops(n) : n \in Of(classes)}) = Least({Len(w) : w \in To(classes)})
  <2> DEFINE A == {Hops(n) : n \in Of(classes)}
             B == {Len(w) : w \in To(classes)}
  <2>1. \A n \in Of(classes) : path[n] \in To(classes) /\ Len(path[n]) = Hops(n)
    BY <1>4 DEF Reached
  <2>2. \A w \in To(classes) : End(w) \in Of(classes) /\ Hops(End(w)) <= Len(w)
    BY <1>3 DEF Reached
  <2>3. \A w \in To(classes) : Len(w) \in Nat BY WalkType
  <2> HIDE DEF Of, To
  <2>4. A \subseteq B BY <2>1
  <2>5. B \subseteq Nat BY <2>3
  <2>6. A # {} BY <1>7
  <2>7. \A k \in B : \E m \in A : m <= k BY <2>2
  <2> HIDE DEF A, B
  <2>8. Least(A) = Least(B) BY <2>4, <2>5, <2>6, <2>7, LeastOfBoth
  <2> QED BY <2>8 DEF A, B
<1> DEFINE nearest == IF Of({"crown_jewel"}) = {} THEN -1
                      ELSE Least({Hops(n) : n \in Of({"crown_jewel"})})
           shortest == IF To({"crown_jewel"}) = {} THEN -1
                       ELSE Least({Len(w) : w \in To({"crown_jewel"})})
<1>8. nearest = shortest
  <2>1. To({"crown_jewel"}) = {} <=> Of({"crown_jewel"}) = {} BY <1>6
  <2>2. Of({"crown_jewel"}) # {} =>
            Least({Hops(n) : n \in Of({"crown_jewel"})})
              = Least({Len(w) : w \in To({"crown_jewel"})})
    BY <1>7
  <2> HIDE DEF Of, To
  <2> QED BY <2>1, <2>2
<1>9. (Of({"admin"}) # {}) = (To({"admin"}) # {}) BY <1>6
<1>10. ComputeBlastRadius =
         [resources |-> Cardinality(Of({"resource", "high", "crown_jewel"})),
          high      |-> Cardinality(Of({"high"})),
          crown     |-> Cardinality(Of({"crown_jewel"})),
          nearest   |-> nearest,
          admin     |-> Of({"admin"}) # {}]
  BY DEF ComputeBlastRadius
<1>11. ComputeBlastRadius =
         [resources |-> Cardinality(Ends({"resource", "high", "crown_jewel"})),
          high      |-> Cardinality(Ends({"high"})),
          crown     |-> Cardinality(Ends({"crown_jewel"})),
          nearest   |-> shortest,
          admin     |-> To({"admin"}) # {}]
  <2> HIDE DEF Of, To, Ends, nearest, shortest
  <2> QED BY <1>5, <1>8, <1>9, <1>10
<1> QED BY <1>11 DEF BlastIsExact

\* The numbers of the blast radius are exactly those of what a walk within the hop bound
\* leads to: each resource counted once, the start left out (ComputeBlastRadius).
THEOREM BlastCounted == Spec => []BlastIsExact
<1>1. Init => PathInv /\ BreadthInv /\ DoneInv /\ FoundInv
  BY PathInvInit, BreadthInit, DoneInit DEF Init, FoundInv
<1>2. TypeOK /\ PathInv /\ BreadthInv /\ DoneInv /\ FoundInv /\ [Next]_vars
        => PathInv' /\ BreadthInv' /\ DoneInv' /\ FoundInv'
  BY PathInvNext, BreadthNext, DoneNext, FoundStep
<1>3. TypeOK /\ PathInv /\ BreadthInv /\ DoneInv /\ FoundInv => BlastIsExact
  <2>1. ~(done /\ walker = "reach") => BlastIsExact BY DEF BlastIsExact
  <2> QED BY <2>1, BlastHolds DEF SearchInv
<1> QED BY <1>1, <1>2, <1>3, TypeCorrect, PTL DEF Spec

-----------------------------------------------------------------------------
(* The order of AttackPaths' targets.  Each target is gathered once, so     *)
(* Better is a strict order without ties, and Place a numbering.            *)

OnceInv ==
  /\ \A i, j \in DOMAIN queue : queue[i] = queue[j] => i = j
  /\ \A i, j \in DOMAIN found : found[i] = found[j] => i = j
  /\ \A i \in DOMAIN found :
        found[i] \in Visited /\ found[i] \notin Waiting /\ found[i] \in Targets

LEMMA OnceInit == Init => OnceInv
BY EmptyIsSeq DEF Init, OnceInv

LEMMA OnceFrame ==
  ASSUME OnceInv, UNCHANGED <<graphVars, path, queue, cur, found>>
  PROVE  OnceInv'
BY DEF OnceInv, graphVars, Waiting, Visited, Targets

LEMMA FollowOnce ==
  ASSUME TypeOK, OnceInv, NEW e \in edges, Follow(e)
  PROVE  OnceInv'
<1>1. Visited' = Visited \cup {e.dst} /\ e.dst \notin Visited BY VisitPath
<1>2. found' = found /\ Targets' = Targets /\ queue \in Seq(Visited)
      /\ queue' = Append(queue, e.dst)
  BY DEF Follow, graphVars, Targets, TypeOK
<1>3. /\ DOMAIN queue = 1 .. Len(queue) /\ DOMAIN queue' = 1 .. Len(queue) + 1
      /\ Len(queue) \in Nat
      /\ \A i \in 1 .. Len(queue) : queue'[i] = queue[i] /\ queue[i] \in Visited
      /\ queue'[Len(queue) + 1] = e.dst
  BY <1>2
<1>4. Waiting' = Waiting \cup {e.dst} BY <1>3 DEF Waiting
<1>5. \A i, j \in DOMAIN queue' : queue'[i] = queue'[j] => i = j
  BY <1>1, <1>3 DEF OnceInv
<1> QED BY <1>1, <1>2, <1>4, <1>5 DEF OnceInv

LEMMA DequeueOnce ==
  ASSUME TypeOK, OnceInv, Dequeue
  PROVE  OnceInv'
<1>1. /\ queue \in Seq(Visited) /\ queue # <<>>
      /\ cur' = Head(queue) /\ queue' = Tail(queue)
      /\ Visited' = Visited /\ Targets' = Targets
  BY DEF TypeOK, Dequeue, graphVars, Visited, Targets
<1>2. /\ Len(queue) \in Nat \ {0} /\ DOMAIN queue = 1 .. Len(queue)
      /\ DOMAIN queue' = 1 .. Len(queue) - 1
      /\ cur' = queue[1] /\ cur' \in Visited
      /\ \A i \in 1 .. Len(queue) - 1 : queue'[i] = queue[i + 1]
  BY <1>1
<1>3. \A i, j \in DOMAIN queue' : queue'[i] = queue'[j] => i = j
  <2> SUFFICES ASSUME NEW i \in DOMAIN queue', NEW j \in DOMAIN queue', queue'[i] = queue'[j]
               PROVE  i = j
    OBVIOUS
  <2>1. i + 1 \in DOMAIN queue /\ j + 1 \in DOMAIN queue /\ queue[i + 1] = queue[j + 1]
    BY <1>2
  <2>2. i + 1 = j + 1 BY <2>1 DEF OnceInv
  <2> QED BY <1>2, <2>2
<1>4. Waiting' \subseteq Waiting /\ cur' \in Waiting
  BY <1>2 DEF Waiting
<1>5. cur' \notin Waiting'
  <2> SUFFICES ASSUME NEW i \in DOMAIN queue', queue'[i] = cur' PROVE FALSE
    BY DEF Waiting
  <2>1. i + 1 \in DOMAIN queue /\ 1 \in DOMAIN queue /\ queue[i + 1] = queue[1] BY <1>2
  <2>2. i + 1 = 1 BY <2>1 DEF OnceInv
  <2> QED BY <1>2, <2>2
<1>6. CASE found' = found BY <1>1, <1>3, <1>4, <1>6 DEF OnceInv
<1>7. CASE found' = Append(found, cur') /\ cur' \in Targets
  <2>1. found \in Seq(Node) /\ cur' \in Node BY <1>2 DEF TypeOK
  <2>2. /\ DOMAIN found = 1 .. Len(found) /\ DOMAIN found' = 1 .. Len(found) + 1
        /\ Len(found) \in Nat
        /\ \A i \in 1 .. Len(found) : found'[i] = found[i]
        /\ found'[Len(found) + 1] = cur'
    BY <1>7, <2>1
  <2>3. \A i \in DOMAIN found : found[i] # cur' BY <1>4 DEF OnceInv
  <2>4. \A i, j \in DOMAIN found' : found'[i] = found'[j] => i = j
    BY <2>2, <2>3 DEF OnceInv
  <2>5. \A i \in DOMAIN found' :
           found'[i] \in Visited /\ found'[i] \notin Waiting' /\ found'[i] \in Targets
    BY <1>2, <1>4, <1>5, <1>7, <2>2 DEF OnceInv
  <2> QED BY <1>1, <1>3, <2>4, <2>5 DEF OnceInv
<1> QED BY <1>6, <1>7 DEF Dequeue, Gathered

LEMMA OnceNext == TypeOK /\ OnceInv /\ [Next]_vars => OnceInv'
<1> SUFFICES ASSUME TypeOK, OnceInv, [Next]_vars PROVE OnceInv'
  OBVIOUS
<1>1. CASE \E e \in edges : Follow(e) BY <1>1, FollowOnce
<1>2. CASE Dequeue BY <1>2, DequeueOnce
<1>3. CASE Finish BY <1>3, OnceFrame DEF Finish
<1>4. CASE UNCHANGED vars BY <1>4, OnceFrame DEF vars, graphVars
<1> QED BY <1>1, <1>2, <1>3, <1>4 DEF Next

LEMMA FoundType ==
  ASSUME TypeOK, OnceInv
  PROVE  /\ DOMAIN found = 1 .. Len(found) /\ Len(found) \in Nat
         /\ \A i \in DOMAIN found : Hops(found[i]) \in Nat /\ Impact(found[i]) \in {1, 2}
<1>1. found \in Seq(Node) BY DEF TypeOK
<1>2. \A i \in DOMAIN found : Hops(found[i]) \in Nat BY HopsType DEF OnceInv
<1> QED BY <1>1, <1>2 DEF Impact

LEMMA BetterOrders ==
  ASSUME TypeOK, OnceInv
  PROVE  /\ \A i \in DOMAIN found : ~Better(i, i)
         /\ \A i, j \in DOMAIN found : i # j => Better(i, j) \/ Better(j, i)
         /\ \A i, j, k \in DOMAIN found : Better(i, j) /\ Better(j, k) => Better(i, k)
<1> DEFINE m(i) == Impact(found[i])
           h(i) == Hops(found[i])
<1>1. /\ \A i \in DOMAIN found : m(i) \in Int /\ h(i) \in Int /\ i \in Int
      /\ \A i, j \in DOMAIN found :
            Better(i, j) <=> \/ m(i) > m(j)
                             \/ m(i) = m(j) /\ h(i) < h(j)
                             \/ m(i) = m(j) /\ h(i) = h(j) /\ i < j
  BY FoundType DEF Better
<1> HIDE DEF m, h
<1>2. \A i \in DOMAIN found : ~Better(i, i) BY <1>1
<1>3. \A i, j \in DOMAIN found : i # j => Better(i, j) \/ Better(j, i) BY <1>1
<1>4. \A i, j, k \in DOMAIN found : Better(i, j) /\ Better(j, k) => Better(i, k) BY <1>1
<1> QED BY <1>2, <1>3, <1>4

\* The better of two comes before the other, and the places are those of found.
LEMMA PlacesGrow ==
  ASSUME TypeOK, OnceInv, NEW i \in DOMAIN found
  PROVE  /\ Place(i) \in 1 .. Len(found)
         /\ \A j \in DOMAIN found : Better(i, j) => Place(i) < Place(j)
<1> DEFINE Before(k) == {j \in DOMAIN found : Better(j, k)}
<1>1. /\ Len(found) \in Nat /\ IsFiniteSet(DOMAIN found)
      /\ Cardinality(DOMAIN found) = Len(found)
  <2>1. Len(found) \in Nat /\ DOMAIN found = 1 .. Len(found) BY FoundType
  <2>2. /\ IsFiniteSet(1 .. Len(found))
        /\ Cardinality(1 .. Len(found)) = IF 1 > Len(found) THEN 0 ELSE Len(found) - 1 + 1
    BY <2>1, FS_Interval
  <2> QED BY <2>1, <2>2
<1>2. \A k \in DOMAIN found : IsFiniteSet(Before(k)) /\ Cardinality(Before(k)) \in Nat
  BY <1>1, FS_Subset, FS_CardinalityType
<1>3. Cardinality(Before(i)) < Len(found)
  <2>1. i \notin Before(i) /\ Before(i) \in SUBSET DOMAIN found BY BetterOrders
  <2> HIDE DEF Before
  <2>2. /\ Cardinality(Before(i)) <= Cardinality(DOMAIN found)
        /\ Cardinality(DOMAIN found) = Cardinality(Before(i)) => DOMAIN found = Before(i)
    BY <1>1, <2>1, FS_Subset
  <2>3. Cardinality(Before(i)) # Len(found) BY <1>1, <2>1, <2>2
  <2> QED BY <1>1, <1>2, <2>2, <2>3
<1>4. ASSUME NEW j \in DOMAIN found, Better(i, j)
      PROVE  Cardinality(Before(i)) < Cardinality(Before(j))
  <2>1. Before(i) \in SUBSET Before(j) /\ i \in Before(j) /\ i \notin Before(i)
    BY <1>4, BetterOrders
  <2> HIDE DEF Before
  <2>2. /\ Cardinality(Before(i)) <= Cardinality(Before(j))
        /\ Cardinality(Before(j)) = Cardinality(Before(i)) => Before(j) = Before(i)
    BY <1>2, <2>1, FS_Subset
  <2> QED BY <1>2, <2>1, <2>2
<1>5. \A k \in DOMAIN found : Place(k) = 1 + Cardinality(Before(k)) BY DEF Place
<1> HIDE DEF Before
<1>6. Place(i) \in 1 .. Len(found) BY <1>1, <1>2, <1>3, <1>5
<1>7. \A j \in DOMAIN found : Better(i, j) => Place(i) < Place(j) BY <1>2, <1>4, <1>5
<1> QED BY <1>6, <1>7

LEMMA PlacesAreTaken ==
  ASSUME TypeOK, OnceInv
  PROVE  /\ \A i, j \in DOMAIN found : Place(i) = Place(j) => i = j
         /\ \A p \in 1 .. Len(found) : \E i \in DOMAIN found : Place(i) = p
<1> DEFINE S == 1 .. Len(found)
           f == [i \in S |-> Place(i)]
<1>1. DOMAIN found = S /\ IsFiniteSet(S) BY FoundType, FS_Interval
<1>2. \A i \in S : Place(i) \in S BY <1>1, PlacesGrow
<1>3. ASSUME NEW i \in S, NEW j \in S, Place(i) = Place(j) PROVE i = j
  <2> SUFFICES ASSUME i # j PROVE FALSE OBVIOUS
  <2>1. Better(i, j) \/ Better(j, i) BY <1>1, BetterOrders
  <2>2. Place(i) < Place(j) \/ Place(j) < Place(i) BY <1>1, <2>1, PlacesGrow
  <2> QED BY <1>2, <1>3, <2>2
<1> HIDE DEF S
<1>4. f \in [S -> S] BY <1>2
<1>5. f \in Injection(S, S) BY <1>3, <1>4 DEF Injection, IsInjective
<1> HIDE DEF f
<1>6. f \in Surjection(S, S) BY <1>1, <1>5, FS_Injection
<1>7. \A p \in S : \E i \in S : f[i] = p BY <1>6 DEF Surjection
<1> QED BY <1>1, <1>3, <1>7 DEF f, S

\* What AttackPaths returns at p is the target whose place is p.
LEMMA ReportedAt ==
  ASSUME TypeOK, OnceInv
  PROVE  /\ \A p \in DOMAIN AttackPaths :
              \E i \in DOMAIN found : Place(i) = p /\ AttackPaths[p] = found[i]
         /\ \A i \in DOMAIN found :
              Place(i) \in DOMAIN AttackPaths => AttackPaths[Place(i)] = found[i]
         /\ DOMAIN AttackPaths = 1 .. Len(AttackPaths)
         /\ Len(AttackPaths) = IF Len(found) > limit THEN limit ELSE Len(found)
<1> DEFINE m == IF Len(found) > limit THEN limit ELSE Len(found)
<1>1. m \in Nat /\ m <= Len(found) /\ Len(found) \in Nat
  BY FoundType, GraphAssumption DEF TypeOK
<1>2. DOMAIN AttackPaths = 1 .. m BY DEF AttackPaths
<1>3. ASSUME NEW p \in 1 .. m
      PROVE  \E i \in DOMAIN found : Place(i) = p /\ AttackPaths[p] = found[i]
  <2>1. p \in 1 .. Len(found) BY <1>1
  <2>2. \E i \in DOMAIN found : Place(i) = p BY <2>1, PlacesAreTaken
  <2> DEFINE c == CHOOSE i \in DOMAIN found : Place(i) = p
  <2>3. c \in DOMAIN found /\ Place(c) = p BY <2>2
  <2>4. AttackPaths[p] = found[c] BY DEF AttackPaths
  <2> QED BY <2>3, <2>4
<1>4. ASSUME NEW i \in DOMAIN found, Place(i) \in 1 .. m
      PROVE  AttackPaths[Place(i)] = found[i]
  <2>1. PICK j \in DOMAIN found : Place(j) = Place(i) /\ AttackPaths[Place(i)] = found[j]
    BY <1>3, <1>4
  <2>2. j = i BY <2>1, PlacesAreTaken
  <2> QED BY <2>1, <2>2
<1>5. Len(AttackPaths) = m
  <2>1. AttackPaths = [p \in 1 .. m |-> AttackPaths[p]] BY DEF AttackPaths
  <2>2. AttackPaths \in Seq({AttackPaths[p] : p \in 1 .. m}) BY <1>1, <2>1
  <2> QED BY <1>1, <1>2, <2>2
<1> QED BY <1>2, <1>3, <1>4, <1>5

\* The better of two targets comes first, and is as good as the other.
LEMMA EarlierIsAsGood ==
  ASSUME TypeOK, OnceInv, NEW i \in DOMAIN found, NEW j \in DOMAIN found, Place(i) < Place(j)
  PROVE  found[i] # found[j] /\ AsGood(found[i], found[j], Hops(found[j]))
<1>1. /\ Place(i) \in Nat /\ Place(j) \in Nat
      /\ \A k \in DOMAIN found : Hops(found[k]) \in Nat /\ Impact(found[k]) \in {1, 2}
  BY FoundType, PlacesGrow
<1>2. i # j BY <1>1
<1>3. ~Better(j, i)
  <2>1. Better(j, i) => Place(j) < Place(i) BY PlacesGrow
  <2> QED BY <1>1, <2>1
<1>4. Better(i, j) BY <1>2, <1>3, BetterOrders
<1>5. found[i] # found[j] BY <1>2 DEF OnceInv
<1>6. AsGood(found[i], found[j], Hops(found[j])) BY <1>1, <1>4 DEF Better, AsGood
<1> QED BY <1>5, <1>6

LEMMA BestHolds ==
  ASSUME SearchInv, GatherInv, OnceInv, done, walker = "paths"
  PROVE  BestAreReported
<1> DEFINE best == AttackPaths
<1>1. TypeOK BY DEF SearchInv
<1>2. ASSUME NEW p \in DOMAIN best, NEW q \in DOMAIN best, p < q
      PROVE  best[p] # best[q] /\ AsGood(best[p], best[q], Hops(best[q]))
  <2>1. PICK i \in DOMAIN found : Place(i) = p /\ best[p] = found[i] BY <1>1, ReportedAt
  <2>2. PICK j \in DOMAIN found : Place(j) = q /\ best[q] = found[j] BY <1>1, ReportedAt
  <2> QED BY <1>1, <1>2, <2>1, <2>2, EarlierIsAsGood
<1>3. ASSUME ~Stopped, NEW w \in Walks, End(w) \in Targets \ {Start},
             \A p \in DOMAIN best : best[p] # End(w)
      PROVE  Len(best) = limit /\ \A p \in DOMAIN best : AsGood(best[p], End(w), Len(w))
  <2>1. PICK i \in DOMAIN found : found[i] = End(w)
    BY <1>3, GatheredAreNearest DEF NearestAreGathered
  <2>2. Place(i) \notin DOMAIN best BY <1>1, <1>3, <2>1, ReportedAt
  <2>3. /\ DOMAIN best = 1 .. Len(best)
        /\ Len(best) = IF Len(found) > limit THEN limit ELSE Len(found)
    BY <1>1, ReportedAt
  <2>4. Place(i) \in 1 .. Len(found) /\ Len(found) \in Nat /\ limit \in Nat
    BY <1>1, FoundType, PlacesGrow, GraphAssumption DEF TypeOK
  <2>5. Len(best) = limit /\ \A p \in DOMAIN best : p < Place(i) BY <2>2, <2>3, <2>4
  <2>6. Hops(End(w)) <= Len(w) BY <1>3, DistancesHold DEF HopsAreShortest
  <2>7. ASSUME NEW p \in DOMAIN best PROVE AsGood(best[p], End(w), Len(w))
    <3>1. PICK j \in DOMAIN found : Place(j) = p /\ best[p] = found[j] BY <1>1, ReportedAt
    <3>2. AsGood(found[j], found[i], Hops(found[i])) BY <1>1, <2>5, <3>1, EarlierIsAsGood
    <3>3. Hops(found[i]) \in Nat /\ Hops(found[j]) \in Nat /\ Len(w) \in Nat
      BY <1>1, FoundType, WalkType
    <3> QED BY <2>1, <2>6, <3>1, <3>2, <3>3 DEF AsGood
  <2> QED BY <2>5, <2>7
<1> HIDE DEF best
<1> QED BY <1>2, <1>3 DEF BestAreReported, best

\* AttackPaths returns each target once, by impact and then by hops; unless it stopped
\* early, it leaves out none within the hop bound that is better than one it returns.
THEOREM BestReported == Spec => []BestAreReported
<1>1. Init => PathInv /\ BreadthInv /\ DoneInv /\ GatherInv /\ OnceInv
  BY PathInvInit, BreadthInit, DoneInit, GatherInit, OnceInit
<1>2. TypeOK /\ PathInv /\ BreadthInv /\ DoneInv /\ GatherInv /\ OnceInv /\ [Next]_vars
        => PathInv' /\ BreadthInv' /\ DoneInv' /\ GatherInv' /\ OnceInv'
  BY PathInvNext, BreadthNext, DoneNext, GatherNext, OnceNext
<1>3. TypeOK /\ PathInv /\ BreadthInv /\ DoneInv /\ GatherInv /\ OnceInv => BestAreReported
  <2>1. ~(done /\ walker = "paths") => BestAreReported BY DEF BestAreReported
  <2> QED BY <2>1, BestHolds DEF SearchInv
<1> QED BY <1>1, <1>2, <1>3, TypeCorrect, PTL DEF Spec
=============================================================================
