-------------------------- MODULE AssessmentProofs --------------------------
(***************************************************************************)
(* What the passes over one identity keep true, for all tables, weights    *)
(* and interleavings: the decisions that the operator took, the fixes that *)
(* never project a higher score, and the stored score that the rows        *)
(* explain.                                                                *)
(*   TypeCorrect      the type invariant                                   *)
(*   DecisionsStay    no pass takes a decision back                        *)
(*   FixesNeverRaise  stored actions do not project a higher score         *)
(*   ScoresSupported  the rows explain the stored score                    *)
(***************************************************************************)
EXTENDS Assessment, RiskScoreProofs

-----------------------------------------------------------------------------
(* The nodes near the identity, and how a larger graph has more of them.   *)

\* The nodes of S and those that an edge leads to from them.
Spread(E, S) == UNION {{x} \cup {e[2] : e \in {d \in E : d[1] = x}} : x \in S}

\* near[n] holds the nodes within n hops, for n up to k.
Nears(near, E, k) ==
  near = [n \in 0..k |-> IF n = 0 THEN {Self} ELSE Spread(E, near[n-1])]

LEMMA NearsExist ==
  ASSUME NEW E
  PROVE  \E near : Nears(near, E, MaxHops)
<1> DEFINE Reached(k) == \E near : Nears(near, E, k)
           Bad == {k \in Nat : ~ Reached(k)}
<1>1. Reached(0)
  <2>1. Nears([n \in 0..0 |-> {Self}], E, 0) BY DEF Nears
  <2> QED BY <2>1
<1>2. ASSUME NEW k \in Nat, Reached(k) PROVE Reached(k + 1)
  <2>1. PICK g : Nears(g, E, k) BY <1>2
  <2> DEFINE h == [n \in 0..(k+1) |-> IF n = 0 THEN {Self} ELSE Spread(E, g[n-1])]
  <2>2. g = [n \in 0..k |-> IF n = 0 THEN {Self} ELSE Spread(E, g[n-1])]
    BY <2>1 DEF Nears
  <2>3. ASSUME NEW n \in 0..k PROVE h[n] = g[n]
    <3>1. n \in 0..(k+1) OBVIOUS
    <3>2. g[n] = IF n = 0 THEN {Self} ELSE Spread(E, g[n-1]) BY <2>2
    <3> QED BY <3>1, <3>2
  <2>4. \A n \in 0..(k+1) : n # 0 => n - 1 \in 0..k OBVIOUS
  <2>5. h = [n \in 0..(k+1) |-> IF n = 0 THEN {Self} ELSE Spread(E, h[n-1])]
    BY <2>3, <2>4
  <2> HIDE DEF h
  <2>6. Nears(h, E, k + 1) BY <2>5 DEF Nears
  <2> QED BY <2>6
<1>3. Bad = {}
  <2> SUFFICES ASSUME Bad # {} PROVE FALSE OBVIOUS
  <2>1. PICK m \in Bad : \A k \in Bad : m <= k BY LeastOf
  <2>2. m \in Nat /\ m # 0 /\ ~ Reached(m) BY <1>1
  <2>3. m - 1 \in Nat /\ m - 1 \notin Bad BY <2>1, <2>2
  <2>4. Reached(m - 1) BY <2>3
  <2> HIDE DEF Reached
  <2>5. Reached((m - 1) + 1) BY <1>2, <2>3, <2>4
  <2>6. (m - 1) + 1 = m BY <2>2
  <2> QED BY <2>2, <2>5, <2>6
<1>4. MaxHops \in Nat BY AssessmentAssumption
<1> QED BY <1>3, <1>4

LEMMA WithinIs ==
  ASSUME NEW E
  PROVE  Nears(Within(E), E, MaxHops)
<1>1. Within(E) = CHOOSE near : Nears(near, E, MaxHops) BY DEF Within, Nears, Spread
<1> QED BY <1>1, NearsExist

LEMMA WithinUnfolds ==
  ASSUME NEW E
  PROVE  /\ Within(E)[0] = {Self}
         /\ \A n \in 1..MaxHops : Within(E)[n] = Spread(E, Within(E)[n-1])
<1> DEFINE near == Within(E)
<1>1. Nears(near, E, MaxHops) BY WithinIs
<1>2. MaxHops \in Nat BY AssessmentAssumption
<1> HIDE DEF near
<1>3. near[0] = {Self} BY <1>1, <1>2 DEF Nears
<1>4. ASSUME NEW n \in 1..MaxHops
      PROVE  near[n] = Spread(E, near[n-1])
  <2>1. n \in 0..MaxHops /\ n # 0 BY <1>2
  <2> QED BY <1>1, <2>1 DEF Nears
<1> QED BY <1>3, <1>4 DEF near

LEMMA WithinGrows ==
  ASSUME NEW E, NEW F, E \subseteq F
  PROVE  \A n \in 0..MaxHops : Within(E)[n] \subseteq Within(F)[n]
<1> DEFINE Bad == {n \in 0..MaxHops : ~ (Within(E)[n] \subseteq Within(F)[n])}
<1> SUFFICES ASSUME Bad # {} PROVE FALSE OBVIOUS
<1>1. MaxHops \in Nat BY AssessmentAssumption
<1>2. Bad \subseteq Nat OBVIOUS
<1>3. PICK m \in Bad : \A k \in Bad : m <= k BY <1>2, LeastOf
<1>4. m # 0 BY WithinUnfolds
<1>5. m \in 1..MaxHops /\ m - 1 \in 0..MaxHops BY <1>1, <1>3, <1>4
<1>6. Within(E)[m-1] \subseteq Within(F)[m-1]
  <2>1. ~ (m <= m - 1) BY <1>5
  <2>2. m - 1 \notin Bad BY <1>3, <2>1
  <2> QED BY <1>5, <2>2
<1> DEFINE S == Within(E)[m-1]
           T == Within(F)[m-1]
<1>7. Within(E)[m] = Spread(E, S) /\ Within(F)[m] = Spread(F, T)
  BY <1>5, WithinUnfolds
<1>8. S \subseteq T BY <1>6
<1> HIDE DEF S, T
<1>9. Within(E)[m] \subseteq Within(F)[m] BY <1>7, <1>8 DEF Spread
<1> QED BY <1>3, <1>9

\* What has been reached can be reached in some least number of hops.
LEMMA HopsType ==
  ASSUME NEW near, NEW x, x \in near[MaxHops]
  PROVE  /\ Hops(x, near) \in 0..MaxHops /\ x \in near[Hops(x, near)]
         /\ \A n \in 0..MaxHops : x \in near[n] => Hops(x, near) <= n
<1> DEFINE S == {n \in 0..MaxHops : x \in near[n]}
<1>1. MaxHops \in Nat BY AssessmentAssumption
<1>2. S # {} /\ S \subseteq Nat BY <1>1
<1>3. \E m \in S : \A k \in S : m <= k BY <1>2, LeastOf
<1>4. Hops(x, near) = CHOOSE m \in S : \A k \in S : m <= k BY DEF Hops, Min
<1>5. Hops(x, near) \in S /\ \A k \in S : Hops(x, near) <= k BY <1>3, <1>4
<1> QED BY <1>5

-----------------------------------------------------------------------------
(* More rows and a larger graph give the scorer more to count.             *)

Under(r, s) == \A t \in Tables : r[t] \subseteq s[t]

LEMMA ForIdentityGrows ==
  ASSUME NEW r, NEW s, Under(r, s), NEW t \in Tables
  PROVE  ForIdentity(t, r) \subseteq ForIdentity(t, s) /\ ForIdentity(t, r) \subseteq r[t]
<1>1. r[t] \subseteq s[t] /\ r["trust"] \subseteq s["trust"] BY DEF Under, Tables
<1>2. Assumed(r) \subseteq Assumed(s) BY <1>1 DEF Assumed
<1>3. CASE t = "roles" BY <1>1, <1>2, <1>3 DEF ForIdentity
<1>4. CASE t = "bindings" BY <1>1, <1>2, <1>4 DEF ForIdentity
<1>5. CASE t = "trust" BY <1>1, <1>5 DEF ForIdentity
<1>6. CASE t \notin {"roles", "bindings", "trust"} BY <1>1, <1>6 DEF ForIdentity
<1> QED BY <1>3, <1>4, <1>5, <1>6

LEMMA KeysGrow ==
  ASSUME NEW S, NEW T, IsFiniteSet(T), S \subseteq T
  PROVE  /\ Cardinality(Keys(S)) \in Nat /\ Cardinality(Keys(T)) \in Nat
         /\ Cardinality(Keys(S)) <= Cardinality(Keys(T))
         /\ Cardinality(Keys(T)) > 0 <=> T # {}
<1>1. IsFiniteSet(Keys(T))
  <2> DEFINE key == [i \in T |-> i.key]
  <2>1. key \in Surjection(T, Keys(T)) BY DEF Surjection, Keys
  <2> HIDE DEF key
  <2> QED BY <2>1, FS_Surjection
<1>2. Keys(S) \subseteq Keys(T) BY DEF Keys
<1>3. IsFiniteSet(Keys(S)) /\ Cardinality(Keys(S)) <= Cardinality(Keys(T))
  BY <1>1, <1>2, FS_Subset
<1>4. Cardinality(Keys(S)) \in Nat /\ Cardinality(Keys(T)) \in Nat
  BY <1>1, <1>3, FS_CardinalityType
<1>5. Cardinality(Keys(T)) = 0 <=> Keys(T) = {} BY <1>1, FS_EmptySet
<1>6. Keys(T) = {} <=> T = {} BY DEF Keys
<1> QED BY <1>3, <1>4, <1>5, <1>6

\* The bindings that BlastOf counts.
Reachable(g) == {b \in g["bindings"] : /\ b.crit # "low"
                                       /\ b.key \in Within(Edges(g))[MaxHops]}

Of(S, crit) == {b \in S : b.crit = crit}

LEMMA BlastOfIs ==
  ASSUME NEW g
  PROVE  LET res   == Reachable(g)
             crown == Of(res, "crown_jewel")
         IN BlastOf(g) =
              [reachable |-> Cardinality(Keys(res)),
               high      |-> Cardinality(Keys(Of(res, "high"))),
               crown     |-> Cardinality(Keys(crown)),
               nearest   |-> IF crown = {} THEN -1
                             ELSE Min({Hops(b.key, Within(Edges(g))) : b \in crown}),
               admin     |-> \E r \in g["roles"] : /\ IsAdmin(r)
                                                   /\ r.key \in Within(Edges(g))[MaxHops]]
BY DEF BlastOf, Reachable, Of

LEMMA ReachableGrows ==
  ASSUME NEW g, NEW h, Under(g, h), Under(h, Universe)
  PROVE  /\ Reachable(g) \subseteq Reachable(h)
         /\ IsFiniteSet(Reachable(h))
         /\ \A n \in 0..MaxHops : Within(Edges(g))[n] \subseteq Within(Edges(h))[n]
         /\ \A b \in Reachable(h) : b.key \in Within(Edges(h))[MaxHops]
<1>1. MaxHops \in Nat /\ IsFiniteSet(Universe["bindings"])
  BY AssessmentAssumption DEF Tables
<1>2. /\ g["bindings"] \subseteq h["bindings"] /\ g["roles"] \subseteq h["roles"]
      /\ g["trust"] \subseteq h["trust"] /\ h["bindings"] \subseteq Universe["bindings"]
  BY DEF Under, Tables
<1>3. Edges(g) \subseteq Edges(h) BY <1>2 DEF Edges
<1>4. \A n \in 0..MaxHops : Within(Edges(g))[n] \subseteq Within(Edges(h))[n]
  BY <1>3, WithinGrows
<1>5. Within(Edges(g))[MaxHops] \subseteq Within(Edges(h))[MaxHops] BY <1>1, <1>4
<1>6. Reachable(g) \subseteq Reachable(h) BY <1>2, <1>5 DEF Reachable
<1>7. Reachable(h) \subseteq Universe["bindings"] BY <1>2 DEF Reachable
<1>8. IsFiniteSet(Reachable(h)) BY <1>1, <1>7, FS_Subset
<1> QED BY <1>4, <1>6, <1>8 DEF Reachable

\* The least number of hops to a binding of a set.
LEMMA NearestType ==
  ASSUME NEW S, NEW near, S # {}, \A b \in S : b.key \in near[MaxHops]
  PROVE  LET m == Min({Hops(b.key, near) : b \in S})
         IN /\ \E b \in S : m = Hops(b.key, near)
            /\ \A b \in S : m <= Hops(b.key, near)
<1> DEFINE H == {Hops(b.key, near) : b \in S}
<1>1. H # {} /\ H \subseteq 0..MaxHops BY HopsType
<1>2. MaxHops \in Nat BY AssessmentAssumption
<1>3. H \subseteq Nat BY <1>1, <1>2
<1>4. \E m \in H : \A k \in H : m <= k BY <1>1, <1>3, LeastOf
<1>5. Min(H) = CHOOSE m \in H : \A k \in H : m <= k BY DEF Min
<1>6. Min(H) \in H /\ \A k \in H : Min(H) <= k BY <1>4, <1>5
<1> QED BY <1>6

LEMMA BlastOfType ==
  ASSUME NEW g, Under(g, Universe)
  PROVE  BlastOf(g).high \in Nat /\ BlastOf(g).reachable \in Nat
<1>1. Under(g, g) BY DEF Under
<1>2. IsFiniteSet(Reachable(g)) BY <1>1, ReachableGrows
<1>3. Of(Reachable(g), "high") \subseteq Reachable(g) BY DEF Of
<1>4. IsFiniteSet(Of(Reachable(g), "high")) BY <1>2, <1>3, FS_Subset
<1>5. /\ Cardinality(Keys(Reachable(g))) \in Nat
      /\ Cardinality(Keys(Of(Reachable(g), "high"))) \in Nat
  BY <1>2, <1>4, KeysGrow
<1>6. /\ BlastOf(g).reachable = Cardinality(Keys(Reachable(g)))
      /\ BlastOf(g).high = Cardinality(Keys(Of(Reachable(g), "high")))
  BY BlastOfIs
<1> QED BY <1>5, <1>6

LEMMA BlastOfGrows ==
  ASSUME NEW g, NEW h, Under(g, h), Under(h, Universe)
  PROVE  BlastBelow(BlastOf(g), BlastOf(h))
<1> DEFINE near == Within(Edges(g))
           far  == Within(Edges(h))
           S == Reachable(g)
           T == Reachable(h)
           crownS == Of(S, "crown_jewel")
           crownT == Of(T, "crown_jewel")
<1>1. /\ S \subseteq T /\ IsFiniteSet(T)
      /\ \A n \in 0..MaxHops : near[n] \subseteq far[n]
      /\ \A b \in T : b.key \in far[MaxHops]
  BY ReachableGrows
<1>2. \A b \in S : b.key \in near[MaxHops] BY DEF Reachable
<1>3. \A crit : Of(S, crit) \subseteq Of(T, crit) /\ Of(T, crit) \subseteq T
  BY <1>1 DEF Of
<1>4. \A crit : IsFiniteSet(Of(T, crit)) /\ IsFiniteSet(Of(S, crit))
  BY <1>1, <1>3, FS_Subset
<1>5. MaxHops \in Nat BY AssessmentAssumption
<1>6. /\ BlastOf(g).reachable = Cardinality(Keys(S))
      /\ BlastOf(g).high = Cardinality(Keys(Of(S, "high")))
      /\ BlastOf(g).crown = Cardinality(Keys(crownS))
      /\ BlastOf(g).nearest = IF crownS = {} THEN -1
                              ELSE Min({Hops(b.key, near) : b \in crownS})
      /\ BlastOf(g).admin = \E r \in g["roles"] : IsAdmin(r) /\ r.key \in near[MaxHops]
  BY BlastOfIs
<1>7. /\ BlastOf(h).reachable = Cardinality(Keys(T))
      /\ BlastOf(h).high = Cardinality(Keys(Of(T, "high")))
      /\ BlastOf(h).crown = Cardinality(Keys(crownT))
      /\ BlastOf(h).nearest = IF crownT = {} THEN -1
                              ELSE Min({Hops(b.key, far) : b \in crownT})
      /\ BlastOf(h).admin = \E r \in h["roles"] : IsAdmin(r) /\ r.key \in far[MaxHops]
  BY BlastOfIs
<1> HIDE DEF near, far, S, T
<1>8. BlastOf(g).high <= BlastOf(h).high /\ BlastOf(g).reachable <= BlastOf(h).reachable
  BY <1>1, <1>3, <1>4, <1>6, <1>7, KeysGrow
<1>9. /\ BlastOf(g).crown > 0 <=> crownS # {}
      /\ BlastOf(h).crown > 0 <=> crownT # {}
      /\ crownS \subseteq crownT
  BY <1>3, <1>4, <1>6, <1>7, KeysGrow
<1>10. ASSUME BlastOf(g).crown > 0, BlastOf(g).nearest <= 1
       PROVE  BlastOf(h).nearest <= 1
  <2>1. crownS # {} /\ crownT # {} BY <1>9, <1>10
  <2>2. \A b \in crownS : b.key \in near[MaxHops] BY <1>2 DEF Of
  <2>3. \A b \in crownT : b.key \in far[MaxHops] BY <1>1, <1>3
  <2>4. PICK b \in crownS : BlastOf(g).nearest = Hops(b.key, near)
    BY <1>6, <2>1, <2>2, NearestType
  <2>5. Hops(b.key, near) \in 0..MaxHops /\ b.key \in near[Hops(b.key, near)]
    BY <2>2, HopsType
  <2>6. b \in crownT /\ b.key \in far[Hops(b.key, near)] BY <1>1, <1>9, <2>5
  <2>7. Hops(b.key, far) \in 0..MaxHops /\ Hops(b.key, far) <= Hops(b.key, near)
    BY <2>3, <2>5, <2>6, HopsType
  <2>8. BlastOf(h).nearest <= Hops(b.key, far) BY <1>7, <2>1, <2>3, <2>6, NearestType
  <2>9. \E c \in crownT : BlastOf(h).nearest = Hops(c.key, far)
    BY <1>7, <2>1, <2>3, NearestType
  <2>10. BlastOf(h).nearest \in 0..MaxHops BY <2>3, <2>9, HopsType
  <2> QED BY <1>5, <1>10, <2>4, <2>5, <2>7, <2>8, <2>10
<1>11. BlastOf(g).admin => BlastOf(h).admin
  <2>1. g["roles"] \subseteq h["roles"] BY DEF Under, Tables
  <2>2. near[MaxHops] \subseteq far[MaxHops] BY <1>1, <1>5
  <2>3. (\E r \in g["roles"] : IsAdmin(r) /\ r.key \in near[MaxHops])
          => \E r \in h["roles"] : IsAdmin(r) /\ r.key \in far[MaxHops]
    BY <2>1, <2>2
  <2> QED BY <1>6, <1>7, <2>3, Zenon
<1> QED BY <1>8, <1>9, <1>10, <1>11 DEF BlastBelow

LEMMA DepthIs ==
  ASSUME NEW g
  PROVE  DepthOf(g) = DepthOf([NoRows EXCEPT !["trust"] = g["trust"]])
<1> DEFINE h == [NoRows EXCEPT !["trust"] = g["trust"]]
<1>1. h["trust"] = g["trust"] BY DEF NoRows, Tables
<1>2. Pivots(h) = Pivots(g) BY <1>1 DEF Pivots
<1> HIDE DEF h
<1> DEFINE Farthest(E) == LET near == Within(E) IN Max({Hops(x, near) : x \in near[MaxHops]})
<1>3. \A k : DepthOf(k) = Farthest(Pivots(k)) BY DEF DepthOf
<1> HIDE DEF Farthest
<1>4. DepthOf(g) = DepthOf(h) BY <1>2, <1>3
<1> QED BY <1>4 DEF h

\* The depth of the chain that a set of trust edges makes.
Depth(T) == DepthOf([NoRows EXCEPT !["trust"] = T])

LEMMA SubjectIsPosture ==
  ASSUME NEW i, NEW r, NEW g, NEW n, NEW d, Under(r, Universe), Under(g, Universe)
  PROVE  IsPosture([SubjectOf(i, r, g, n) EXCEPT !.depth = d])
<1> DEFINE p == [SubjectOf(i, r, g, n) EXCEPT !.depth = d]
<1>1. /\ p.roles = r["roles"] /\ p.trust = r["trust"] /\ p.anomalies = {}
      /\ p.blast = BlastOf(g) /\ p.peerPerms = PeerPerms /\ p.peerReach = PeerReach
  BY DEF SubjectOf
<1>2. {"seen", "created", "rotated", "creds", "roles", "bindings", "trust", "exposures",
       "anomalies", "peerPerms", "peerReach", "blast", "depth"} \subseteq DOMAIN p
  BY DEF SubjectOf
<1> HIDE DEF p
<1>3. p.roles \subseteq Universe["roles"] /\ p.trust \subseteq Universe["trust"]
  BY <1>1 DEF Under, Tables
<1>4. IsFiniteSet(Universe["roles"]) /\ IsFiniteSet(Universe["trust"])
  BY AssessmentAssumption DEF Tables
<1>5. IsFiniteSet(p.roles) /\ IsFiniteSet(p.trust) BY <1>3, <1>4, FS_Subset
<1>6. \A q \in p.roles :
        /\ {"level", "wildActs", "wildRes", "escalates", "perms"} \subseteq DOMAIN q
        /\ q.wildActs \in Nat /\ q.wildRes \in Nat /\ q.perms \in Nat
  BY <1>3, AssessmentAssumption
<1>7. \A t \in p.trust : {"type", "guards", "cross", "wild"} \subseteq DOMAIN t
  BY <1>3, AssessmentAssumption
<1>8. p.blast.high \in Nat /\ p.blast.reachable \in Nat BY <1>1, BlastOfType
<1>9. p.peerPerms \in Nat /\ p.peerReach \in Nat BY <1>1, AssessmentAssumption
<1> QED BY <1>1, <1>2, <1>5, <1>6, <1>7, <1>8, <1>9 DEF IsPosture, p

LEMMA SubjectHasDepth ==
  ASSUME NEW i, NEW r, NEW g, NEW n
  PROVE  SubjectOf(i, r, g, n) = [SubjectOf(i, r, g, n) EXCEPT !.depth = Depth(g["trust"])]
<1>1. SubjectOf(i, r, g, n).depth = Depth(g["trust"]) BY DepthIs DEF SubjectOf, Depth
<1> QED BY <1>1 DEF SubjectOf

\* Whatever mixture of reads a subject is built from, if the rows of another include
\* its own, the graph of the other its graph, and a chain there is a chain here, it gives
\* the scorer no more to count.
LEMMA SubjectGrows ==
  ASSUME NEW i, NEW r, NEW s, NEW g, NEW h, NEW m, NEW n, NEW c, NEW d,
         Under(r, s), Under(s, Universe), Under(g, h), Under(h, Universe),
         c >= 2 => d >= 2
  PROVE  Milder([SubjectOf(i, r, g, m) EXCEPT !.depth = c],
                [SubjectOf(i, s, h, n) EXCEPT !.depth = d])
<1> DEFINE p == [SubjectOf(i, r, g, m) EXCEPT !.depth = c]
           q == [SubjectOf(i, s, h, n) EXCEPT !.depth = d]
<1>1. /\ p.seen = q.seen /\ p.created = q.created /\ p.rotated = q.rotated
      /\ p.peerPerms = q.peerPerms /\ p.peerReach = q.peerReach
  BY DEF SubjectOf
<1>2. /\ p.creds = r["creds"] /\ p.bindings = r["bindings"] /\ p.roles = r["roles"]
      /\ p.trust = r["trust"] /\ p.exposures = r["exposures"]
      /\ p.blast = BlastOf(g) /\ p.depth = c
  BY DEF SubjectOf
<1>3. /\ q.creds = s["creds"] /\ q.bindings = s["bindings"] /\ q.roles = s["roles"]
      /\ q.trust = s["trust"] /\ q.exposures = s["exposures"]
      /\ q.blast = BlastOf(h) /\ q.depth = d
  BY DEF SubjectOf
<1> HIDE DEF p, q
<1>4. /\ p.creds \subseteq q.creds /\ p.bindings \subseteq q.bindings
      /\ p.roles \subseteq q.roles /\ p.trust \subseteq q.trust
      /\ p.exposures \subseteq q.exposures
      /\ p.roles \subseteq Universe["roles"]
  BY <1>2, <1>3 DEF Under, Tables
<1>5. \A x \in p.roles : x.wildActs \in Nat /\ x.wildRes \in Nat /\ x.perms \in Nat
  BY <1>4, AssessmentAssumption
<1>6. RolesBelow(p.roles, q.roles) BY <1>4, <1>5, RolesBelowLarger
<1>7. TrustBelow(p.trust, q.trust) BY <1>4, TrustBelowLarger
<1>8. BlastBelow(p.blast, q.blast) BY <1>2, <1>3, BlastOfGrows
<1>9. p.depth >= 2 => q.depth >= 2 BY <1>2, <1>3
<1>10. Milder(p, q) BY <1>1, <1>4, <1>6, <1>7, <1>8, <1>9 DEF Milder
<1> QED BY <1>10 DEF p, q

\* The highest score that a posture may get is one that it may get.
LEMMA HighestIsScored ==
  ASSUME NEW p, IsPosture(p)
  PROVE  /\ Max(Composites(p)) \in Composites(p)
         /\ Max(Composites(p)) \in 0..100
         /\ \A c \in Composites(p) : c <= Max(Composites(p))
<1> DEFINE S == Composites(p)
           Lower == {100 - c : c \in S}
<1>1. S # {} /\ S \subseteq 0..100 BY ScoreInRange
<1> HIDE DEF S
<1>2. Lower # {} /\ Lower \subseteq Nat BY <1>1
<1>3. PICK m \in Lower : \A k \in Lower : m <= k BY <1>2, LeastOf
<1>4. PICK c \in S : m = 100 - c BY <1>3
<1>5. \A d \in S : c >= d
  <2> SUFFICES ASSUME NEW d \in S PROVE c >= d OBVIOUS
  <2>1. 100 - d \in Lower OBVIOUS
  <2>2. 100 - c <= 100 - d BY <1>3, <1>4, <2>1
  <2> QED BY <1>1, <2>2
<1>6. Max(S) \in S /\ \A d \in S : Max(S) >= d BY <1>5 DEF Max
<1> QED BY <1>1, <1>6 DEF S

-----------------------------------------------------------------------------
(* The stored rows, the graph and what a job has read of them.             *)

Relevant(r) == [t \in Tables |-> ForIdentity(t, r)]

\* What is stored or projected was collected at some time, from what the provider held.
StoresOK ==
  /\ DOMAIN estate = Tables \cup {"usage"} /\ Under(estate, Universe)
  /\ DOMAIN rows = Tables /\ DOMAIN ever = Tables
  /\ Under(rows, ever) /\ Under(ever, Universe) /\ Under(graph, ever)

FeedOK ==
  /\ DOMAIN estate = Tables \cup {"usage"} /\ estate["usage"] \in 0..Len(Feed)
  /\ usage \in 0..Len(Feed)

\* What a job has read was there at some time, though maybe never all at once.
ReadOK ==
  /\ DOMAIN read = {"rows", "graph", "usage", "current", "after"}
  /\ DOMAIN read.rows = Tables
  /\ Under(read.rows, Relevant(ever))
  /\ Under(read.graph, ever)
  /\ read.usage \in 0..usage
  /\ todo \in Seq(Tables \cup {"usage"})

PhaseOK ==
  /\ phase \in {"idle", "score", "scoring", "detect", "detecting", "raising"}
  /\ score \in 0..100 /\ urgency \in 0..100

LEMMA FeedType == Len(Feed) \in Nat
BY AssessmentAssumption

LEMMA StoresInit ==
  ASSUME Init
  PROVE  StoresOK
<1>1. estate \in Estates /\ rows = [t \in Tables |-> {i \in estate[t] : i.key \in Known}]
      /\ ever = rows /\ graph = NoRows
  BY DEF Init
<1>2. DOMAIN estate = Tables \cup {"usage"} /\ \A t \in Tables : estate[t] \subseteq Universe[t]
  BY <1>1, AssessmentAssumption
<1> QED BY <1>1, <1>2 DEF StoresOK, Under, NoRows

LEMMA StoresNext ==
  ASSUME StoresOK, [Next]_vars
  PROVE  StoresOK'
<1>1. ASSUME NEW t \in Tables, NEW i \in estate[t], Collect(t, i)
      PROVE  StoresOK'
  <2>1. /\ rows' = [rows EXCEPT ![t] = UpsertRow(t, i)] /\ estate' = estate
        /\ ever' = [ever EXCEPT ![t] = @ \cup {i}] /\ graph' = graph
    BY <1>1 DEF Collect
  <2>2. UpsertRow(t, i) \subseteq rows[t] \cup {i} BY DEF UpsertRow
  <2> QED BY <1>1, <2>1, <2>2 DEF StoresOK, Under
<1>2. ASSUME GraphJob PROVE StoresOK'
  <2>1. /\ rows' = rows /\ ever' = ever /\ estate' = estate
        /\ graph' = Project(graph, rows) \/ graph' = graph
    BY <1>2 DEF GraphJob, tables
  <2>2. \A t \in Tables : Project(graph, rows)[t] \subseteq graph[t] \cup rows[t]
    BY DEF Project
  <2> QED BY <2>1, <2>2 DEF StoresOK, Under
<1>3. ASSUME UNCHANGED <<estate, rows, ever, graph>> PROVE StoresOK'
  BY <1>3 DEF StoresOK, Under
<1>4. CASE ProviderStep
  <2>1. PICK t \in Tables : \/ \E i \in Granted[t] \ estate[t] : Grant(t, i)
                           \/ \E i \in estate[t] : Revoke(t, i)
    BY <1>4 DEF ProviderStep
  <2>2. UNCHANGED <<rows, ever, graph>> BY <2>1 DEF Grant, Revoke
  <2>3. estate[t] \subseteq Universe[t] /\ Granted[t] \subseteq Universe[t]
    BY AssessmentAssumption DEF StoresOK, Under
  <2>4. PICK held \in SUBSET Universe[t] : estate' = [estate EXCEPT ![t] = held]
    <3>1. ASSUME NEW i \in Granted[t], Grant(t, i)
          PROVE  estate' = [estate EXCEPT ![t] = {j \in estate[t] : j.key # i.key} \cup {i}]
      BY <3>1 DEF Grant
    <3>2. ASSUME NEW i \in estate[t], Revoke(t, i)
          PROVE  estate' = [estate EXCEPT ![t] = estate[t] \ {i}]
      BY <3>2 DEF Revoke
    <3>3. CASE \E i \in Granted[t] \ estate[t] : Grant(t, i) BY <2>3, <3>1, <3>3
    <3>4. CASE \E i \in estate[t] : Revoke(t, i) BY <2>3, <3>2, <3>4
    <3> QED BY <2>1, <3>3, <3>4
  <2> QED BY <2>2, <2>4 DEF StoresOK, Under
<1>5. CASE CollectorStep
  BY <1>1, <1>3, <1>5 DEF CollectorStep, CollectEvent
<1>6. CASE WorkerStep
  BY <1>2, <1>3, <1>6 DEF WorkerStep, BeginScoring, BeginDetection, BeginJob, ReadTable,
     ReadFails, WriteScore, Detect, EndCycle, Crash, RaiseFinding, FindingFails, tables
<1>7. CASE OperatorStep
  BY <1>3, <1>7 DEF OperatorStep, UpdateRemediation, ResolveFinding, tables
<1>8. CASE UNCHANGED vars BY <1>3, <1>8 DEF vars, tables
<1> QED BY <1>4, <1>5, <1>6, <1>7, <1>8 DEF Next

LEMMA FeedInit ==
  ASSUME Init
  PROVE  FeedOK
<1>1. estate \in Estates /\ usage = Min({KnownEvents, estate.usage}) BY DEF Init
<1>2. DOMAIN estate = Tables \cup {"usage"} /\ estate["usage"] \in 0..Len(Feed)
  BY <1>1, AssessmentAssumption
<1>3. KnownEvents \in Nat BY AssessmentAssumption
<1> DEFINE u == estate["usage"]
<1>4. u \in Nat /\ u \in 0..Len(Feed) BY <1>2, FeedType
<1> HIDE DEF u
<1>5. \E m \in {KnownEvents, u} : \A k \in {KnownEvents, u} : m <= k BY <1>3, <1>4
<1>6. /\ Min({KnownEvents, u}) \in {KnownEvents, u}
      /\ \A k \in {KnownEvents, u} : Min({KnownEvents, u}) <= k
  BY <1>5 DEF Min
<1>7. Min({KnownEvents, u}) \in 0..Len(Feed) BY <1>3, <1>4, <1>6, FeedType
<1> QED BY <1>1, <1>2, <1>7 DEF FeedOK, u

LEMMA FeedNext ==
  ASSUME FeedOK, [Next]_vars
  PROVE  FeedOK' /\ usage \in Nat /\ usage' \in Nat /\ usage <= usage'
<1>1. usage \in Nat BY FeedType DEF FeedOK
<1>2. ASSUME CollectEvent PROVE FeedOK' /\ usage' \in Nat /\ usage <= usage'
  BY <1>1, <1>2, FeedType DEF CollectEvent, FeedOK
<1>3. ASSUME NEW t \in Tables, NEW X, estate' = [estate EXCEPT ![t] = X], usage' = usage
      PROVE  FeedOK' /\ usage' \in Nat /\ usage <= usage'
  BY <1>1, <1>3 DEF FeedOK, Tables
<1>4. CASE UNCHANGED <<estate, usage>> BY <1>1, <1>4 DEF FeedOK
<1>5. CASE ProviderStep
  <2>1. ASSUME NEW t \in Tables, NEW i, Grant(t, i) \/ Revoke(t, i)
        PROVE  \E X : estate' = [estate EXCEPT ![t] = X] /\ usage' = usage
    BY <2>1 DEF Grant, Revoke
  <2> QED BY <1>1, <1>3, <1>5, <2>1 DEF ProviderStep
<1>6. CASE CollectorStep
  BY <1>1, <1>2, <1>4, <1>6 DEF CollectorStep, Collect
<1>7. CASE WorkerStep
  BY <1>1, <1>4, <1>7 DEF WorkerStep, GraphJob, BeginScoring, BeginDetection, BeginJob,
     ReadTable, ReadFails, WriteScore, Detect, EndCycle, Crash, RaiseFinding, FindingFails,
     tables
<1>8. CASE OperatorStep
  BY <1>1, <1>4, <1>8 DEF OperatorStep, UpdateRemediation, ResolveFinding, tables
<1>9. CASE UNCHANGED vars BY <1>1, <1>4, <1>9 DEF vars, tables
<1> QED BY <1>1, <1>5, <1>6, <1>7, <1>8, <1>9 DEF Next

LEMMA NothingReadType ==
  ASSUME NEW g
  PROVE  /\ DOMAIN NothingRead(g) = {"rows", "graph", "usage", "current", "after"}
         /\ DOMAIN NothingRead(g).rows = Tables
         /\ \A t \in Tables : NothingRead(g).rows[t] = {}
         /\ NothingRead(g).graph = g /\ NothingRead(g).usage = 0
         /\ \A a \in Fixes : NothingRead(g).after[a] = {}
BY DEF NothingRead, NoRows

LEMMA RelevantGrows ==
  ASSUME NEW r, NEW s, Under(r, s)
  PROVE  Under(Relevant(r), Relevant(s)) /\ Under(Relevant(r), s)
<1>1. \A t \in Tables : ForIdentity(t, r) \subseteq ForIdentity(t, s)
                        /\ ForIdentity(t, r) \subseteq s[t]
  BY ForIdentityGrows DEF Under
<1> QED BY <1>1 DEF Under, Relevant

LEMMA ReadInit ==
  ASSUME Init
  PROVE  ReadOK
<1>1. read = NothingRead(NoRows) /\ todo = <<>> BY DEF Init
<1>2. usage \in Nat BY FeedInit, FeedType DEF FeedOK
<1>3. \A t \in Tables : NoRows[t] = {} BY DEF NoRows
<1> QED BY <1>1, <1>2, <1>3, NothingReadType DEF ReadOK, Under

\* A job knows nothing but, perhaps, the graph.
LEMMA ReadNothing ==
  ASSUME StoresOK', NEW g, read' = NothingRead(g), Under(g, ever'),
         usage' \in Nat, todo' \in Seq(Tables \cup {"usage"})
  PROVE  ReadOK'
BY NothingReadType DEF ReadOK, Under

LEMMA ReadNext ==
  ASSUME StoresOK, StoresOK', FeedOK, ReadOK, [Next]_vars
  PROVE  ReadOK'
<1> USE DEF Tables
<1>1. usage \in Nat /\ usage' \in Nat /\ usage <= usage' BY FeedNext
<1>2. \A t \in Tables : NoRows[t] = {} BY DEF NoRows
<1>3. ASSUME UNCHANGED <<read, todo>>, Under(ever, ever') PROVE ReadOK'
  <2>1. Under(Relevant(ever), Relevant(ever')) BY <1>3, RelevantGrows
  <2> QED BY <1>1, <1>3, <2>1 DEF ReadOK, Under
<1>4. Under(ever, ever) BY DEF Under
<1>5. CASE CollectorStep
  <2>1. ASSUME NEW t \in Tables, NEW i, Collect(t, i) PROVE Under(ever, ever')
    BY <2>1 DEF Collect, StoresOK, Under
  <2>2. Under(ever, ever') /\ UNCHANGED <<read, todo>>
    BY <1>4, <1>5, <2>1 DEF CollectorStep, CollectEvent, Collect, worker
  <2> QED BY <1>3, <2>2
<1>6. CASE UNCHANGED <<read, todo, ever>> BY <1>3, <1>4, <1>6
<1>7. CASE BeginScoring \/ BeginDetection
  <2>1. ScoreReads \in Seq(Tables \cup {"usage"}) /\ DetectReads \in Seq(Tables \cup {"usage"})
    BY DEF ScoreReads, DetectReads
  <2>2. /\ todo' \in Seq(Tables \cup {"usage"}) /\ usage' \in Nat /\ ever' = ever
        /\ read' = NothingRead(graph) \/ read' = NothingRead(NoRows)
    BY <1>1, <1>7, <2>1 DEF BeginScoring, BeginDetection, BeginJob, tables
  <2>3. Under(graph, ever') /\ Under(NoRows, ever') BY <1>2, <2>2 DEF StoresOK, Under
  <2> QED BY <2>2, <2>3, ReadNothing
<1>8. CASE ReadTable
  <2> DEFINE t == Head(todo)
  <2>1. t \in Tables \cup {"usage"} /\ todo' \in Seq(Tables \cup {"usage"})
    BY <1>8 DEF ReadTable, ReadOK
  <2>2. ever' = ever /\ rows' = rows /\ usage' = usage BY <1>8 DEF ReadTable, tables
  <2>3. read' = IF t = "usage" THEN [read EXCEPT !.usage = usage]
                ELSE [read EXCEPT !.rows[t] = ForIdentity(t, rows)]
    BY <1>8 DEF ReadTable
  <2> HIDE DEF t
  <2>4. CASE t = "usage"
    BY <1>1, <2>1, <2>2, <2>3, <2>4 DEF ReadOK, Under
  <2>5. CASE t # "usage"
    <3>1. read' = [read EXCEPT !.rows[t] = ForIdentity(t, rows)] /\ t \in Tables
      BY <2>1, <2>3, <2>5
    <3>2. /\ DOMAIN read' = DOMAIN read /\ read'.graph = read.graph /\ read'.usage = read.usage
          /\ read'.rows = [read.rows EXCEPT ![t] = ForIdentity(t, rows)]
      BY <3>1 DEF ReadOK
    <3>3. ForIdentity(t, rows) \subseteq Relevant(ever)[t]
      BY <3>1, ForIdentityGrows DEF StoresOK, Relevant
    <3>4. Under(read'.rows, Relevant(ever')) BY <2>2, <3>1, <3>2, <3>3 DEF ReadOK, Under
    <3> QED BY <2>1, <2>2, <3>2, <3>4 DEF ReadOK
  <2> QED BY <2>4, <2>5
<1>9. CASE ReadFails
  <2>1. todo' \in Seq(Tables \cup {"usage"}) BY <1>9 DEF ReadFails, ReadOK
  <2>2. read' = read /\ ever' = ever /\ usage' = usage BY <1>9 DEF ReadFails, tables
  <2> QED BY <2>1, <2>2 DEF ReadOK
<1>10. CASE Detect
  <2>1. PICK c, f : read' = [read EXCEPT !.current = c, !.after = f]
    BY <1>10 DEF Detect
  <2>2. todo' = todo /\ ever' = ever /\ usage' = usage BY <1>10 DEF Detect, tables
  <2>3. /\ DOMAIN read' = DOMAIN read /\ read'.graph = read.graph /\ read'.usage = read.usage
        /\ read'.rows = read.rows
    BY <2>1 DEF ReadOK
  <2> QED BY <2>2, <2>3 DEF ReadOK
<1>11. CASE EndCycle \/ Crash
  <2>1. read' = NothingRead(NoRows) /\ (todo' = todo \/ todo' = <<>>)
    BY <1>11 DEF EndCycle, Crash
  <2>2. todo' \in Seq(Tables \cup {"usage"})
    <3>1. <<>> \in Seq(Tables \cup {"usage"}) OBVIOUS
    <3>2. todo \in Seq(Tables \cup {"usage"}) BY DEF ReadOK
    <3> HIDE DEF Tables
    <3> QED BY <2>1, <3>1, <3>2
  <2>3. Under(NoRows, ever') BY <1>2 DEF Under
  <2> QED BY <1>1, <2>1, <2>2, <2>3, ReadNothing
<1>12. CASE ProviderStep
  BY <1>6, <1>12 DEF ProviderStep, Grant, Revoke, worker
<1>13. CASE WorkerStep
  <2>1. ASSUME NEW fp, RaiseFinding(fp) \/ FindingFails(fp)
        PROVE  UNCHANGED <<read, todo, ever>>
    BY <2>1 DEF RaiseFinding, FindingFails, tables
  <2>2. ASSUME GraphJob \/ WriteScore PROVE UNCHANGED <<read, todo, ever>>
    BY <2>2 DEF GraphJob, WriteScore, tables
  <2> QED BY <1>6, <1>7, <1>8, <1>9, <1>10, <1>11, <1>13, <2>1, <2>2 DEF WorkerStep
<1>14. CASE OperatorStep
  BY <1>6, <1>14 DEF OperatorStep, UpdateRemediation, ResolveFinding, tables, worker
<1>15. CASE UNCHANGED vars BY <1>6, <1>15 DEF vars, tables, worker
<1> QED BY <1>5, <1>12, <1>13, <1>14, <1>15 DEF Next

-----------------------------------------------------------------------------
(* Type correctness: what is read makes a posture, and what is written is  *)
(* in its range.                                                           *)

LEMMA SubjectType ==
  ASSUME StoresOK, ReadOK
  PROVE  IsPosture(Subject)
<1>1. Under(Relevant(ever), ever) BY RelevantGrows DEF Under
<1>2. Under(read.rows, Universe) /\ Under(read.graph, Universe)
  BY <1>1 DEF StoresOK, ReadOK, Under
<1> DEFINE d == Depth(read.graph["trust"])
<1>3. Subject = [Subject EXCEPT !.depth = d] BY SubjectHasDepth DEF Subject
<1> HIDE DEF d
<1>4. IsPosture([Subject EXCEPT !.depth = d]) BY <1>2, SubjectIsPosture DEF Subject
<1> QED BY <1>3, <1>4

LEMMA PhaseNext ==
  ASSUME StoresOK, ReadOK, PhaseOK, [Next]_vars
  PROVE  PhaseOK'
<1>1. CASE UNCHANGED <<phase, score, urgency>> BY <1>1 DEF PhaseOK
<1>2. ASSUME UNCHANGED scores, phase' \in {"idle", "score", "scoring", "detect",
                                           "detecting", "raising"}
      PROVE  PhaseOK'
  BY <1>2 DEF PhaseOK, scores
<1>3. CASE WriteScore
  <2>1. phase' = "detect" BY <1>3 DEF WriteScore
  <2>2. CASE UNCHANGED scores BY <1>2, <2>1, <2>2
  <2>3. CASE \E p \in {Subject} : \E c \in Composites(p) : score' = c /\ urgency' = Urgency(c, p)
    <3>1. PICK c \in Composites(Subject) : score' = c /\ urgency' = Urgency(c, Subject)
      BY <2>3
    <3>2. score' \in 0..100 /\ urgency' \in 0..100 BY <3>1, SubjectType, ScoreInRange
    <3> QED BY <2>1, <3>2 DEF PhaseOK
  <2> QED BY <1>3, <2>2, <2>3 DEF WriteScore
<1>4. CASE GraphJob \/ BeginScoring \/ BeginDetection \/ EndCycle \/ Crash
  BY <1>2, <1>4 DEF GraphJob, BeginScoring, BeginDetection, BeginJob, EndCycle, Crash
<1>5. CASE ReadTable \/ ReadFails BY <1>1, <1>5 DEF ReadTable, ReadFails, scores
<1>6. CASE Detect
  <2>1. UNCHANGED scores /\ phase' = "raising" BY <1>6 DEF Detect
  <2> QED BY <1>2, <2>1
<1>7. ASSUME NEW fp, RaiseFinding(fp) \/ FindingFails(fp) PROVE PhaseOK'
  BY <1>1, <1>7 DEF RaiseFinding, FindingFails, scores
<1>8. CASE ProviderStep
  BY <1>1, <1>8 DEF ProviderStep, Grant, Revoke, worker, scores
<1>9. CASE CollectorStep
  BY <1>1, <1>9 DEF CollectorStep, CollectEvent, Collect, worker, scores
<1>10. CASE WorkerStep
  BY <1>3, <1>4, <1>5, <1>6, <1>7, <1>10 DEF WorkerStep
<1>11. CASE OperatorStep
  BY <1>1, <1>11 DEF OperatorStep, UpdateRemediation, ResolveFinding, worker, scores
<1>12. CASE UNCHANGED vars BY <1>1, <1>12 DEF vars, worker, scores
<1> QED BY <1>8, <1>9, <1>10, <1>11, <1>12 DEF Next

\* A finding is resolved, or raised again, only by events, of which there are so many.
FindingsOK ==
  /\ events \in 0..MaxEvents
  /\ \A fp \in DOMAIN findings :
        /\ findings[fp] \in [n : Nat \ {0}, open : BOOLEAN]
        /\ findings[fp].n <= events + 1
        /\ findings[fp].open \/ findings[fp].n <= events

\* Every action is one that the catalog has, for a finding that there is.
ActionsOK ==
  \A k \in DOMAIN actions : \E fp \in DOMAIN findings, n \in 1..MaxEvents + 1, a \in Fixes :
      k = <<<<fp, n>>, a>>

LEMMA FindingNumber ==
  ASSUME FindingsOK, NEW fp
  PROVE  FindingId(fp) \in Nat \ {0} /\ FindingId(fp) <= events + 1
<1>1. CASE fp \notin DOMAIN findings BY <1>1 DEF FindingsOK, FindingId
<1>2. CASE fp \in DOMAIN findings
  <2> DEFINE r == findings[fp]
  <2>1. /\ r \in [n : Nat \ {0}, open : BOOLEAN] /\ r.n <= events + 1
        /\ r.open \/ r.n <= events
    BY <1>2 DEF FindingsOK
  <2>2. FindingId(fp) = IF r.open THEN r.n ELSE r.n + 1 BY <1>2 DEF FindingId
  <2>3. events \in Nat BY AssessmentAssumption DEF FindingsOK
  <2> HIDE DEF r
  <2>4. r.n \in Nat \ {0} BY <2>1
  <2> QED BY <2>1, <2>2, <2>3, <2>4
<1> QED BY <1>1, <1>2

LEMMA PlansAreFixes ==
  ASSUME NEW d
  PROVE  Plans(d) \subseteq Fixes
BY DEF Plans, Fixes

\* What RaiseFinding does to the table of actions.
Writes(id, stored, after) ==
  /\ DOMAIN actions' = DOMAIN actions \cup {<<id, a>> : a \in stored}
  /\ \A k \in DOMAIN actions \ {<<id, a>> : a \in stored} : actions'[k] = actions[k]
  /\ \A a \in stored : LET new == actions'[<<id, a>>]
                       IN /\ DOMAIN new = {"status", "before", "after", "delta"}
                          /\ new.before = read.current /\ new.after = after[a]
                          /\ <<id, a>> \in DOMAIN actions
                               => new.status = actions[<<id, a>>].status

LEMMA UpsertsWrite ==
  ASSUME NEW id, NEW stored, NEW after, actions' = Upserts(id, stored, read.current, after)
  PROVE  Writes(id, stored, after)
<1> DEFINE keys == {<<id, a>> : a \in stored}
<1>1. actions' = [k \in DOMAIN actions \cup keys |->
                    IF k \in keys
                    THEN UpsertAction(actions, id, k[2], read.current, after[k[2]])[k]
                    ELSE actions[k]]
  BY DEF Upserts
<1>2. ASSUME NEW a \in stored
      PROVE  actions'[<<id, a>>] =
               [status |-> IF <<id, a>> \in DOMAIN actions THEN actions[<<id, a>>].status
                           ELSE "recommended",
                before |-> read.current, after |-> after[a],
                delta |-> Delta(read.current, after[a])]
  <2> DEFINE k == <<id, a>>
  <2>1. k \in keys /\ k[2] = a OBVIOUS
  <2> HIDE DEF keys
  <2>2. actions'[k] = UpsertAction(actions, id, a, read.current, after[a])[k]
    BY <1>1, <2>1
  <2> QED BY <2>2 DEF UpsertAction
<1>3. /\ DOMAIN actions' = DOMAIN actions \cup keys
      /\ \A k \in DOMAIN actions \ keys : actions'[k] = actions[k]
  <2> HIDE DEF keys
  <2> QED BY <1>1
<1>4. ASSUME NEW a \in stored
      PROVE  LET new == actions'[<<id, a>>]
             IN /\ DOMAIN new = {"status", "before", "after", "delta"}
                /\ new.before = read.current /\ new.after = after[a]
                /\ <<id, a>> \in DOMAIN actions
                     => new.status = actions[<<id, a>>].status
  <2> DEFINE k == <<id, a>>
             status == IF k \in DOMAIN actions THEN actions[k].status ELSE "recommended"
             delta  == Delta(read.current, after[a])
  <2>1. actions'[k] = [status |-> status, before |-> read.current, after |-> after[a],
                       delta |-> delta]
    BY <1>2
  <2>2. k \in DOMAIN actions => status = actions[k].status OBVIOUS
  <2> HIDE DEF k, status, delta
  <2>3. LET new == actions'[k]
        IN /\ DOMAIN new = {"status", "before", "after", "delta"}
           /\ new.before = read.current /\ new.after = after[a]
           /\ k \in DOMAIN actions => new.status = actions[k].status
    BY <2>1, <2>2
  <2> QED BY <2>3 DEF k
<1> QED BY <1>3, <1>4 DEF Writes

LEMMA RaiseWrites ==
  ASSUME NEW fp, RaiseFinding(fp)
  PROVE  \E stored \in SUBSET Plans(fp[1]) : \E after \in Projections(stored) :
           Writes(<<fp, FindingId(fp)>>, stored, after)
<1>1. PICK stored \in SUBSET Plans(fp[1]) : \E after \in Projections(stored) :
        actions' = Upserts(<<fp, FindingId(fp)>>, stored, read.current, after)
  BY DEF RaiseFinding
<1> QED BY <1>1, UpsertsWrite

\* The steps that change neither findings nor actions.
LEMMA EventNext ==
  ASSUME FindingsOK, ActionsOK, UNCHANGED <<findings, actions>>, events' = events \/ Event
  PROVE  FindingsOK' /\ ActionsOK'
<1>1. MaxEvents \in Nat BY AssessmentAssumption
<1>2. events' \in 0..MaxEvents /\ events <= events' /\ events \in Nat /\ events' \in Nat
  BY <1>1 DEF FindingsOK, Event
<1>3. \A fp \in DOMAIN findings : findings[fp].n \in Nat BY DEF FindingsOK
<1>4. FindingsOK'
  <2>1. ASSUME NEW fp \in DOMAIN findings'
        PROVE  /\ findings'[fp] \in [n : Nat \ {0}, open : BOOLEAN]
               /\ findings'[fp].n <= events' + 1
               /\ findings'[fp].open \/ findings'[fp].n <= events'
    <3> DEFINE r == findings[fp]
    <3>1. /\ r \in [n : Nat \ {0}, open : BOOLEAN] /\ r.n <= events + 1
          /\ r.open \/ r.n <= events
          /\ r.n \in Nat /\ findings'[fp] = r
      BY <1>3 DEF FindingsOK
    <3> HIDE DEF r
    <3> QED BY <1>2, <3>1
  <2> QED BY <1>2, <2>1 DEF FindingsOK
<1>5. ActionsOK' BY DEF ActionsOK
<1> QED BY <1>4, <1>5

LEMMA RaiseNext ==
  ASSUME FindingsOK, ActionsOK, NEW fp, RaiseFinding(fp)
  PROVE  FindingsOK' /\ ActionsOK'
<1> DEFINE id == <<fp, FindingId(fp)>>
<1>1. MaxEvents \in Nat BY AssessmentAssumption
<1>2. events' \in 0..MaxEvents /\ events <= events' /\ events \in Nat /\ events' \in Nat
  BY <1>1 DEF FindingsOK, RaiseFinding, Event
<1>3. findings' = [f \in DOMAIN findings \cup {fp} |->
                     IF f = fp THEN [n |-> FindingId(fp), open |-> TRUE] ELSE findings[f]]
  BY DEF RaiseFinding
<1>4. FindingId(fp) \in Nat \ {0} /\ FindingId(fp) <= events + 1 BY FindingNumber
<1>5. FindingsOK'
  <2>1. ASSUME NEW f \in DOMAIN findings'
        PROVE  /\ findings'[f] \in [n : Nat \ {0}, open : BOOLEAN]
               /\ findings'[f].n <= events' + 1
               /\ findings'[f].open \/ findings'[f].n <= events'
    <3>1. CASE f = fp BY <1>2, <1>3, <1>4, <3>1
    <3>2. CASE f # fp
      <4> DEFINE r == findings[f]
      <4>1. f \in DOMAIN findings /\ findings'[f] = r BY <1>3, <3>2
      <4>2. /\ r \in [n : Nat \ {0}, open : BOOLEAN] /\ r.n <= events + 1
            /\ r.open \/ r.n <= events
        BY <4>1 DEF FindingsOK
      <4> HIDE DEF r
      <4>3. r.n \in Nat BY <4>2
      <4> QED BY <1>2, <4>1, <4>2, <4>3
    <3> QED BY <3>1, <3>2
  <2> QED BY <1>2, <2>1 DEF FindingsOK
<1>6. PICK stored \in SUBSET Plans(fp[1]) : \E after : Writes(id, stored, after)
  BY RaiseWrites
<1>7. DOMAIN actions' = DOMAIN actions \cup {<<id, a>> : a \in stored} BY <1>6 DEF Writes
<1>8. DOMAIN findings \subseteq DOMAIN findings' /\ fp \in DOMAIN findings' BY <1>3
<1>9. ActionsOK'
  <2> SUFFICES ASSUME NEW k \in DOMAIN actions'
               PROVE  \E f \in DOMAIN findings', n \in 1..MaxEvents + 1, a \in Fixes :
                        k = <<<<f, n>>, a>>
    BY DEF ActionsOK
  <2>1. CASE k \in DOMAIN actions BY <1>8, <2>1 DEF ActionsOK
  <2>2. CASE k \notin DOMAIN actions
    <3>1. PICK a \in stored : k = <<id, a>> BY <1>7, <2>2
    <3>2. a \in Fixes BY PlansAreFixes
    <3>3. FindingId(fp) \in 1..MaxEvents + 1 BY <1>1, <1>2, <1>4 DEF FindingsOK
    <3> QED BY <1>8, <3>1, <3>2, <3>3
  <2> QED BY <2>1, <2>2
<1> QED BY <1>5, <1>9

LEMMA ResolveNext ==
  ASSUME FindingsOK, ActionsOK, NEW fp \in DOMAIN findings, ResolveFinding(fp)
  PROVE  FindingsOK' /\ ActionsOK'
<1>1. MaxEvents \in Nat BY AssessmentAssumption
<1>2. events' \in 0..MaxEvents /\ events' = events + 1 /\ events \in Nat
  BY <1>1 DEF FindingsOK, ResolveFinding, Event
<1>3. findings' = [findings EXCEPT ![fp].open = FALSE] /\ actions' = actions
  BY DEF ResolveFinding
<1>4. FindingsOK'
  <2>1. ASSUME NEW f \in DOMAIN findings'
        PROVE  /\ findings'[f] \in [n : Nat \ {0}, open : BOOLEAN]
               /\ findings'[f].n <= events' + 1
               /\ findings'[f].open \/ findings'[f].n <= events'
    <3> DEFINE r == findings[f]
    <3>1. f \in DOMAIN findings BY <1>3
    <3>2. r \in [n : Nat \ {0}, open : BOOLEAN] /\ r.n <= events + 1
      BY <3>1 DEF FindingsOK
    <3>3. findings'[f] = IF f = fp THEN [r EXCEPT !.open = FALSE] ELSE r BY <1>3, <3>1
    <3> HIDE DEF r
    <3>4. findings'[f] \in [n : Nat \ {0}, open : BOOLEAN] /\ findings'[f].n = r.n
      BY <3>2, <3>3
    <3>5. r.n \in Nat BY <3>2
    <3> QED BY <1>2, <3>2, <3>4, <3>5
  <2> QED BY <1>2, <2>1 DEF FindingsOK
<1>5. DOMAIN findings' = DOMAIN findings BY <1>3
<1>6. ActionsOK' BY <1>3, <1>5 DEF ActionsOK
<1> QED BY <1>4, <1>6

LEMMA UpdateNext ==
  ASSUME FindingsOK, ActionsOK, NEW k, NEW s, UpdateRemediation(k, s)
  PROVE  FindingsOK' /\ ActionsOK'
<1>1. MaxEvents \in Nat BY AssessmentAssumption
<1>2. events' \in 0..MaxEvents /\ events' = events + 1 /\ events \in Nat
  BY <1>1 DEF FindingsOK, UpdateRemediation, Event
<1>3. findings' = findings /\ actions' = [actions EXCEPT ![k].status = s]
  BY DEF UpdateRemediation, UpdateActionStatus
<1>4. FindingsOK'
  <2>1. ASSUME NEW f \in DOMAIN findings'
        PROVE  /\ findings'[f] \in [n : Nat \ {0}, open : BOOLEAN]
               /\ findings'[f].n <= events' + 1
               /\ findings'[f].open \/ findings'[f].n <= events'
    <3> DEFINE r == findings[f]
    <3>1. /\ r \in [n : Nat \ {0}, open : BOOLEAN] /\ r.n <= events + 1
          /\ findings'[f] = r
      BY <1>3 DEF FindingsOK
    <3> HIDE DEF r
    <3>2. r.n \in Nat BY <3>1
    <3> QED BY <1>2, <3>1, <3>2
  <2> QED BY <1>2, <2>1 DEF FindingsOK
<1>5. DOMAIN actions' = DOMAIN actions BY <1>3
<1>6. ActionsOK' BY <1>3, <1>5 DEF ActionsOK
<1> QED BY <1>4, <1>6

LEMMA FindingsNext ==
  ASSUME FindingsOK, ActionsOK, [Next]_vars
  PROVE  FindingsOK' /\ ActionsOK'
<1>1. CASE UNCHANGED <<findings, actions>> /\ (events' = events \/ Event) BY <1>1, EventNext
<1>2. CASE ProviderStep
  BY <1>1, <1>2 DEF ProviderStep, Grant, Revoke
<1>3. CASE CollectorStep
  BY <1>1, <1>3 DEF CollectorStep, CollectEvent, Collect
<1>4. CASE WorkerStep
  <2>1. ASSUME NEW fp, FindingFails(fp)
        PROVE  UNCHANGED <<findings, actions>> /\ (events' = events \/ Event)
    BY <2>1 DEF FindingFails
  <2>2. ASSUME \/ GraphJob \/ BeginScoring \/ BeginDetection \/ ReadTable \/ ReadFails
               \/ WriteScore \/ Detect \/ EndCycle \/ Crash
        PROVE  UNCHANGED <<findings, actions>> /\ (events' = events \/ Event)
    BY <2>2 DEF GraphJob, BeginScoring, BeginDetection, BeginJob, ReadTable, ReadFails,
       WriteScore, Detect, EndCycle, Crash
  <2> QED BY <1>1, <1>4, <2>1, <2>2, RaiseNext DEF WorkerStep
<1>5. CASE OperatorStep
  BY <1>5, UpdateNext, ResolveNext DEF OperatorStep
<1>6. CASE UNCHANGED vars BY <1>1, <1>6 DEF vars
<1> QED BY <1>2, <1>3, <1>4, <1>5, <1>6 DEF Next

\* TypeOK says nothing of the estate, the queries left to make or the findings' states,
\* which decide what is written next.
TypeInv ==
  /\ ident \in Identities
  /\ StoresOK /\ FeedOK /\ ReadOK /\ PhaseOK /\ FindingsOK /\ ActionsOK

LEMMA TypeInvInit ==
  ASSUME Init
  PROVE  TypeInv
<1>1. MaxEvents \in Nat BY AssessmentAssumption
<1>2. PhaseOK BY DEF Init, PhaseOK
<1>3. FindingsOK /\ ActionsOK
  <2>1. findings = <<>> /\ actions = <<>> /\ events = 0 BY DEF Init
  <2>2. DOMAIN findings = {} /\ DOMAIN actions = {} BY <2>1
  <2> QED BY <1>1, <2>1, <2>2 DEF FindingsOK, ActionsOK
<1>4. ident \in Identities BY DEF Init
<1> QED BY <1>2, <1>3, <1>4, StoresInit, FeedInit, ReadInit DEF TypeInv

LEMMA IdentityStays ==
  ASSUME [Next]_vars
  PROVE  ident' = ident
<1>1. CASE ProviderStep BY <1>1 DEF ProviderStep, Grant, Revoke
<1>2. CASE CollectorStep BY <1>2 DEF CollectorStep, CollectEvent, Collect
<1>3. CASE WorkerStep
  BY <1>3 DEF WorkerStep, GraphJob, BeginScoring, BeginDetection, BeginJob, ReadTable,
     ReadFails, WriteScore, Detect, EndCycle, Crash, RaiseFinding, FindingFails, tables
<1>4. CASE OperatorStep
  BY <1>4 DEF OperatorStep, UpdateRemediation, ResolveFinding, tables
<1>5. CASE UNCHANGED vars BY <1>5 DEF vars, tables
<1> QED BY <1>1, <1>2, <1>3, <1>4, <1>5 DEF Next

LEMMA TypeInvNext ==
  ASSUME TypeInv, [Next]_vars
  PROVE  TypeInv'
<1> USE DEF TypeInv
<1>1. StoresOK' BY StoresNext
<1>2. FeedOK' BY FeedNext
<1>3. ReadOK' BY <1>1, ReadNext
<1>4. PhaseOK' BY PhaseNext
<1>5. FindingsOK' /\ ActionsOK' BY FindingsNext
<1>6. ident' \in Identities BY IdentityStays
<1> QED BY <1>1, <1>2, <1>3, <1>4, <1>5, <1>6

LEMMA TypeInvImplies ==
  ASSUME TypeInv
  PROVE  TypeOK
<1>1. ASSUME NEW t \in Tables
      PROVE  /\ rows[t] \subseteq ever[t] /\ ever[t] \subseteq Universe[t]
             /\ graph[t] \subseteq ever[t] /\ read.rows[t] \subseteq ever[t]
  <2>1. Under(Relevant(ever), ever) BY RelevantGrows DEF Under
  <2> QED BY <2>1 DEF TypeInv, StoresOK, ReadOK, Under
<1>2. DOMAIN actions \subseteq {<<id, a>> : id \in {<<fp, n>> : fp \in DOMAIN findings,
                                                      n \in 1..MaxEvents + 1},
                                            a \in Fixes}
  BY DEF TypeInv, ActionsOK
<1> QED BY <1>1, <1>2 DEF TypeInv, TypeOK, FeedOK, ReadOK, PhaseOK, FindingsOK

\* The rows that a job reads and projects were collected, and the score, the urgency and
\* the recommended actions that it writes are in their ranges, however it is interrupted.
THEOREM TypeCorrect == Spec => []TypeOK
<1>1. Init => TypeInv BY TypeInvInit
<1>2. TypeInv /\ [Next]_vars => TypeInv' BY TypeInvNext
<1>3. TypeInv => TypeOK BY TypeInvImplies
<1> QED BY <1>1, <1>2, <1>3, PTL DEF Spec

\* No pass of the worker takes back what the operator decided about an action.
THEOREM DecisionsStay == Spec => DecisionsKept
<1>1. ASSUME [Next]_vars
      PROVE  [WorkerStep => \A k \in DOMAIN actions : /\ k \in DOMAIN actions'
                                                     /\ actions'[k].status
                                                          = actions[k].status]_vars
  <2>1. ASSUME NEW fp, RaiseFinding(fp), NEW k \in DOMAIN actions
        PROVE  k \in DOMAIN actions' /\ actions'[k].status = actions[k].status
    <3>1. PICK id, stored, after : Writes(id, stored, after) BY <2>1, RaiseWrites
    <3>2. CASE \A a \in stored : k # <<id, a>> BY <2>1, <3>1, <3>2 DEF Writes
    <3>3. CASE \E a \in stored : k = <<id, a>> BY <2>1, <3>1, <3>3 DEF Writes
    <3> QED BY <3>2, <3>3
  <2>2. ASSUME WorkerStep
        PROVE  actions' = actions \/ \E fp : RaiseFinding(fp)
    BY <2>2 DEF WorkerStep, GraphJob, BeginScoring, BeginDetection, BeginJob, ReadTable,
       ReadFails, WriteScore, Detect, EndCycle, Crash, FindingFails
  <2> QED BY <2>1, <2>2
<1> QED BY <1>1, PTL DEF Spec, DecisionsKept

-----------------------------------------------------------------------------
(* The recommended actions.                                                *)

\* What Recommend came to in this pass, and what it wrote in earlier ones.
FixInv ==
  /\ \A a \in Fixes : \A v \in read.after[a] : v <= read.current + 1
  /\ \A k \in DOMAIN actions : /\ DOMAIN actions[k] = {"status", "before", "after", "delta"}
                               /\ actions[k].after <= actions[k].before + 1

LEMMA FixInit ==
  ASSUME Init
  PROVE  FixInv
<1>1. read = NothingRead(NoRows) /\ actions = <<>> BY DEF Init
<1>2. DOMAIN actions = {} BY <1>1
<1>3. \A a \in Fixes : read.after[a] = {} BY <1>1, NothingReadType
<1> QED BY <1>2, <1>3 DEF FixInv

LEMMA DetectKeepsFixes ==
  ASSUME OrderedWeights, StoresOK, ReadOK, FixInv, Detect
  PROVE  FixInv'
<1>1. PICK current \in Composites(Subject) :
        read' = [read EXCEPT !.current = current,
                             !.after = [a \in Fixes |-> After(a, Subject, current)]]
  BY DEF Detect
<1>2. /\ read'.current = current
      /\ \A a \in Fixes : read'.after[a] = After(a, Subject, current)
  BY <1>1 DEF ReadOK
<1>3. IsPosture(Subject) BY SubjectType
<1>4. \A a \in Fixes : \A v \in After(a, Subject, current) : v <= current + 1
  BY <1>3, FixesLower
<1>5. actions' = actions BY DEF Detect
<1> QED BY <1>2, <1>4, <1>5 DEF FixInv

LEMMA RaiseKeepsFixes ==
  ASSUME FixInv, NEW fp, RaiseFinding(fp)
  PROVE  FixInv'
<1>1. PICK stored \in SUBSET Plans(fp[1]) : \E after \in Projections(stored) :
        Writes(<<fp, FindingId(fp)>>, stored, after)
  BY RaiseWrites
<1>2. PICK after \in Projections(stored) : Writes(<<fp, FindingId(fp)>>, stored, after)
  BY <1>1
<1> DEFINE id == <<fp, FindingId(fp)>>
<1>3. \A a \in stored : a \in Fixes /\ after[a] \in read.after[a]
  BY PlansAreFixes DEF Projections
<1>4. \A a \in stored : after[a] <= read.current + 1 BY <1>3 DEF FixInv
<1>5. ASSUME NEW k \in DOMAIN actions'
      PROVE  /\ DOMAIN actions'[k] = {"status", "before", "after", "delta"}
             /\ actions'[k].after <= actions'[k].before + 1
  <2>1. CASE \E a \in stored : k = <<id, a>> BY <1>2, <1>4, <2>1 DEF Writes
  <2>2. CASE \A a \in stored : k # <<id, a>>
    <3>1. k \in DOMAIN actions /\ actions'[k] = actions[k]
      BY <1>2, <1>5, <2>2 DEF Writes
    <3> QED BY <3>1 DEF FixInv
  <2> QED BY <2>1, <2>2
<1>6. read' = read BY DEF RaiseFinding
<1> QED BY <1>5, <1>6 DEF FixInv

LEMMA UpdateKeepsFixes ==
  ASSUME FixInv, NEW k, NEW s, UpdateRemediation(k, s)
  PROVE  FixInv'
<1>1. actions' = [actions EXCEPT ![k].status = s] /\ read' = read
  BY DEF UpdateRemediation, UpdateActionStatus, worker
<1>2. ASSUME NEW j \in DOMAIN actions'
      PROVE  /\ DOMAIN actions'[j] = {"status", "before", "after", "delta"}
             /\ actions'[j].after <= actions'[j].before + 1
  <2> DEFINE r == actions[j]
  <2>1. /\ DOMAIN r = {"status", "before", "after", "delta"} /\ r.after <= r.before + 1
        /\ actions'[j] = IF j = k THEN [r EXCEPT !.status = s] ELSE r
    BY <1>1 DEF FixInv
  <2> HIDE DEF r
  <2> QED BY <2>1
<1> QED BY <1>1, <1>2 DEF FixInv

LEMMA FixNext ==
  ASSUME OrderedWeights, TypeInv, FixInv, [Next]_vars
  PROVE  FixInv'
<1>1. CASE UNCHANGED <<read, actions>> BY <1>1 DEF FixInv
<1>2. ASSUME NEW g, read' = NothingRead(g), actions' = actions PROVE FixInv'
  BY <1>2, NothingReadType DEF FixInv
<1>3. CASE BeginScoring \/ BeginDetection \/ EndCycle \/ Crash
  BY <1>2, <1>3 DEF BeginScoring, BeginDetection, BeginJob, EndCycle, Crash
<1>4. CASE ReadTable
  <2>1. /\ actions' = actions
        /\ \/ read' = [read EXCEPT !.usage = usage]
           \/ \E t, X : read' = [read EXCEPT !.rows[t] = X]
    BY <1>4 DEF ReadTable
  <2>2. read'.after = read.after /\ read'.current = read.current
    BY <2>1 DEF TypeInv, ReadOK
  <2> QED BY <2>1, <2>2 DEF FixInv
<1>5. CASE Detect BY <1>5, DetectKeepsFixes DEF TypeInv
<1>6. CASE ReadFails \/ GraphJob \/ WriteScore
  BY <1>1, <1>6 DEF ReadFails, GraphJob, WriteScore
<1>7. ASSUME NEW fp, FindingFails(fp) PROVE UNCHANGED <<read, actions>>
  BY <1>7 DEF FindingFails
<1>8. CASE ProviderStep
  BY <1>1, <1>8 DEF ProviderStep, Grant, Revoke, worker
<1>9. CASE CollectorStep
  BY <1>1, <1>9 DEF CollectorStep, CollectEvent, Collect, worker
<1>10. CASE WorkerStep
  BY <1>1, <1>3, <1>4, <1>5, <1>6, <1>7, <1>10, RaiseKeepsFixes DEF WorkerStep
<1>11. CASE OperatorStep
  <2>1. ASSUME NEW fp, ResolveFinding(fp) PROVE UNCHANGED <<read, actions>>
    BY <2>1 DEF ResolveFinding, worker
  <2> QED BY <1>1, <1>11, <2>1, UpdateKeepsFixes DEF OperatorStep
<1>12. CASE UNCHANGED vars BY <1>1, <1>12 DEF vars, worker
<1> QED BY <1>8, <1>9, <1>10, <1>11, <1>12 DEF Next

\* With weights that hold nothing in an identity's favour, no recommended action projects
\* a higher score than the one it starts from, but for the point of rounding, though it is
\* computed from reads that may never have been true together.
THEOREM FixesNeverRaise ==
  ASSUME OrderedWeights
  PROVE  Spec => []FixNeverRaisesRisk
<1>1. Init => TypeInv /\ FixInv BY TypeInvInit, FixInit
<1>2. TypeInv /\ FixInv /\ [Next]_vars => TypeInv' /\ FixInv' BY TypeInvNext, FixNext
<1>3. FixInv => FixNeverRaisesRisk BY DEF FixInv, FixNeverRaisesRisk
<1> QED BY <1>1, <1>2, <1>3, PTL DEF Spec

-----------------------------------------------------------------------------
(* The stored score.                                                       *)

\* The posture that everything ever stored adds up to, with the chain of the edges T.
Everything(T) ==
  [SubjectOf(Listed(ident), Relevant(ever), ever, usage) EXCEPT !.depth = Depth(T)]

SupportInv == \E T \in SUBSET ever["trust"] : score <= Max(Composites(Everything(T)))

LEMMA EverythingType ==
  ASSUME StoresOK
  PROVE  /\ Under(Relevant(ever), Universe) /\ Under(ever, Universe)
         /\ \A T : IsPosture(Everything(T))
<1>1. Under(Relevant(ever), ever) BY RelevantGrows DEF Under
<1>2. Under(Relevant(ever), Universe) /\ Under(ever, Universe)
  BY <1>1 DEF StoresOK, Under
<1> QED BY <1>2, SubjectIsPosture DEF Everything

LEMMA SupportInit ==
  ASSUME Init
  PROVE  SupportInv
<1>1. IsPosture(Everything({})) BY StoresInit, EverythingType
<1>2. Max(Composites(Everything({}))) \in 0..100 BY <1>1, HighestIsScored
<1>3. score = 0 BY DEF Init
<1> QED BY <1>2, <1>3 DEF SupportInv

\* More rows and more usage never take away what supports a score, which keeps its chain.
LEMMA SupportGrows ==
  ASSUME OrderedWeights, StoresOK, StoresOK', PhaseOK, SupportInv,
         Under(ever, ever'), ident' = ident, score' = score
  PROVE  SupportInv'
<1>1. PICK T \in SUBSET ever["trust"] : score <= Max(Composites(Everything(T)))
  BY DEF SupportInv
<1> DEFINE p == Everything(T)
           q == [SubjectOf(Listed(ident), Relevant(ever'), ever', usage') EXCEPT
                    !.depth = Depth(T)]
<1>2. IsPosture(p) BY EverythingType
<1>3. Under(ever', Universe) BY DEF StoresOK
<1>4. Under(Relevant(ever), Relevant(ever')) /\ Under(Relevant(ever'), Universe)
  BY <1>3, RelevantGrows
<1>5. IsPosture(q) BY <1>3, <1>4, SubjectIsPosture
<1>6. Milder(p, q) BY <1>3, <1>4, SubjectGrows DEF Everything
<1>7. Everything(T)' = q BY DEF Everything
<1>8. T \in SUBSET ever'["trust"] BY DEF Under, Tables
<1> HIDE DEF p, q
<1>9. Max(Composites(p)) \in Composites(p) /\ Max(Composites(p)) \in 0..100
  BY <1>2, HighestIsScored
<1>10. Max(Composites(p)) <= Max(Composites(q)) BY <1>2, <1>5, <1>6, <1>9, RiskGrows
<1>11. Max(Composites(q)) \in 0..100 BY <1>5, HighestIsScored
<1>12. score \in 0..100 /\ score <= Max(Composites(p)) BY <1>1 DEF PhaseOK, p
<1>13. score' <= Max(Composites(q)) BY <1>9, <1>10, <1>11, <1>12
<1> QED BY <1>7, <1>8, <1>13 DEF SupportInv

\* The rows and the graph that a pass has read are among all that was ever stored; its
\* chain is the one that was in the graph.
LEMMA WriteIsSupported ==
  ASSUME OrderedWeights, StoresOK, ReadOK, NEW c \in Composites(Subject)
  PROVE  \E T \in SUBSET ever["trust"] : c <= Max(Composites(Everything(T)))
<1> DEFINE T == read.graph["trust"]
<1>1. /\ IsPosture(Everything(T)) /\ Under(Relevant(ever), Universe)
      /\ Under(ever, Universe)
  BY EverythingType
<1>2. IsPosture(Subject) BY SubjectType
<1>3. Under(read.rows, Relevant(ever)) /\ Under(read.graph, ever) BY DEF ReadOK
<1>4. Subject = [Subject EXCEPT !.depth = Depth(T)] BY SubjectHasDepth DEF Subject
<1>5. Milder([Subject EXCEPT !.depth = Depth(T)], Everything(T))
  BY <1>1, <1>3, SubjectGrows DEF Subject, Everything
<1>6. T \in SUBSET ever["trust"] BY <1>3 DEF Under, Tables
<1> HIDE DEF T
<1>7. Milder(Subject, Everything(T)) BY <1>4, <1>5
<1> QED BY <1>1, <1>2, <1>6, <1>7, RiskGrows

LEMMA SupportNext ==
  ASSUME OrderedWeights, TypeInv, TypeInv', SupportInv, [Next]_vars
  PROVE  SupportInv'
<1> USE DEF TypeInv
<1>1. ident' = ident BY IdentityStays
<1>2. Under(ever, ever) BY DEF Under
<1>3. CASE UNCHANGED <<ever, score>> BY <1>1, <1>2, <1>3, SupportGrows
<1>4. CASE WriteScore
  <2>1. UNCHANGED <<ident, ever, usage>> BY <1>4 DEF WriteScore, tables
  <2>2. \A T : Everything(T)' = Everything(T) BY <2>1 DEF Everything
  <2>3. score' = score \/ score' \in Composites(Subject) BY <1>4 DEF WriteScore, scores
  <2>4. \E T \in SUBSET ever["trust"] : score' <= Max(Composites(Everything(T)))
    BY <2>3, WriteIsSupported DEF SupportInv
  <2> QED BY <2>1, <2>2, <2>4 DEF SupportInv
<1>5. CASE ProviderStep
  BY <1>3, <1>5 DEF ProviderStep, Grant, Revoke, scores
<1>6. CASE CollectorStep
  <2>1. ASSUME NEW t \in Tables, NEW i, Collect(t, i)
        PROVE  Under(ever, ever') /\ score' = score
    BY <2>1 DEF Collect, StoresOK, Under, scores
  <2>2. ASSUME CollectEvent PROVE UNCHANGED <<ever, score>>
    BY <2>2 DEF CollectEvent, scores
  <2>3. Under(ever, ever') /\ score' = score
    BY <1>2, <1>6, <2>1, <2>2 DEF CollectorStep
  <2> QED BY <1>1, <2>3, SupportGrows
<1>7. CASE WorkerStep
  <2>1. ASSUME NEW fp, RaiseFinding(fp) \/ FindingFails(fp) PROVE UNCHANGED <<ever, score>>
    BY <2>1 DEF RaiseFinding, FindingFails, tables, scores
  <2>2. ASSUME \/ GraphJob \/ BeginScoring \/ BeginDetection \/ ReadTable \/ ReadFails
               \/ Detect \/ EndCycle \/ Crash
        PROVE  UNCHANGED <<ever, score>>
    BY <2>2 DEF GraphJob, BeginScoring, BeginDetection, BeginJob, ReadTable, ReadFails,
       Detect, EndCycle, Crash, tables, scores
  <2> QED BY <1>3, <1>4, <1>7, <2>1, <2>2 DEF WorkerStep
<1>8. CASE OperatorStep
  BY <1>3, <1>8 DEF OperatorStep, UpdateRemediation, ResolveFinding, tables, scores
<1>9. CASE UNCHANGED vars BY <1>3, <1>9 DEF vars, tables, scores
<1> QED BY <1>5, <1>6, <1>7, <1>8, <1>9 DEF Next

\* With such weights a stored score never exceeds what all the rows ever stored explain,
\* together with a chain that some of the trust edges make, whatever mixture of them a
\* pass read.
THEOREM ScoresSupported ==
  ASSUME OrderedWeights
  PROVE  Spec => []ScoreIsSupported
<1>1. Init => TypeInv /\ SupportInv BY TypeInvInit, SupportInit
<1>2. TypeInv /\ SupportInv /\ [Next]_vars => TypeInv' /\ SupportInv'
  BY TypeInvNext, SupportNext
<1>3. SupportInv => ScoreIsSupported
  BY DEF SupportInv, Everything, Depth, Relevant, ScoreIsSupported
<1> QED BY <1>1, <1>2, <1>3, PTL DEF Spec
=============================================================================
