-------------------------- MODULE RiskScoreProofs --------------------------
(***************************************************************************)
(* Lemmas about sums, and the scorer of RiskScore for every posture.       *)
(*   ScoreInRange   scores and urgencies are from 0 to 100                 *)
(*   RiskGrows      what gives less to count scores no higher              *)
(*   FixesLower     no recommended fix projects a higher score             *)
(***************************************************************************)
EXTENDS Remediation, FiniteSetTheorems, WellFoundedInduction, TLAPS

-----------------------------------------------------------------------------
(* Sums.  SumFunction is a function on the subsets of the domain, defined  *)
(* by recursion: that there is such a function, and what it returns, is    *)
(* shown by the smallest set for which it might fail.                      *)

Below == OpToRel(<, Nat)

\* A set of naturals that is not empty has a least element.
LEMMA LeastOf ==
  ASSUME NEW S, S \subseteq Nat, S # {}
  PROVE  \E m \in S : \A k \in S : m <= k
<1>1. IsWellFoundedOn(Below, Nat)
  BY NatLessThanWellFounded DEF Below, OpToRel
<1>2. PICK m \in S : \A k \in S : ~ (<<k, m>> \in Below)
  BY <1>1, WFMin
<1>3. ASSUME NEW k \in S PROVE m <= k
  <2>1. k \in Nat /\ m \in Nat OBVIOUS
  <2>2. <<k, m>> \in Nat \X Nat BY <2>1
  <2>3. ~ (k < m)
    <3>1. k < m => <<k, m>> \in Below BY <2>2 DEF Below, OpToRel
    <3> QED BY <1>2, <3>1
  <2> QED BY <2>1, <2>3
<1> QED BY <1>3

Pick(s) == CHOOSE x \in s : TRUE

\* total is the function that SumFunction(f) applies to the domain of f.
Sums(total, f, T) ==
  total = [s \in T |-> IF s = {} THEN 0 ELSE f[Pick(s)] + total[s \ {Pick(s)}]]

LEMMA SumIs ==
  ASSUME NEW f
  PROVE  SumFunction(f) = (CHOOSE total : Sums(total, f, SUBSET DOMAIN f))[DOMAIN f]
BY DEF SumFunction, SumFunctionOnSet, FoldFunctionOnSet, MapThenFoldSet, Sums, Pick

LEMMA PickIn ==
  ASSUME NEW s, s # {}
  PROVE  Pick(s) \in s
BY DEF Pick

\* The subsets of S with at most k elements.
Upto(S, k) == {s \in SUBSET S : Cardinality(s) <= k}

LEMMA SmallerByOne ==
  ASSUME NEW S, IsFiniteSet(S), NEW s \in SUBSET S, NEW x \in s
  PROVE  /\ IsFiniteSet(s) /\ s \ {x} \in SUBSET S
         /\ Cardinality(s) \in Nat /\ Cardinality(s) >= 1
         /\ Cardinality(s \ {x}) = Cardinality(s) - 1
<1>1. IsFiniteSet(s) BY FS_Subset
<1>2. Cardinality(s) \in Nat BY <1>1, FS_CardinalityType
<1>3. Cardinality(s) # 0 BY <1>1, FS_EmptySet
<1>4. Cardinality(s \ {x}) = Cardinality(s) - 1 BY <1>1, FS_RemoveElement
<1> QED BY <1>1, <1>2, <1>3, <1>4

LEMMA SumsExist ==
  ASSUME NEW f, IsFiniteSet(DOMAIN f)
  PROVE  \E total : Sums(total, f, SUBSET DOMAIN f)
<1> DEFINE D == DOMAIN f
           Known(k) == \E total : Sums(total, f, Upto(D, k))
           Bad == {k \in Nat : ~ Known(k)}
<1>1. Known(0)
  <2>1. \A s \in Upto(D, 0) : s = {}
    <3> SUFFICES ASSUME NEW s \in Upto(D, 0) PROVE s = {} OBVIOUS
    <3>1. s \in SUBSET D /\ Cardinality(s) <= 0 BY DEF Upto
    <3>2. IsFiniteSet(s) BY <3>1, FS_Subset
    <3>3. Cardinality(s) = 0 BY <3>1, <3>2, FS_CardinalityType
    <3> QED BY <3>2, <3>3, FS_EmptySet
  <2>2. Sums([s \in Upto(D, 0) |-> 0], f, Upto(D, 0)) BY <2>1 DEF Sums
  <2> QED BY <2>2
<1>2. ASSUME NEW k \in Nat, Known(k) PROVE Known(k + 1)
  <2>1. PICK g : Sums(g, f, Upto(D, k)) BY <1>2
  <2> DEFINE h == [s \in Upto(D, k + 1) |->
                     IF s = {} THEN 0 ELSE f[Pick(s)] + g[s \ {Pick(s)}]]
  <2>2. \A s \in Upto(D, k) : s \in Upto(D, k + 1) /\ h[s] = g[s]
    <3> SUFFICES ASSUME NEW s \in Upto(D, k)
                 PROVE  s \in Upto(D, k + 1) /\ h[s] = g[s]
      OBVIOUS
    <3>1. s \in SUBSET D /\ Cardinality(s) <= k BY DEF Upto
    <3>2. Cardinality(s) \in Nat BY <3>1, FS_Subset, FS_CardinalityType
    <3>3. s \in Upto(D, k + 1) BY <3>1, <3>2 DEF Upto
    <3>4. g[s] = IF s = {} THEN 0 ELSE f[Pick(s)] + g[s \ {Pick(s)}] BY <2>1 DEF Sums
    <3> QED BY <3>3, <3>4
  <2>3. \A s \in Upto(D, k + 1) : s # {} => s \ {Pick(s)} \in Upto(D, k)
    <3> SUFFICES ASSUME NEW s \in Upto(D, k + 1), s # {}
                 PROVE  s \ {Pick(s)} \in Upto(D, k)
      OBVIOUS
    <3>1. s \in SUBSET D /\ Cardinality(s) <= k + 1 BY DEF Upto
    <3>2. Pick(s) \in s BY PickIn
    <3> QED BY <3>1, <3>2, SmallerByOne DEF Upto
  <2> HIDE DEF h
  <2>4. h = [s \in Upto(D, k + 1) |->
               IF s = {} THEN 0 ELSE f[Pick(s)] + h[s \ {Pick(s)}]]
    <3>1. \A s \in Upto(D, k + 1) :
            s # {} => h[s \ {Pick(s)}] = g[s \ {Pick(s)}]
      BY <2>2, <2>3
    <3> QED BY <3>1 DEF h
  <2>5. Sums(h, f, Upto(D, k + 1)) BY <2>4 DEF Sums
  <2> QED BY <2>5
<1>3. Bad = {}
  <2> SUFFICES ASSUME Bad # {} PROVE FALSE OBVIOUS
  <2>1. PICK m \in Bad : \A k \in Bad : m <= k BY LeastOf
  <2>2. m \in Nat /\ m # 0 /\ ~ Known(m) BY <1>1
  <2>3. m - 1 \in Nat /\ m - 1 \notin Bad BY <2>1, <2>2
  <2>4. Known(m - 1) BY <2>3
  <2> HIDE DEF Known
  <2>5. Known((m - 1) + 1) BY <1>2, <2>3, <2>4
  <2>6. (m - 1) + 1 = m BY <2>2
  <2> QED BY <2>2, <2>5, <2>6
<1>4. Cardinality(D) \in Nat BY FS_CardinalityType
<1>5. Upto(D, Cardinality(D)) = SUBSET D
  <2>1. \A s \in SUBSET D : Cardinality(s) <= Cardinality(D) BY FS_Subset
  <2> QED BY <2>1 DEF Upto
<1> QED BY <1>3, <1>4, <1>5

\* total takes the elements one by one, in the order of Pick.
Totals(total, f, D) ==
  /\ total[{}] = 0
  /\ \A s \in SUBSET D : s # {} => total[s] = f[Pick(s)] + total[s \ {Pick(s)}]

\* What SumFunction is a value of: a function on the subsets of the domain that
\* takes the elements one by one.
LEMMA SumUnfolds ==
  ASSUME NEW f, IsFiniteSet(DOMAIN f)
  PROVE  \E total : SumFunction(f) = total[DOMAIN f] /\ Totals(total, f, DOMAIN f)
<1> DEFINE total == CHOOSE t : Sums(t, f, SUBSET DOMAIN f)
<1>1. Sums(total, f, SUBSET DOMAIN f) BY SumsExist
<1>2. SumFunction(f) = total[DOMAIN f] BY SumIs
<1> HIDE DEF total
<1>3. total[{}] = 0 BY <1>1 DEF Sums
<1>4. \A s \in SUBSET DOMAIN f :
        s # {} => total[s] = f[Pick(s)] + total[s \ {Pick(s)}]
  BY <1>1 DEF Sums
<1> QED BY <1>2, <1>3, <1>4 DEF Totals

LEMMA SumOfNothing ==
  ASSUME NEW f, DOMAIN f = {}
  PROVE  SumFunction(f) = 0
<1>1. IsFiniteSet(DOMAIN f) BY FS_EmptySet
<1> QED BY <1>1, SumUnfolds DEF Totals

\* A function on finite sets that takes the elements of an integer-valued f one
\* by one is integer-valued.
LEMMA TotalInt ==
  ASSUME NEW D, IsFiniteSet(D), NEW f, \A x \in D : f[x] \in Int,
         NEW total, Totals(total, f, D)
  PROVE  \A s \in SUBSET D : total[s] \in Int
<1> DEFINE Bad == {Cardinality(s) : s \in {t \in SUBSET D : total[t] \notin Int}}
<1> SUFFICES ASSUME Bad # {} PROVE FALSE OBVIOUS
<1>1. Bad \subseteq Nat BY FS_Subset, FS_CardinalityType
<1>2. PICK m \in Bad : \A k \in Bad : m <= k BY <1>1, LeastOf
<1>3. PICK s \in SUBSET D : total[s] \notin Int /\ Cardinality(s) = m BY <1>2
<1>4. s # {}
  <2>1. total[{}] \in Int
    <3>1. 0 \in Int OBVIOUS
    <3> QED BY <3>1 DEF Totals
  <2> QED BY <1>3, <2>1
<1>5. Pick(s) \in s BY <1>4, PickIn
<1>6. s \ {Pick(s)} \in SUBSET D /\ Cardinality(s \ {Pick(s)}) = m - 1 /\ m \in Nat
  BY <1>3, <1>5, SmallerByOne
<1>7. total[s \ {Pick(s)}] \in Int
  <2>1. ~ (m <= m - 1) BY <1>6
  <2>2. Cardinality(s \ {Pick(s)}) \notin Bad BY <1>2, <1>6, <2>1
  <2> QED BY <1>6, <2>2
<1>8. total[s] = f[Pick(s)] + total[s \ {Pick(s)}] BY <1>4 DEF Totals
<1> QED BY <1>3, <1>5, <1>7, <1>8

LEMMA SumInt ==
  ASSUME NEW f, IsFiniteSet(DOMAIN f), \A x \in DOMAIN f : f[x] \in Int
  PROVE  SumFunction(f) \in Int
<1>1. PICK total : SumFunction(f) = total[DOMAIN f] /\ Totals(total, f, DOMAIN f)
  BY SumUnfolds
<1>2. \A s \in SUBSET DOMAIN f : total[s] \in Int BY <1>1, TotalInt
<1> QED BY <1>1, <1>2

\* The order in which the elements are taken does not matter.
LEMMA TotalRemove ==
  ASSUME NEW D, IsFiniteSet(D), NEW f, \A x \in D : f[x] \in Int,
         NEW total, Totals(total, f, D),
         NEW r \in SUBSET D, NEW e \in r
  PROVE  total[r] = f[e] + total[r \ {e}]
<1> DEFINE Good(s) == \A x \in s : total[s] = f[x] + total[s \ {x}]
           Bad == {Cardinality(s) : s \in {t \in SUBSET D : ~ Good(t)}}
<1> SUFFICES ASSUME Bad # {} PROVE FALSE
  <2> HIDE DEF Good
  <2>1. Bad = {} => \A s \in SUBSET D : Good(s) OBVIOUS
  <2> USE DEF Good
  <2> QED BY <2>1
<1>1. Bad \subseteq Nat BY FS_Subset, FS_CardinalityType
<1>2. PICK m \in Bad : \A k \in Bad : m <= k BY <1>1, LeastOf
<1>3. PICK s \in SUBSET D : ~ Good(s) /\ Cardinality(s) = m BY <1>2
<1>4. PICK x \in s : total[s] # f[x] + total[s \ {x}] BY <1>3
<1> DEFINE y == Pick(s)
<1>5. y \in s BY <1>4, PickIn
<1>6. total[s] = f[y] + total[s \ {y}] BY <1>4 DEF Totals
<1>7. x # y BY <1>4, <1>6
<1>8. ASSUME NEW z \in s PROVE s \ {z} \in SUBSET D /\ Good(s \ {z})
  <2>1. s \ {z} \in SUBSET D /\ Cardinality(s \ {z}) = m - 1 /\ m \in Nat
    BY <1>3, SmallerByOne
  <2>2. ~ (m <= m - 1) BY <2>1
  <2>3. Cardinality(s \ {z}) \notin Bad BY <1>2, <2>1, <2>2
  <2> QED BY <2>1, <2>3
<1> HIDE DEF y
<1>9. total[s \ {y}] = f[x] + total[(s \ {y}) \ {x}] BY <1>5, <1>7, <1>8
<1>10. total[s \ {x}] = f[y] + total[(s \ {x}) \ {y}] BY <1>5, <1>7, <1>8
<1>11. (s \ {y}) \ {x} = (s \ {x}) \ {y} OBVIOUS
<1>12. total[(s \ {x}) \ {y}] \in Int
  <2>1. (s \ {x}) \ {y} \in SUBSET D OBVIOUS
  <2> QED BY <2>1, TotalInt
<1>13. f[x] \in Int /\ f[y] \in Int BY <1>5
<1>14. f[y] + (f[x] + total[(s \ {x}) \ {y}]) = f[x] + (f[y] + total[(s \ {x}) \ {y}])
  BY <1>12, <1>13
<1>15. total[s] = f[y] + (f[x] + total[(s \ {x}) \ {y}]) BY <1>6, <1>9, <1>11
<1> QED BY <1>4, <1>10, <1>14, <1>15

\* The image of a set under a function.
Image(h, s) == {h[x] : x \in s}

\* A sum is not larger than another if each of its terms is below one of the
\* other's, no two below the same, and the other has no negative terms.
LEMMA SumGrows ==
  ASSUME NEW f, NEW g, IsFiniteSet(DOMAIN f), IsFiniteSet(DOMAIN g),
         NEW h \in Injection(DOMAIN f, DOMAIN g),
         \A x \in DOMAIN f : f[x] \in Int /\ f[x] <= g[h[x]],
         \A y \in DOMAIN g : g[y] \in Nat
  PROVE  SumFunction(f) <= SumFunction(g)
<1>1. PICK tf : SumFunction(f) = tf[DOMAIN f] /\ Totals(tf, f, DOMAIN f)
  BY SumUnfolds
<1>2. PICK tg : SumFunction(g) = tg[DOMAIN g] /\ Totals(tg, g, DOMAIN g)
  BY SumUnfolds
<1>3. \A x \in DOMAIN g : g[x] \in Int OBVIOUS
<1>4. \A s \in SUBSET DOMAIN g : tg[s] \in Int BY <1>2, <1>3, TotalInt
<1>5. \A s \in SUBSET DOMAIN f : tf[s] \in Int BY <1>1, TotalInt
<1>6. \A s \in SUBSET DOMAIN g : \A x \in s : tg[s] = g[x] + tg[s \ {x}]
  <2> SUFFICES ASSUME NEW s \in SUBSET DOMAIN g, NEW x \in s
               PROVE  tg[s] = g[x] + tg[s \ {x}]
    OBVIOUS
  <2> QED BY <1>2, <1>3, TotalRemove
<1>7. /\ h \in [DOMAIN f -> DOMAIN g]
      /\ \A a, b \in DOMAIN f : h[a] = h[b] => a = b
  BY DEF Injection, IsInjective
<1>8. \A s \in SUBSET DOMAIN f : Image(h, s) \in SUBSET DOMAIN g /\ tf[s] <= tg[Image(h, s)]
  <2> DEFINE Good(s) == tf[s] <= tg[Image(h, s)]
             Bad == {Cardinality(s) : s \in {t \in SUBSET DOMAIN f : ~ Good(t)}}
  <2>1. \A s \in SUBSET DOMAIN f : Image(h, s) \in SUBSET DOMAIN g BY <1>7 DEF Image
  <2> SUFFICES ASSUME Bad # {} PROVE FALSE BY <2>1
  <2>2. Bad \subseteq Nat BY FS_Subset, FS_CardinalityType
  <2>3. PICK m \in Bad : \A k \in Bad : m <= k BY <2>2, LeastOf
  <2>4. PICK s \in SUBSET DOMAIN f : ~ Good(s) /\ Cardinality(s) = m BY <2>3
  <2>5. s # {}
    <3>1. Image(h, {}) = {} BY DEF Image
    <3>2. tf[{}] <= tg[{}]
      <4>1. tf[{}] = 0 /\ tg[{}] = 0 BY <1>1, <1>2 DEF Totals
      <4>2. 0 <= 0 OBVIOUS
      <4> QED BY <4>1, <4>2
    <3>3. Good({}) BY <3>1, <3>2
    <3> QED BY <2>4, <3>3
  <2> DEFINE x == Pick(s)
  <2>6. x \in s BY <2>5, PickIn
  <2>7. tf[s] = f[x] + tf[s \ {x}] BY <1>1, <2>5 DEF Totals
  <2> HIDE DEF x
  <2>8. s \ {x} \in SUBSET DOMAIN f /\ Cardinality(s \ {x}) = m - 1 /\ m \in Nat
    BY <2>4, <2>6, SmallerByOne
  <2>9. Good(s \ {x})
    <3>1. ~ (m <= m - 1) BY <2>8
    <3>2. Cardinality(s \ {x}) \notin Bad BY <2>3, <2>8, <3>1
    <3> QED BY <2>8, <3>2
  <2>10. h[x] \in Image(h, s) BY <2>6 DEF Image
  <2>11. Image(h, s) \ {h[x]} = Image(h, s \ {x}) BY <1>7, <2>6 DEF Image
  <2>12. tg[Image(h, s)] = g[h[x]] + tg[Image(h, s \ {x})]
    BY <1>6, <2>1, <2>10, <2>11
  <2>13. f[x] \in Int /\ f[x] <= g[h[x]] /\ g[h[x]] \in Int BY <1>7, <2>6
  <2>14. tf[s \ {x}] \in Int /\ tg[Image(h, s \ {x})] \in Int BY <1>4, <1>5, <2>1, <2>8
  <2>15. Good(s) BY <2>7, <2>9, <2>12, <2>13, <2>14
  <2> QED BY <2>4, <2>15
<1>9. \A u, t \in SUBSET DOMAIN g : t \subseteq u => tg[t] <= tg[u]
  <2> DEFINE Good(u) == \A t \in SUBSET u : tg[t] <= tg[u]
             Bad == {Cardinality(u) : u \in {v \in SUBSET DOMAIN g : ~ Good(v)}}
  <2> SUFFICES ASSUME Bad # {} PROVE FALSE OBVIOUS
  <2>1. Bad \subseteq Nat BY FS_Subset, FS_CardinalityType
  <2>2. PICK m \in Bad : \A k \in Bad : m <= k BY <2>1, LeastOf
  <2>3. PICK u \in SUBSET DOMAIN g : ~ Good(u) /\ Cardinality(u) = m BY <2>2
  <2>4. PICK t \in SUBSET u : ~ (tg[t] <= tg[u]) BY <2>3
  <2>5. tg[t] \in Int /\ tg[u] \in Int BY <1>4
  <2>6. t # u BY <2>4, <2>5
  <2>7. PICK x \in u : x \notin t BY <2>6
  <2>8. u \ {x} \in SUBSET DOMAIN g /\ Cardinality(u \ {x}) = m - 1 /\ m \in Nat
    BY <2>3, SmallerByOne
  <2>9. Good(u \ {x})
    <3>1. ~ (m <= m - 1) BY <2>8
    <3>2. Cardinality(u \ {x}) \notin Bad BY <2>2, <2>8, <3>1
    <3> QED BY <2>8, <3>2
  <2>10. tg[t] <= tg[u \ {x}] BY <2>7, <2>9
  <2>11. tg[u] = g[x] + tg[u \ {x}] /\ g[x] \in Nat BY <1>6
  <2>12. tg[u \ {x}] \in Int BY <1>4, <2>8
  <2> QED BY <2>4, <2>5, <2>10, <2>11, <2>12
<1>10. /\ tf[DOMAIN f] <= tg[Image(h, DOMAIN f)]
       /\ Image(h, DOMAIN f) \in SUBSET DOMAIN g
  BY <1>8
<1>11. tg[Image(h, DOMAIN f)] <= tg[DOMAIN g] BY <1>9, <1>10
<1>12. tf[DOMAIN f] \in Int /\ tg[Image(h, DOMAIN f)] \in Int /\ tg[DOMAIN g] \in Int
  BY <1>4, <1>5, <1>10
<1> QED BY <1>1, <1>2, <1>10, <1>11, <1>12

\* A set that has no more elements than another, by an injection between larger sets.
LEMMA CountGrows ==
  ASSUME NEW S, NEW T, IsFiniteSet(S), IsFiniteSet(T), NEW h \in Injection(S, T),
         NEW A \in SUBSET S, NEW B \in SUBSET T, \A x \in A : h[x] \in B
  PROVE  /\ Cardinality(A) \in Nat /\ Cardinality(B) \in Nat
         /\ Cardinality(A) <= Cardinality(B)
<1>1. IsFiniteSet(A) /\ IsFiniteSet(B) BY FS_Subset
<1>2. h \in [S -> T] /\ \A a, b \in S : h[a] = h[b] => a = b
  BY DEF Injection, IsInjective
<1>3. [x \in A |-> h[x]] \in Injection(A, B) BY <1>2 DEF Injection, IsInjective
<1> QED BY <1>1, <1>3, FS_Injection, FS_CardinalityType

LEMMA Itself ==
  ASSUME NEW S, NEW T, S \subseteq T
  PROVE  [x \in S |-> x] \in Injection(S, T)
BY DEF Injection, IsInjective

LEMMA FewAreFinite ==
  ASSUME NEW a, NEW b, NEW c, NEW d, NEW e, NEW f
  PROVE  IsFiniteSet({a, b, c, d, e, f})
<1>1. IsFiniteSet({a}) BY FS_Singleton
<1>2. IsFiniteSet({a, b})
  <2>1. {a, b} = {a} \cup {b} OBVIOUS
  <2> QED BY <1>1, <2>1, FS_AddElement
<1>3. IsFiniteSet({a, b, c})
  <2>1. {a, b, c} = {a, b} \cup {c} OBVIOUS
  <2> QED BY <1>2, <2>1, FS_AddElement
<1>4. IsFiniteSet({a, b, c, d})
  <2>1. {a, b, c, d} = {a, b, c} \cup {d} OBVIOUS
  <2> QED BY <1>3, <2>1, FS_AddElement
<1>5. IsFiniteSet({a, b, c, d, e})
  <2>1. {a, b, c, d, e} = {a, b, c, d} \cup {e} OBVIOUS
  <2> QED BY <1>4, <2>1, FS_AddElement
<1>6. {a, b, c, d, e, f} = {a, b, c, d, e} \cup {f} OBVIOUS
<1> QED BY <1>5, <1>6, FS_AddElement

-----------------------------------------------------------------------------
(* The score is a number from 0 to 100.                                    *)

\* What the scorer needs of its input.
IsPosture(p) ==
  /\ {"seen", "created", "rotated", "creds", "roles", "bindings", "trust", "exposures",
      "anomalies", "peerPerms", "peerReach", "blast", "depth"} \subseteq DOMAIN p
  /\ IsFiniteSet(p.roles) /\ IsFiniteSet(p.trust)
  /\ \A r \in p.roles :
       /\ {"level", "wildActs", "wildRes", "escalates", "perms"} \subseteq DOMAIN r
       /\ r.wildActs \in Nat /\ r.wildRes \in Nat /\ r.perms \in Nat
  /\ \A t \in p.trust : {"type", "guards", "cross", "wild"} \subseteq DOMAIN t
  /\ p.anomalies = {}
  /\ p.blast.high \in Nat /\ p.blast.reachable \in Nat
  /\ p.peerPerms \in Nat /\ p.peerReach \in Nat

LEMMA PointsType ==
  ASSUME NEW s \in SignalNames
  PROVE  /\ Points[s] \in Int
         /\ \A on \in BOOLEAN : Earns(on, s) \in Int
BY RiskAssumption DEF Earns

LEMMA ClampType ==
  ASSUME NEW v \in Int
  PROVE  Clamp(v) \in 0 .. 100
BY DEF Clamp

LEMMA CapType ==
  ASSUME NEW v \in Int, NEW cap \in Int
  PROVE  CapPts(v, cap) \in Int
BY DEF CapPts

LEMMA RoleSumType ==
  ASSUME NEW p, IsPosture(p)
  PROVE  /\ SumFunction([r \in p.roles |-> r.wildActs]) \in Int
         /\ SumFunction([r \in p.roles |-> r.wildRes]) \in Int
         /\ TotalPerms(p.roles) \in Int
<1>1. SumFunction([r \in p.roles |-> r.wildActs]) \in Int
  <2> DEFINE f == [r \in p.roles |-> r.wildActs]
  <2>1. IsFiniteSet(DOMAIN f) /\ \A r \in DOMAIN f : f[r] \in Int BY DEF IsPosture
  <2> HIDE DEF f
  <2>2. SumFunction(f) \in Int BY <2>1, SumInt
  <2> QED BY <2>2 DEF f
<1>2. SumFunction([r \in p.roles |-> r.wildRes]) \in Int
  <2> DEFINE f == [r \in p.roles |-> r.wildRes]
  <2>1. IsFiniteSet(DOMAIN f) /\ \A r \in DOMAIN f : f[r] \in Int BY DEF IsPosture
  <2> HIDE DEF f
  <2>2. SumFunction(f) \in Int BY <2>1, SumInt
  <2> QED BY <2>2 DEF f
<1>3. SumFunction([r \in p.roles |-> r.perms]) \in Int
  <2> DEFINE f == [r \in p.roles |-> r.perms]
  <2>1. IsFiniteSet(DOMAIN f) /\ \A r \in DOMAIN f : f[r] \in Int BY DEF IsPosture
  <2> HIDE DEF f
  <2>2. SumFunction(f) \in Int BY <2>1, SumInt
  <2> QED BY <2>2 DEF f
<1> QED BY <1>1, <1>2, <1>3 DEF TotalPerms

\* The points of a factor: finitely many integers.
IsPoints(pts) == IsFiniteSet(DOMAIN pts) /\ \A s \in DOMAIN pts : pts[s] \in Int

LEMMA PrivilegeType ==
  ASSUME NEW p, IsPosture(p)
  PROVE  IsPoints(Privilege(p))
<1> DEFINE wa == SumFunction([r \in p.roles |-> r.wildActs])
           wr == SumFunction([r \in p.roles |-> r.wildRes])
<1>1. wa \in Int /\ wr \in Int BY RoleSumType
<1> HIDE DEF wa, wr
<1>2. CapPts(wa * Points["wildcard_action"], Points["wildcard_action_cap"]) \in Int
  <2>1. "wildcard_action" \in SignalNames /\ "wildcard_action_cap" \in SignalNames
    BY DEF SignalNames
  <2>2. wa * Points["wildcard_action"] \in Int BY <1>1, <2>1, PointsType
  <2> QED BY <2>1, <2>2, PointsType, CapType
<1>3. CapPts(wr * Points["wildcard_resource"], Points["wildcard_resource_cap"]) \in Int
  <2>1. "wildcard_resource" \in SignalNames /\ "wildcard_resource_cap" \in SignalNames
    BY DEF SignalNames
  <2>2. wr * Points["wildcard_resource"] \in Int BY <1>1, <2>1, PointsType
  <2> QED BY <2>1, <2>2, PointsType, CapType
<1>4. IsFiniteSet(DOMAIN Privilege(p))
  <2>1. DOMAIN Privilege(p) = {"admin_or_star", "wildcard_action", "wildcard_resource",
           "priv_escalation_action", "write_crown_jewel", "privilege_creep_p90"}
    BY DEF Privilege
  <2>2. IsFiniteSet({"admin_or_star", "wildcard_action", "wildcard_resource",
           "priv_escalation_action", "write_crown_jewel", "privilege_creep_p90"})
    BY FewAreFinite
  <2> QED BY <2>1, <2>2
<1>5. \A s \in DOMAIN Privilege(p) : Privilege(p)[s] \in Int
  <2>1. {"admin_or_star", "priv_escalation_action", "write_crown_jewel",
         "privilege_creep_p90"} \subseteq SignalNames
    BY DEF SignalNames
  <2> QED BY <1>2, <1>3, <2>1, RiskAssumption DEF Privilege, wa, wr, Earns
<1> QED BY <1>4, <1>5 DEF IsPoints

LEMMA ExposureType ==
  ASSUME NEW p
  PROVE  IsPoints(Exposure(p))
<1>1. IsFiniteSet(DOMAIN Exposure(p))
  <2>1. DOMAIN Exposure(p) = {"public_repo", "private_repo_or_ci", "verified_live",
                      "static_key_no_expiry", "cred_over_max_age"}
    BY DEF Exposure
  <2>2. IsFiniteSet({"public_repo", "private_repo_or_ci", "verified_live",
                    "static_key_no_expiry", "cred_over_max_age",
                    "cred_over_max_age"})
    BY FewAreFinite
  <2> QED BY <2>1, <2>2
<1>2. \A s \in DOMAIN Exposure(p) : Exposure(p)[s] \in Int
  <2>1. {"public_repo", "private_repo_or_ci", "verified_live",
        "static_key_no_expiry", "cred_over_max_age"}
          \subseteq SignalNames
    BY DEF SignalNames
  <2> QED BY <2>1, RiskAssumption DEF Exposure, Earns
<1> QED BY <1>1, <1>2 DEF IsPoints

LEMMA FreshnessType ==
  ASSUME NEW p
  PROVE  IsPoints(Freshness(p))
<1>1. IsFiniteSet(DOMAIN Freshness(p))
  <2>1. DOMAIN Freshness(p) = {"never_used_aged", "unused_stale_window",
                      "rotation_unmanaged", "not_rotated"}
    BY DEF Freshness
  <2>2. IsFiniteSet({"never_used_aged", "unused_stale_window",
                    "rotation_unmanaged", "not_rotated", "not_rotated",
                    "not_rotated"})
    BY FewAreFinite
  <2> QED BY <2>1, <2>2
<1>2. \A s \in DOMAIN Freshness(p) : Freshness(p)[s] \in Int
  <2>1. {"never_used_aged", "unused_stale_window", "rotation_unmanaged",
        "not_rotated"}
          \subseteq SignalNames
    BY DEF SignalNames
  <2> QED BY <2>1, RiskAssumption DEF Freshness, Earns
<1> QED BY <1>1, <1>2 DEF IsPoints

LEMMA UsageType ==
  ASSUME NEW p, IsPosture(p)
  PROVE  IsPoints(Usage(p)) /\ DOMAIN Usage(p) = {}
<1>1. DOMAIN Usage(p) = {} BY DEF Usage, IsPosture
<1> QED BY <1>1, FS_EmptySet DEF IsPoints

LEMMA TrustType ==
  ASSUME NEW p, IsPosture(p)
  PROVE  IsPoints(Trust(p))
<1>1. IsFiniteSet(DOMAIN Trust(p))
  <2>1. DOMAIN Trust(p) = {"conditionless_assume", "cross_account",
                      "wildcard_external", "can_mint_or_impersonate",
                      "chain_depth_2plus"}
    BY DEF Trust
  <2>2. IsFiniteSet({"conditionless_assume", "cross_account",
                    "wildcard_external", "can_mint_or_impersonate",
                    "chain_depth_2plus", "chain_depth_2plus"})
    BY FewAreFinite
  <2> QED BY <2>1, <2>2
<1>2. \A A \in SUBSET p.trust, s \in SignalNames : Points[s] * Cardinality(A) \in Int
  <2> SUFFICES ASSUME NEW A \in SUBSET p.trust, NEW s \in SignalNames
               PROVE  Points[s] * Cardinality(A) \in Int
    OBVIOUS
  <2>1. Cardinality(A) \in Int BY FS_Subset, FS_CardinalityType DEF IsPosture
  <2> QED BY <2>1, PointsType
<1>3. \A s \in DOMAIN Trust(p) : Trust(p)[s] \in Int
  <2>1. {"conditionless_assume", "cross_account", "wildcard_external",
        "can_mint_or_impersonate", "chain_depth_2plus"}
          \subseteq SignalNames
    BY DEF SignalNames
  <2> QED BY <1>2, <2>1, RiskAssumption DEF Trust, Earns
<1> QED BY <1>1, <1>3 DEF IsPoints

LEMMA BlastType ==
  ASSUME NEW p, IsPosture(p)
  PROVE  IsPoints(BlastFactor(p))
<1>1. IsFiniteSet(DOMAIN BlastFactor(p))
  <2>1. DOMAIN BlastFactor(p) = {"crown_jewel_1hop", "crown_jewel_chain",
                      "high_crit_reachable", "reachable_over_p90",
                      "escalate_to_admin"}
    BY DEF BlastFactor
  <2>2. IsFiniteSet({"crown_jewel_1hop", "crown_jewel_chain",
                    "high_crit_reachable", "reachable_over_p90",
                    "escalate_to_admin", "escalate_to_admin"})
    BY FewAreFinite
  <2> QED BY <2>1, <2>2
<1>2. CapPts(p.blast.high * Points["high_crit_each"], Points["high_crit_cap"]) \in Int
  <2>1. "high_crit_each" \in SignalNames /\ "high_crit_cap" \in SignalNames
    BY DEF SignalNames
  <2>2. p.blast.high * Points["high_crit_each"] \in Int BY <2>1, PointsType DEF IsPosture
  <2> QED BY <2>1, <2>2, PointsType, CapType
<1>3. \A s \in DOMAIN BlastFactor(p) : BlastFactor(p)[s] \in Int
  <2>1. {"crown_jewel_1hop", "crown_jewel_chain", "reachable_over_p90",
         "escalate_to_admin"} \subseteq SignalNames
    BY DEF SignalNames
  <2> QED BY <1>2, <2>1, RiskAssumption DEF BlastFactor, Earns
<1> QED BY <1>1, <1>3 DEF IsPoints

LEMMA SubScoreType ==
  ASSUME NEW pts, IsPoints(pts)
  PROVE  SubScore(pts) \in 0 .. 100 /\ SubScore(pts) \in Int
<1>1. SumFunction(pts) \in Int BY SumInt DEF IsPoints
<1> QED BY <1>1, ClampType DEF SubScore

LEMMA WeightedSumType ==
  ASSUME NEW p, IsPosture(p)
  PROVE  WeightedSum(p) \in Int
<1>1. /\ SubScore(Privilege(p)) \in Int /\ SubScore(Exposure(p)) \in Int
      /\ SubScore(Freshness(p)) \in Int /\ SubScore(Usage(p)) \in Int
      /\ SubScore(Trust(p)) \in Int /\ SubScore(BlastFactor(p)) \in Int
  <2>1. /\ IsPoints(Privilege(p)) /\ IsPoints(Exposure(p)) /\ IsPoints(Freshness(p))
        /\ IsPoints(Usage(p)) /\ IsPoints(Trust(p)) /\ IsPoints(BlastFactor(p))
    BY PrivilegeType, ExposureType, FreshnessType, UsageType, TrustType, BlastType
  <2> QED BY <2>1, SubScoreType
<1>2. \A f \in Factors : Weight[f] \in Int BY RiskAssumption
<1>3. /\ Weight["privilege"] \in Int /\ Weight["exposure"] \in Int
      /\ Weight["freshness"] \in Int /\ Weight["usage"] \in Int
      /\ Weight["trust"] \in Int /\ Weight["blast_radius"] \in Int
  BY <1>2 DEF Factors
<1> QED BY <1>1, <1>3 DEF WeightedSum

LEMMA RoundedType ==
  ASSUME NEW sum \in Int
  PROVE  Rounded(sum) \subseteq 0 .. 100 /\ Rounded(sum) # {}
<1>1. (sum + 50) \div 100 \in Int /\ sum \div 100 \in Int OBVIOUS
<1> QED BY <1>1, ClampType DEF Rounded

\* Every call of Score returns a number from 0 to 100, and so does the urgency of one.
THEOREM ScoreInRange ==
  ASSUME NEW p, IsPosture(p)
  PROVE  /\ Composites(p) # {} /\ Composites(p) \subseteq 0 .. 100
         /\ \A c \in Composites(p) : Urgency(c, p) \in 0 .. 100
<1>1. Composites(p) = Rounded(WeightedSum(p)) BY DEF Composites
<1>2. Composites(p) # {} /\ Composites(p) \subseteq 0 .. 100
  BY <1>1, WeightedSumType, RoundedType
<1>3. ASSUME NEW c \in Composites(p) PROVE Urgency(c, p) \in 0 .. 100
  <2>1. c \in Int BY <1>2
  <2>2. /\ Boost["exposure_verified_live"] \in Int /\ Boost["reachable_crown_jewel"] \in Int
        /\ Boost["publicly_exposed"] \in Int /\ Boost["strong_trust_condition"] \in Int
    BY RiskAssumption DEF Boosts
  <2> QED BY <2>1, <2>2, ClampType DEF Urgency
<1> QED BY <1>2, <1>3

-----------------------------------------------------------------------------
(* More to hold against an identity never makes its score lower, but for   *)
(* the point by which rounding may differ.                                 *)

\* The roles of S, each no more than a role of T of its own.
RolesBelow(S, T) ==
  \E h \in Injection(S, T) : \A r \in S :
    /\ r.wildActs <= h[r].wildActs /\ r.wildRes <= h[r].wildRes /\ r.perms <= h[r].perms
    /\ IsAdmin(r) => IsAdmin(h[r])
    /\ r.escalates => h[r].escalates

\* The trust edges of S, each no less guarded than one of T of its own.
TrustBelow(S, T) ==
  \E h \in Injection(S, T) : \A t \in S :
    /\ h[t].type = t.type
    /\ HasGuard(h[t]) => HasGuard(t)
    /\ t.cross => h[t].cross
    /\ t.wild => h[t].wild

BlastBelow(a, b) ==
  /\ a.high <= b.high /\ a.reachable <= b.reachable
  /\ a.crown > 0 => b.crown > 0
  /\ a.crown > 0 /\ a.nearest <= 1 => b.nearest <= 1
  /\ a.admin => b.admin

\* p gives the scorer no more to count than q does.
Milder(p, q) ==
  /\ p.seen = q.seen /\ p.created = q.created /\ p.rotated = q.rotated
  /\ p.peerPerms = q.peerPerms /\ p.peerReach = q.peerReach
  /\ p.creds \subseteq q.creds /\ p.bindings \subseteq q.bindings
  /\ p.exposures \subseteq q.exposures
  /\ RolesBelow(p.roles, q.roles) /\ TrustBelow(p.trust, q.trust)
  /\ BlastBelow(p.blast, q.blast)
  /\ p.depth >= 2 => q.depth >= 2

LEMMA ProductGrows ==
  ASSUME NEW a \in Int, NEW b \in Int, NEW c \in Int, a <= b, c >= 0
  PROVE  a * c <= b * c /\ c * a <= c * b /\ a * c \in Int /\ b * c \in Int
OBVIOUS

LEMMA CapGrows ==
  ASSUME NEW a \in Int, NEW b \in Int, NEW cap \in Int, a <= b
  PROVE  CapPts(a, cap) <= CapPts(b, cap)
BY DEF CapPts

LEMMA CapPositive ==
  ASSUME NEW a \in Nat, NEW cap \in Int
  PROVE  CapPts(a, cap) \in Nat
BY DEF CapPts

\* The points of a factor are below those of another, signal by signal.
LEMMA SubScoreGrows ==
  ASSUME NEW pts, NEW qts, IsPoints(pts), IsPoints(qts),
         NEW h \in Injection(DOMAIN pts, DOMAIN qts),
         \A s \in DOMAIN pts : pts[s] <= qts[h[s]],
         \A s \in DOMAIN qts : qts[s] >= 0
  PROVE  SubScore(pts) <= SubScore(qts)
<1>1. SumFunction(pts) \in Int /\ SumFunction(qts) \in Int BY SumInt DEF IsPoints
<1>2. \A s \in DOMAIN qts : qts[s] \in Nat BY DEF IsPoints
<1>3. SumFunction(pts) <= SumFunction(qts) BY <1>2, SumGrows DEF IsPoints
<1> QED BY <1>1, <1>3 DEF SubScore, Clamp

LEMMA RoundedGrows ==
  ASSUME NEW a \in Int, NEW b \in Int, a <= b, NEW x \in Rounded(a)
  PROVE  /\ \A y \in Rounded(b) : x <= y + 1
         /\ x <= Max(Rounded(b))
<1>1. /\ a \div 100 \in Int /\ b \div 100 \in Int
      /\ (a + 50) \div 100 \in Int /\ (b + 50) \div 100 \in Int
      /\ a \div 100 <= (a + 50) \div 100
      /\ b \div 100 <= (b + 50) \div 100
      /\ (a + 50) \div 100 <= (b + 50) \div 100
      /\ (b + 50) \div 100 <= b \div 100 + 1
  OBVIOUS
<1>2. /\ Clamp(a \div 100) <= Clamp((a + 50) \div 100)
      /\ Clamp(b \div 100) <= Clamp((b + 50) \div 100)
      /\ Clamp((a + 50) \div 100) <= Clamp((b + 50) \div 100)
      /\ Clamp((b + 50) \div 100) <= Clamp(b \div 100) + 1
  BY <1>1 DEF Clamp
<1> DEFINE top == Clamp((b + 50) \div 100)
<1>3. /\ Clamp(a \div 100) \in Int /\ Clamp(b \div 100) \in Int
      /\ Clamp((a + 50) \div 100) \in Int /\ top \in Int
  BY <1>1, ClampType
<1>4. x \in Int /\ x <= top BY <1>2, <1>3 DEF Rounded
<1>5. \A y \in Rounded(b) : y \in Int /\ top <= y + 1 BY <1>2, <1>3 DEF Rounded
<1>6. top \in Rounded(b) /\ \A y \in Rounded(b) : top >= y
  BY <1>2, <1>3 DEF Rounded
<1>7. /\ Max(Rounded(b)) \in Rounded(b)
      /\ \A y \in Rounded(b) : Max(Rounded(b)) >= y
  BY <1>6 DEF Max
<1> HIDE DEF top
<1>8. Max(Rounded(b)) >= top /\ Max(Rounded(b)) \in Int BY <1>5, <1>6, <1>7
<1> QED BY <1>3, <1>4, <1>5, <1>8

LEMMA SumPositive ==
  ASSUME NEW f, IsFiniteSet(DOMAIN f), \A x \in DOMAIN f : f[x] \in Nat
  PROVE  SumFunction(f) \in Nat
<1> DEFINE none == [x \in {} |-> 0]
<1>1. SumFunction(none) = 0 BY SumOfNothing
<1>2. none \in Injection(DOMAIN none, DOMAIN f) BY DEF Injection, IsInjective
<1>3. DOMAIN none = {} /\ IsFiniteSet(DOMAIN none) BY FS_EmptySet
<1> HIDE DEF none
<1>4. SumFunction(none) <= SumFunction(f) BY <1>2, <1>3, SumGrows
<1>5. SumFunction(f) \in Int BY SumInt
<1> QED BY <1>1, <1>4, <1>5

LEMMA RoleSumsGrow ==
  ASSUME NEW p, NEW q, IsPosture(p), IsPosture(q), RolesBelow(p.roles, q.roles)
  PROVE  /\ SumFunction([r \in p.roles |-> r.wildActs])
              <= SumFunction([r \in q.roles |-> r.wildActs])
         /\ SumFunction([r \in p.roles |-> r.wildRes])
              <= SumFunction([r \in q.roles |-> r.wildRes])
         /\ TotalPerms(p.roles) <= TotalPerms(q.roles)
         /\ SumFunction([r \in q.roles |-> r.wildActs]) \in Nat
         /\ SumFunction([r \in q.roles |-> r.wildRes]) \in Nat
<1>1. PICK h \in Injection(p.roles, q.roles) : \A r \in p.roles :
           /\ r.wildActs <= h[r].wildActs /\ r.wildRes <= h[r].wildRes
           /\ r.perms <= h[r].perms
  BY DEF RolesBelow
<1>2. /\ SumFunction([r \in p.roles |-> r.wildActs])
           <= SumFunction([r \in q.roles |-> r.wildActs])
      /\ SumFunction([r \in q.roles |-> r.wildActs]) \in Nat
  <2> DEFINE f == [r \in p.roles |-> r.wildActs]
             g == [r \in q.roles |-> r.wildActs]
  <2>1. /\ IsFiniteSet(DOMAIN f) /\ IsFiniteSet(DOMAIN g)
        /\ h \in Injection(DOMAIN f, DOMAIN g)
        /\ \A y \in DOMAIN g : g[y] \in Nat
    BY DEF IsPosture
  <2>2. \A x \in DOMAIN f : f[x] \in Int /\ f[x] <= g[h[x]]
    BY <1>1 DEF IsPosture, Injection
  <2> HIDE DEF f, g
  <2>3. SumFunction(f) <= SumFunction(g) /\ SumFunction(g) \in Nat
    BY <2>1, <2>2, SumGrows, SumPositive
  <2> QED BY <2>3 DEF f, g
<1>3. /\ SumFunction([r \in p.roles |-> r.wildRes])
           <= SumFunction([r \in q.roles |-> r.wildRes])
      /\ SumFunction([r \in q.roles |-> r.wildRes]) \in Nat
  <2> DEFINE f == [r \in p.roles |-> r.wildRes]
             g == [r \in q.roles |-> r.wildRes]
  <2>1. /\ IsFiniteSet(DOMAIN f) /\ IsFiniteSet(DOMAIN g)
        /\ h \in Injection(DOMAIN f, DOMAIN g)
        /\ \A y \in DOMAIN g : g[y] \in Nat
    BY DEF IsPosture
  <2>2. \A x \in DOMAIN f : f[x] \in Int /\ f[x] <= g[h[x]]
    BY <1>1 DEF IsPosture, Injection
  <2> HIDE DEF f, g
  <2>3. SumFunction(f) <= SumFunction(g) /\ SumFunction(g) \in Nat
    BY <2>1, <2>2, SumGrows, SumPositive
  <2> QED BY <2>3 DEF f, g
<1>4. /\ SumFunction([r \in p.roles |-> r.perms])
           <= SumFunction([r \in q.roles |-> r.perms])
      /\ SumFunction([r \in q.roles |-> r.perms]) \in Nat
  <2> DEFINE f == [r \in p.roles |-> r.perms]
             g == [r \in q.roles |-> r.perms]
  <2>1. /\ IsFiniteSet(DOMAIN f) /\ IsFiniteSet(DOMAIN g)
        /\ h \in Injection(DOMAIN f, DOMAIN g)
        /\ \A y \in DOMAIN g : g[y] \in Nat
    BY DEF IsPosture
  <2>2. \A x \in DOMAIN f : f[x] \in Int /\ f[x] <= g[h[x]]
    BY <1>1 DEF IsPosture, Injection
  <2> HIDE DEF f, g
  <2>3. SumFunction(f) <= SumFunction(g) /\ SumFunction(g) \in Nat
    BY <2>1, <2>2, SumGrows, SumPositive
  <2> QED BY <2>3 DEF f, g
<1> QED BY <1>2, <1>3, <1>4 DEF TotalPerms

\* The points for wildcards: so many for each, up to a cap.
LEMMA WildcardsGrow ==
  ASSUME OrderedWeights, NEW each \in SignalNames, NEW cap \in SignalNames,
         NEW m \in Int, NEW n \in Nat, m <= n
  PROVE  /\ CapPts(m * Points[each], Points[cap]) <= CapPts(n * Points[each], Points[cap])
         /\ CapPts(n * Points[each], Points[cap]) >= 0
<1>1. Points[each] \in Int /\ Points[cap] \in Int /\ Points[each] >= 0
  BY RiskAssumption DEF OrderedWeights
<1>2. m * Points[each] <= n * Points[each] /\ m * Points[each] \in Int
  BY <1>1, ProductGrows
<1>3. n * Points[each] \in Nat
  <2>1. 0 * Points[each] <= n * Points[each] /\ n * Points[each] \in Int
    BY <1>1, ProductGrows
  <2>2. 0 * Points[each] = 0 BY <1>1
  <2> QED BY <2>1, <2>2
<1>4. CapPts(n * Points[each], Points[cap]) \in Nat BY <1>1, <1>3, CapPositive
<1> QED BY <1>1, <1>2, <1>3, <1>4, CapGrows

LEMMA PrivilegeGrows ==
  ASSUME OrderedWeights, NEW p, NEW q, IsPosture(p), IsPosture(q), Milder(p, q)
  PROVE  SubScore(Privilege(p)) <= SubScore(Privilege(q))
<1> DEFINE P == Privilege(p)
           Q == Privilege(q)
<1>1. PICK h \in Injection(p.roles, q.roles) : \A r \in p.roles :
           /\ IsAdmin(r) => IsAdmin(h[r])
           /\ r.escalates => h[r].escalates
  BY DEF Milder, RolesBelow
<1>2. \A r \in p.roles : h[r] \in q.roles BY DEF Injection
<1>3. {"admin_or_star", "wildcard_action", "wildcard_action_cap", "wildcard_resource",
       "wildcard_resource_cap", "priv_escalation_action", "write_crown_jewel",
       "privilege_creep_p90"} \subseteq SignalNames
  BY DEF SignalNames
<1>4. P["admin_or_star"] <= Q["admin_or_star"] /\ Q["admin_or_star"] >= 0
  BY <1>1, <1>2, <1>3, RiskAssumption DEF OrderedWeights, Earns, Privilege
<1>5. /\ P["priv_escalation_action"] <= Q["priv_escalation_action"]
      /\ Q["priv_escalation_action"] >= 0
  BY <1>1, <1>2, <1>3, RiskAssumption DEF OrderedWeights, Earns, Privilege
<1>6. P["write_crown_jewel"] <= Q["write_crown_jewel"] /\ Q["write_crown_jewel"] >= 0
  <2>1. p.bindings \subseteq q.bindings BY DEF Milder
  <2> QED BY <1>3, <2>1, RiskAssumption DEF OrderedWeights, Earns, Privilege
<1>7. P["privilege_creep_p90"] <= Q["privilege_creep_p90"] /\ Q["privilege_creep_p90"] >= 0
  <2>1. TotalPerms(p.roles) <= TotalPerms(q.roles) BY RoleSumsGrow DEF Milder
  <2>2. TotalPerms(p.roles) \in Int /\ TotalPerms(q.roles) \in Int BY RoleSumType
  <2>3. p.peerPerms = q.peerPerms /\ p.peerPerms \in Nat BY DEF Milder, IsPosture
  <2> QED BY <1>3, <2>1, <2>2, <2>3, RiskAssumption DEF OrderedWeights, Earns, Privilege
<1>8. P["wildcard_action"] <= Q["wildcard_action"] /\ Q["wildcard_action"] >= 0
  <2> DEFINE m == SumFunction([r \in p.roles |-> r.wildActs])
             n == SumFunction([r \in q.roles |-> r.wildActs])
  <2>1. m \in Int /\ n \in Nat /\ m <= n BY RoleSumsGrow, RoleSumType DEF Milder
  <2>2. /\ P["wildcard_action"]
             = CapPts(m * Points["wildcard_action"], Points["wildcard_action_cap"])
        /\ Q["wildcard_action"]
             = CapPts(n * Points["wildcard_action"], Points["wildcard_action_cap"])
    BY DEF Privilege
  <2> HIDE DEF m, n
  <2> QED BY <1>3, <2>1, <2>2, WildcardsGrow
<1>9. P["wildcard_resource"] <= Q["wildcard_resource"] /\ Q["wildcard_resource"] >= 0
  <2> DEFINE m == SumFunction([r \in p.roles |-> r.wildRes])
             n == SumFunction([r \in q.roles |-> r.wildRes])
  <2>1. m \in Int /\ n \in Nat /\ m <= n BY RoleSumsGrow, RoleSumType DEF Milder
  <2>2. /\ P["wildcard_resource"]
             = CapPts(m * Points["wildcard_resource"], Points["wildcard_resource_cap"])
        /\ Q["wildcard_resource"]
             = CapPts(n * Points["wildcard_resource"], Points["wildcard_resource_cap"])
    BY DEF Privilege
  <2> HIDE DEF m, n
  <2> QED BY <1>3, <2>1, <2>2, WildcardsGrow
<1> DEFINE S == {"admin_or_star", "wildcard_action", "wildcard_resource",
                 "priv_escalation_action", "write_crown_jewel", "privilege_creep_p90"}
<1>10. DOMAIN P = S /\ DOMAIN Q = S BY DEF Privilege
<1>11. IsPoints(P) /\ IsPoints(Q) BY PrivilegeType
<1> HIDE DEF P, Q
<1>12. \A s \in S : P[s] <= Q[s] /\ Q[s] >= 0
  BY <1>4, <1>5, <1>6, <1>7, <1>8, <1>9
<1> HIDE DEF S
<1> DEFINE i == [s \in S |-> s]
<1>13. i \in Injection(S, S) /\ \A s \in S : i[s] = s BY Itself
<1> HIDE DEF i
<1>14. SubScore(P) <= SubScore(Q) BY <1>10, <1>11, <1>12, <1>13, SubScoreGrows
<1> QED BY <1>14 DEF P, Q

\* The same, for factors of the same signals.
LEMMA SubScoreGrowsBySignal ==
  ASSUME NEW pts, NEW qts, IsPoints(pts), IsPoints(qts), DOMAIN pts = DOMAIN qts,
         \A s \in DOMAIN qts : pts[s] <= qts[s] /\ qts[s] >= 0
  PROVE  SubScore(pts) <= SubScore(qts)
<1> DEFINE i == [s \in DOMAIN pts |-> s]
<1>1. i \in Injection(DOMAIN pts, DOMAIN qts) /\ \A s \in DOMAIN pts : i[s] = s BY Itself
<1> HIDE DEF i
<1> QED BY <1>1, SubScoreGrows

\* The same, where one signal takes the place of another.
LEMMA SubScoreGrowsBySwap ==
  ASSUME NEW pts, NEW qts, IsPoints(pts), IsPoints(qts), DOMAIN pts = DOMAIN qts,
         NEW a \in DOMAIN pts, NEW b \in DOMAIN pts,
         pts[a] <= qts[b], pts[b] <= qts[a],
         \A s \in DOMAIN pts \ {a, b} : pts[s] <= qts[s],
         \A s \in DOMAIN qts : qts[s] >= 0
  PROVE  SubScore(pts) <= SubScore(qts)
<1> DEFINE i == [s \in DOMAIN pts |-> IF s = a THEN b ELSE IF s = b THEN a ELSE s]
<1>1. i \in Injection(DOMAIN pts, DOMAIN qts) BY DEF Injection, IsInjective
<1>2. \A s \in DOMAIN pts : pts[s] <= qts[i[s]] OBVIOUS
<1> HIDE DEF i
<1> QED BY <1>1, <1>2, SubScoreGrows

LEMMA ExposureGrows ==
  ASSUME OrderedWeights, NEW p, NEW q, Milder(p, q)
  PROVE  SubScore(Exposure(p)) <= SubScore(Exposure(q))
<1> DEFINE P == Exposure(p)
           Q == Exposure(q)
           IsOut(s) == \E x \in s.exposures : IsPublic(x) \/ x.path = "public"
           S == {"public_repo", "private_repo_or_ci", "verified_live",
                 "static_key_no_expiry", "cred_over_max_age"}
<1>1. S \subseteq SignalNames BY DEF SignalNames
<1>2. p.exposures \subseteq q.exposures /\ p.creds \subseteq q.creds BY DEF Milder
<1>3. DOMAIN P = S /\ DOMAIN Q = S BY DEF Exposure
<1>4. \A s \in S : Q[s] >= 0
  BY <1>1, RiskAssumption DEF OrderedWeights, Earns, Exposure
<1>5. \A s \in S \ {"public_repo", "private_repo_or_ci"} : P[s] <= Q[s]
  BY <1>1, <1>2, RiskAssumption DEF OrderedWeights, Earns, Exposure
<1>6. CASE IsOut(p) <=> IsOut(q)
  <2>1. P["public_repo"] <= Q["public_repo"]
    BY <1>1, <1>6, RiskAssumption DEF OrderedWeights, Earns, Exposure
  <2>2. P["private_repo_or_ci"] <= Q["private_repo_or_ci"]
    BY <1>1, <1>2, <1>6, RiskAssumption DEF OrderedWeights, Earns, Exposure
  <2>3. IsPoints(P) /\ IsPoints(Q) BY ExposureType
  <2> HIDE DEF P, Q
  <2>4. \A s \in S : P[s] <= Q[s] BY <1>5, <2>1, <2>2
  <2>5. SubScore(P) <= SubScore(Q) BY <1>3, <1>4, <2>3, <2>4, SubScoreGrowsBySignal
  <2> QED BY <2>5 DEF P, Q
<1>7. CASE ~ (IsOut(p) <=> IsOut(q))
  <2>1. ~ IsOut(p) /\ IsOut(q) BY <1>2, <1>7
  <2>2. P["public_repo"] = 0 /\ Q["private_repo_or_ci"] = 0
    BY <2>1 DEF Earns, Exposure
  <2>3. P["private_repo_or_ci"] <= Q["public_repo"]
    BY <1>1, <2>1, RiskAssumption DEF OrderedWeights, Earns, Exposure
  <2>4. IsPoints(P) /\ IsPoints(Q) BY ExposureType
  <2> HIDE DEF P, Q
  <2>5. P["public_repo"] <= Q["private_repo_or_ci"] BY <2>2
  <2>6. SubScore(P) <= SubScore(Q)
    BY <1>3, <1>4, <1>5, <2>3, <2>4, <2>5, SubScoreGrowsBySwap
  <2> QED BY <2>6 DEF P, Q
<1> QED BY <1>6, <1>7

LEMMA FreshnessGrows ==
  ASSUME NEW p, NEW q, Milder(p, q)
  PROVE  SubScore(Freshness(p)) <= SubScore(Freshness(q))
<1>1. Freshness(p) = Freshness(q) BY DEF Milder, Freshness
<1>2. SubScore(Freshness(q)) \in Int BY FreshnessType, SubScoreType
<1> QED BY <1>1, <1>2

LEMMA UsageGrows ==
  ASSUME NEW p, NEW q, IsPosture(p), IsPosture(q)
  PROVE  SubScore(Usage(p)) <= SubScore(Usage(q))
<1>1. SumFunction(Usage(p)) = 0 /\ SumFunction(Usage(q)) = 0
  BY UsageType, SumOfNothing
<1>2. SubScore(Usage(p)) = SubScore(Usage(q)) BY <1>1 DEF SubScore
<1>3. SubScore(Usage(q)) \in Int BY UsageType, SubScoreType
<1> QED BY <1>2, <1>3

LEMMA TrustGrows ==
  ASSUME OrderedWeights, NEW p, NEW q, IsPosture(p), IsPosture(q), Milder(p, q)
  PROVE  SubScore(Trust(p)) <= SubScore(Trust(q))
<1> DEFINE P == Trust(p)
           Q == Trust(q)
           S == {"conditionless_assume", "cross_account", "wildcard_external",
                 "can_mint_or_impersonate", "chain_depth_2plus"}
<1>1. PICK h \in Injection(p.trust, q.trust) : \A t \in p.trust :
           /\ h[t].type = t.type
           /\ HasGuard(h[t]) => HasGuard(t)
           /\ t.cross => h[t].cross
           /\ t.wild => h[t].wild
  BY DEF Milder, TrustBelow
<1>2. \A t \in p.trust : h[t] \in q.trust BY DEF Injection
<1>3. S \subseteq SignalNames BY DEF SignalNames
<1>4. \A A \in SUBSET p.trust, B \in SUBSET q.trust, s \in S :
        (\A t \in A : h[t] \in B)
          => /\ Points[s] * Cardinality(A) <= Points[s] * Cardinality(B)
             /\ Points[s] * Cardinality(B) >= 0
  <2> SUFFICES ASSUME NEW A \in SUBSET p.trust, NEW B \in SUBSET q.trust, NEW s \in S,
                      \A t \in A : h[t] \in B
               PROVE  /\ Points[s] * Cardinality(A) <= Points[s] * Cardinality(B)
                      /\ Points[s] * Cardinality(B) >= 0
    OBVIOUS
  <2>1. /\ Cardinality(A) \in Nat /\ Cardinality(B) \in Nat
        /\ Cardinality(A) <= Cardinality(B)
    BY CountGrows DEF IsPosture
  <2>2. Points[s] \in Int /\ Points[s] >= 0 BY <1>3, RiskAssumption DEF OrderedWeights
  <2>3. Points[s] * Cardinality(A) <= Points[s] * Cardinality(B)
    BY <2>1, <2>2, ProductGrows
  <2>4. Points[s] * 0 <= Points[s] * Cardinality(B) BY <2>1, <2>2, ProductGrows
  <2> QED BY <2>2, <2>3, <2>4
<1>5. P["conditionless_assume"] <= Q["conditionless_assume"] /\ Q["conditionless_assume"] >= 0
  <2> DEFINE A == {t \in p.trust : t.type = "can_assume" /\ ~HasGuard(t)}
             B == {t \in q.trust : t.type = "can_assume" /\ ~HasGuard(t)}
  <2>1. \A t \in A : h[t] \in B BY <1>1, <1>2
  <2>2. /\ P["conditionless_assume"] = Points["conditionless_assume"] * Cardinality(A)
        /\ Q["conditionless_assume"] = Points["conditionless_assume"] * Cardinality(B)
    BY DEF Trust
  <2>3. A \in SUBSET p.trust /\ B \in SUBSET q.trust /\ "conditionless_assume" \in S
    OBVIOUS
  <2> HIDE DEF A, B, P, Q, S
  <2> QED BY <1>4, <2>1, <2>2, <2>3
<1>6. P["cross_account"] <= Q["cross_account"] /\ Q["cross_account"] >= 0
  <2> DEFINE A == {t \in p.trust : t.cross}
             B == {t \in q.trust : t.cross}
  <2>1. \A t \in A : h[t] \in B BY <1>1, <1>2
  <2>2. /\ P["cross_account"] = Points["cross_account"] * Cardinality(A)
        /\ Q["cross_account"] = Points["cross_account"] * Cardinality(B)
    BY DEF Trust
  <2>3. A \in SUBSET p.trust /\ B \in SUBSET q.trust /\ "cross_account" \in S
    OBVIOUS
  <2> HIDE DEF A, B, P, Q, S
  <2> QED BY <1>4, <2>1, <2>2, <2>3
<1>7. P["wildcard_external"] <= Q["wildcard_external"] /\ Q["wildcard_external"] >= 0
  <2> DEFINE A == {t \in p.trust : t.wild}
             B == {t \in q.trust : t.wild}
  <2>1. \A t \in A : h[t] \in B BY <1>1, <1>2
  <2>2. /\ P["wildcard_external"] = Points["wildcard_external"] * Cardinality(A)
        /\ Q["wildcard_external"] = Points["wildcard_external"] * Cardinality(B)
    BY DEF Trust
  <2>3. A \in SUBSET p.trust /\ B \in SUBSET q.trust /\ "wildcard_external" \in S
    OBVIOUS
  <2> HIDE DEF A, B, P, Q, S
  <2> QED BY <1>4, <2>1, <2>2, <2>3
<1>8. /\ P["can_mint_or_impersonate"] <= Q["can_mint_or_impersonate"]
      /\ Q["can_mint_or_impersonate"] >= 0
  <2> DEFINE A == {t \in p.trust : t.type \in {"can_mint_token", "can_impersonate"}}
             B == {t \in q.trust : t.type \in {"can_mint_token", "can_impersonate"}}
  <2>1. \A t \in A : h[t] \in B BY <1>1, <1>2
  <2>2. /\ P["can_mint_or_impersonate"] = Points["can_mint_or_impersonate"] * Cardinality(A)
        /\ Q["can_mint_or_impersonate"] = Points["can_mint_or_impersonate"] * Cardinality(B)
    BY DEF Trust
  <2>3. A \in SUBSET p.trust /\ B \in SUBSET q.trust /\ "can_mint_or_impersonate" \in S
    OBVIOUS
  <2> HIDE DEF A, B, P, Q, S
  <2> QED BY <1>4, <2>1, <2>2, <2>3
<1>9. P["chain_depth_2plus"] <= Q["chain_depth_2plus"] /\ Q["chain_depth_2plus"] >= 0
  <2>1. p.depth >= 2 => q.depth >= 2 BY DEF Milder
  <2>2. /\ P["chain_depth_2plus"] = Earns(p.depth >= 2, "chain_depth_2plus")
        /\ Q["chain_depth_2plus"] = Earns(q.depth >= 2, "chain_depth_2plus")
    BY DEF Trust
  <2> HIDE DEF P, Q
  <2> QED BY <1>3, <2>1, <2>2, RiskAssumption DEF OrderedWeights, Earns
<1>10. DOMAIN P = S /\ DOMAIN Q = S BY DEF Trust
<1>11. IsPoints(P) /\ IsPoints(Q) BY TrustType
<1> HIDE DEF P, Q
<1>12. \A s \in S : P[s] <= Q[s] /\ Q[s] >= 0 BY <1>5, <1>6, <1>7, <1>8, <1>9
<1>13. SubScore(P) <= SubScore(Q) BY <1>10, <1>11, <1>12, SubScoreGrowsBySignal
<1> QED BY <1>13 DEF P, Q

LEMMA BlastGrows ==
  ASSUME OrderedWeights, NEW p, NEW q, IsPosture(p), IsPosture(q), Milder(p, q)
  PROVE  SubScore(BlastFactor(p)) <= SubScore(BlastFactor(q))
<1> DEFINE P == BlastFactor(p)
           Q == BlastFactor(q)
           a == p.blast
           b == q.blast
           S == {"crown_jewel_1hop", "crown_jewel_chain", "high_crit_reachable",
                 "reachable_over_p90", "escalate_to_admin"}
<1>1. {"crown_jewel_1hop", "crown_jewel_chain", "high_crit_each", "high_crit_cap",
       "reachable_over_p90", "escalate_to_admin"} \subseteq SignalNames
  BY DEF SignalNames
<1>2. /\ a.high <= b.high /\ a.reachable <= b.reachable
      /\ a.crown > 0 => b.crown > 0
      /\ a.crown > 0 /\ a.nearest <= 1 => b.nearest <= 1
      /\ a.admin => b.admin
  BY DEF Milder, BlastBelow
<1>3. /\ a.high \in Nat /\ b.high \in Nat /\ a.reachable \in Nat /\ b.reachable \in Nat
      /\ p.peerReach = q.peerReach /\ p.peerReach \in Nat
  BY DEF Milder, IsPosture
<1>4. P["high_crit_reachable"] <= Q["high_crit_reachable"] /\ Q["high_crit_reachable"] >= 0
  <2>1. /\ P["high_crit_reachable"]
             = CapPts(a.high * Points["high_crit_each"], Points["high_crit_cap"])
        /\ Q["high_crit_reachable"]
             = CapPts(b.high * Points["high_crit_each"], Points["high_crit_cap"])
    BY DEF BlastFactor
  <2> HIDE DEF P, Q, a, b
  <2> QED BY <1>1, <1>2, <1>3, <2>1, WildcardsGrow
<1>5. P["reachable_over_p90"] <= Q["reachable_over_p90"] /\ Q["reachable_over_p90"] >= 0
  <2>1. /\ P["reachable_over_p90"]
             = Earns(p.peerReach > 0 /\ a.reachable > p.peerReach, "reachable_over_p90")
        /\ Q["reachable_over_p90"]
             = Earns(q.peerReach > 0 /\ b.reachable > q.peerReach, "reachable_over_p90")
    BY DEF BlastFactor
  <2> HIDE DEF P, Q, a, b
  <2> QED BY <1>1, <1>2, <1>3, <2>1, RiskAssumption DEF OrderedWeights, Earns
<1>6. P["escalate_to_admin"] <= Q["escalate_to_admin"] /\ Q["escalate_to_admin"] >= 0
  <2>1. /\ P["escalate_to_admin"] = Earns(a.admin, "escalate_to_admin")
        /\ Q["escalate_to_admin"] = Earns(b.admin, "escalate_to_admin")
    BY DEF BlastFactor
  <2> HIDE DEF P, Q, a, b
  <2> QED BY <1>1, <1>2, <2>1, RiskAssumption DEF OrderedWeights, Earns
<1>7. /\ P["crown_jewel_1hop"] = Earns(a.crown > 0 /\ a.nearest <= 1, "crown_jewel_1hop")
      /\ Q["crown_jewel_1hop"] = Earns(b.crown > 0 /\ b.nearest <= 1, "crown_jewel_1hop")
      /\ P["crown_jewel_chain"] = Earns(a.crown > 0 /\ ~(a.nearest <= 1), "crown_jewel_chain")
      /\ Q["crown_jewel_chain"] = Earns(b.crown > 0 /\ ~(b.nearest <= 1), "crown_jewel_chain")
  BY DEF BlastFactor
<1>8. DOMAIN P = S /\ DOMAIN Q = S BY DEF BlastFactor
<1>9. IsPoints(P) /\ IsPoints(Q) BY BlastType
<1> HIDE DEF P, Q, a, b
<1>10. Q["crown_jewel_1hop"] >= 0 /\ Q["crown_jewel_chain"] >= 0
  BY <1>1, <1>7, RiskAssumption DEF OrderedWeights, Earns
<1>11. \A s \in S : Q[s] >= 0 BY <1>4, <1>5, <1>6, <1>10
<1>12. \A s \in S \ {"crown_jewel_1hop", "crown_jewel_chain"} : P[s] <= Q[s]
  BY <1>4, <1>5, <1>6
<1>13. CASE a.crown > 0 /\ ~(a.nearest <= 1) /\ b.nearest <= 1
  <2>1. /\ P["crown_jewel_chain"] <= Q["crown_jewel_1hop"]
        /\ P["crown_jewel_1hop"] <= Q["crown_jewel_chain"]
    BY <1>1, <1>2, <1>7, <1>13, RiskAssumption DEF OrderedWeights, Earns
  <2>2. SubScore(P) <= SubScore(Q)
    BY <1>8, <1>9, <1>11, <1>12, <2>1, SubScoreGrowsBySwap
  <2> QED BY <2>2 DEF P, Q
<1>14. CASE ~ (a.crown > 0 /\ ~(a.nearest <= 1) /\ b.nearest <= 1)
  <2>1. /\ P["crown_jewel_chain"] <= Q["crown_jewel_chain"]
        /\ P["crown_jewel_1hop"] <= Q["crown_jewel_1hop"]
    BY <1>1, <1>2, <1>7, <1>14, RiskAssumption DEF OrderedWeights, Earns
  <2>2. \A s \in S : P[s] <= Q[s] /\ Q[s] >= 0 BY <1>11, <1>12, <2>1
  <2>3. SubScore(P) <= SubScore(Q) BY <1>8, <1>9, <2>2, SubScoreGrowsBySignal
  <2> QED BY <2>3 DEF P, Q
<1> QED BY <1>13, <1>14

\* With weights that hold nothing in an identity's favour, a posture that gives less
\* to count scores no higher than one that gives more, but for one point of rounding,
\* and never higher than the most the other may score.
THEOREM RiskGrows ==
  ASSUME OrderedWeights, NEW p, NEW q, IsPosture(p), IsPosture(q), Milder(p, q),
         NEW c \in Composites(p)
  PROVE  /\ \A d \in Composites(q) : c <= d + 1
         /\ c <= Max(Composites(q))
<1>1. /\ SubScore(Privilege(p)) <= SubScore(Privilege(q))
      /\ SubScore(Exposure(p)) <= SubScore(Exposure(q))
      /\ SubScore(Freshness(p)) <= SubScore(Freshness(q))
      /\ SubScore(Usage(p)) <= SubScore(Usage(q))
      /\ SubScore(Trust(p)) <= SubScore(Trust(q))
      /\ SubScore(BlastFactor(p)) <= SubScore(BlastFactor(q))
  BY PrivilegeGrows, ExposureGrows, FreshnessGrows, UsageGrows, TrustGrows, BlastGrows
<1>2. \A r \in {p, q} :
        /\ SubScore(Privilege(r)) \in Int /\ SubScore(Exposure(r)) \in Int
        /\ SubScore(Freshness(r)) \in Int /\ SubScore(Usage(r)) \in Int
        /\ SubScore(Trust(r)) \in Int /\ SubScore(BlastFactor(r)) \in Int
  <2> SUFFICES ASSUME NEW r, IsPosture(r)
               PROVE  /\ SubScore(Privilege(r)) \in Int /\ SubScore(Exposure(r)) \in Int
                      /\ SubScore(Freshness(r)) \in Int /\ SubScore(Usage(r)) \in Int
                      /\ SubScore(Trust(r)) \in Int /\ SubScore(BlastFactor(r)) \in Int
    OBVIOUS
  <2>1. /\ IsPoints(Privilege(r)) /\ IsPoints(Exposure(r)) /\ IsPoints(Freshness(r))
        /\ IsPoints(Usage(r)) /\ IsPoints(Trust(r)) /\ IsPoints(BlastFactor(r))
    BY PrivilegeType, ExposureType, FreshnessType, UsageType, TrustType, BlastType
  <2> QED BY <2>1, SubScoreType
<1>3. \A f \in Factors : Weight[f] \in Int /\ Weight[f] >= 0
  BY RiskAssumption DEF OrderedWeights
<1>4. /\ Weight["privilege"] \in Int /\ Weight["privilege"] >= 0
      /\ Weight["exposure"] \in Int /\ Weight["exposure"] >= 0
      /\ Weight["freshness"] \in Int /\ Weight["freshness"] >= 0
      /\ Weight["usage"] \in Int /\ Weight["usage"] >= 0
      /\ Weight["trust"] \in Int /\ Weight["trust"] >= 0
      /\ Weight["blast_radius"] \in Int /\ Weight["blast_radius"] >= 0
  BY <1>3 DEF Factors
<1>5. \A w \in {x \in Int : x >= 0}, m, n \in Int :
        m <= n => w * m <= w * n /\ w * m \in Int /\ w * n \in Int
  BY ProductGrows
<1>6. WeightedSum(p) <= WeightedSum(q)
  <2> DEFINE ap == Weight["privilege"] * SubScore(Privilege(p))
             aq == Weight["privilege"] * SubScore(Privilege(q))
             bp == Weight["exposure"] * SubScore(Exposure(p))
             bq == Weight["exposure"] * SubScore(Exposure(q))
             cp == Weight["freshness"] * SubScore(Freshness(p))
             cq == Weight["freshness"] * SubScore(Freshness(q))
             dp == Weight["usage"] * SubScore(Usage(p))
             dq == Weight["usage"] * SubScore(Usage(q))
             ep == Weight["trust"] * SubScore(Trust(p))
             eq == Weight["trust"] * SubScore(Trust(q))
             fp == Weight["blast_radius"] * SubScore(BlastFactor(p))
             fq == Weight["blast_radius"] * SubScore(BlastFactor(q))
  <2>1. ap \in Int /\ aq \in Int /\ ap <= aq BY <1>1, <1>2, <1>4, <1>5
  <2>2. bp \in Int /\ bq \in Int /\ bp <= bq BY <1>1, <1>2, <1>4, <1>5
  <2>3. cp \in Int /\ cq \in Int /\ cp <= cq BY <1>1, <1>2, <1>4, <1>5
  <2>4. dp \in Int /\ dq \in Int /\ dp <= dq BY <1>1, <1>2, <1>4, <1>5
  <2>5. ep \in Int /\ eq \in Int /\ ep <= eq BY <1>1, <1>2, <1>4, <1>5
  <2>6. fp \in Int /\ fq \in Int /\ fp <= fq BY <1>1, <1>2, <1>4, <1>5
  <2>7. /\ WeightedSum(p) = ap + bp + cp + dp + ep + fp
        /\ WeightedSum(q) = aq + bq + cq + dq + eq + fq
    BY DEF WeightedSum
  <2> HIDE DEF ap, aq, bp, bq, cp, cq, dp, dq, ep, eq, fp, fq
  <2> QED BY <2>1, <2>2, <2>3, <2>4, <2>5, <2>6, <2>7
<1>7. WeightedSum(p) \in Int /\ WeightedSum(q) \in Int BY WeightedSumType
<1>8. Composites(p) = Rounded(WeightedSum(p)) /\ Composites(q) = Rounded(WeightedSum(q))
  BY DEF Composites
<1> QED BY <1>6, <1>7, <1>8, RoundedGrows

-----------------------------------------------------------------------------
(* The mutations: what is recommended gives less to count.                 *)

LEMMA RolesBelowLarger ==
  ASSUME NEW S, NEW T, S \subseteq T, \A r \in S : r.wildActs \in Nat
           /\ r.wildRes \in Nat /\ r.perms \in Nat
  PROVE  RolesBelow(S, T)
<1> DEFINE i == [r \in S |-> r]
<1>1. i \in Injection(S, T) /\ \A r \in S : i[r] = r BY Itself
<1> HIDE DEF i
<1>2. \A r \in S : /\ r.wildActs <= i[r].wildActs /\ r.wildRes <= i[r].wildRes
                   /\ r.perms <= i[r].perms
                   /\ IsAdmin(r) => IsAdmin(i[r])
                   /\ r.escalates => i[r].escalates
  BY <1>1
<1> QED BY <1>1, <1>2 DEF RolesBelow

LEMMA TrustBelowLarger ==
  ASSUME NEW S, NEW T, S \subseteq T
  PROVE  TrustBelow(S, T)
<1> DEFINE i == [t \in S |-> t]
<1>1. i \in Injection(S, T) /\ \A t \in S : i[t] = t BY Itself
<1> HIDE DEF i
<1>2. \A t \in S : /\ i[t].type = t.type
                   /\ HasGuard(i[t]) => HasGuard(t)
                   /\ t.cross => i[t].cross
                   /\ t.wild => i[t].wild
  BY <1>1
<1> QED BY <1>1, <1>2 DEF TrustBelow

LEMMA BlastBelowItself ==
  ASSUME NEW p, IsPosture(p)
  PROVE  BlastBelow(p.blast, p.blast) /\ BlastBelow(NoBlast, p.blast)
BY DEF IsPosture, BlastBelow, NoBlast

LEMMA MilderItself ==
  ASSUME NEW p, IsPosture(p)
  PROVE  /\ RolesBelow(p.roles, p.roles) /\ TrustBelow(p.trust, p.trust)
         /\ RolesBelow({}, p.roles) /\ TrustBelow({}, p.trust)
BY RolesBelowLarger, TrustBelowLarger DEF IsPosture

LEMMA ClearKeysMilder ==
  ASSUME NEW p, IsPosture(p)
  PROVE  IsPosture(ClearKeys(p)) /\ Milder(ClearKeys(p), p)
<1>1. IsPosture(ClearKeys(p)) BY DEF IsPosture, ClearKeys
<1>2. Milder(ClearKeys(p), p)
  BY MilderItself, BlastBelowItself DEF IsPosture, ClearKeys, Milder
<1> QED BY <1>1, <1>2

LEMMA ClearExposuresAndKeysMilder ==
  ASSUME NEW p, IsPosture(p)
  PROVE  IsPosture(ClearExposuresAndKeys(p)) /\ Milder(ClearExposuresAndKeys(p), p)
<1>1. IsPosture(ClearExposuresAndKeys(p)) BY DEF IsPosture, ClearExposuresAndKeys
<1>2. Milder(ClearExposuresAndKeys(p), p)
  BY MilderItself, BlastBelowItself DEF IsPosture, ClearExposuresAndKeys, Milder
<1> QED BY <1>1, <1>2

LEMMA DecommissionMilder ==
  ASSUME NEW p, IsPosture(p)
  PROVE  IsPosture(Decommission(p)) /\ Milder(Decommission(p), p)
<1>1. IsPosture(Decommission(p)) BY FS_EmptySet DEF IsPosture, Decommission, NoBlast
<1>2. Milder(Decommission(p), p)
  BY MilderItself, BlastBelowItself DEF IsPosture, Decommission, Milder
<1> QED BY <1>1, <1>2

LEMMA BreakTrustMilder ==
  ASSUME NEW p, IsPosture(p)
  PROVE  IsPosture(BreakTrust(p)) /\ Milder(BreakTrust(p), p)
<1>1. IsPosture(BreakTrust(p)) BY FS_EmptySet DEF IsPosture, BreakTrust, NoBlast
<1>2. Milder(BreakTrust(p), p)
  BY MilderItself, BlastBelowItself DEF IsPosture, BreakTrust, Milder
<1> QED BY <1>1, <1>2

LEMMA GuardTrustMilder ==
  ASSUME NEW p, IsPosture(p)
  PROVE  IsPosture(GuardTrust(p)) /\ Milder(GuardTrust(p), p)
<1> DEFINE Guarded(t) == [t EXCEPT !.guards = {"mfa", "external_id"}]
           S == {Guarded(t) : t \in p.trust}
           h == [x \in S |-> CHOOSE t \in p.trust : x = Guarded(t)]
<1>1. \A x \in S : h[x] \in p.trust /\ x = Guarded(h[x]) OBVIOUS
<1>2. h \in Injection(S, p.trust)
  <2>1. h \in [S -> p.trust] BY <1>1
  <2>2. \A x, y \in S : h[x] = h[y] => x = y BY <1>1
  <2> HIDE DEF h, S
  <2> QED BY <2>1, <2>2 DEF Injection, IsInjective
<1> HIDE DEF h
<1>3. IsFiniteSet(S) BY <1>2, FS_Injection DEF IsPosture
<1>4. \A x \in S : /\ {"type", "guards", "cross", "wild"} \subseteq DOMAIN x
                   /\ x.type = h[x].type /\ x.cross = h[x].cross /\ x.wild = h[x].wild
                   /\ x.guards = {"mfa", "external_id"}
  BY <1>1 DEF IsPosture
<1>5. TrustBelow(S, p.trust)
  <2>1. \A x \in S : HasGuard(x) BY <1>4 DEF HasGuard
  <2> HIDE DEF S
  <2> QED BY <1>2, <1>4, <2>1 DEF TrustBelow
<1>6. GuardTrust(p) = [p EXCEPT !.trust = S] BY DEF GuardTrust
<1> HIDE DEF S
<1>7. IsPosture(GuardTrust(p)) BY <1>3, <1>4, <1>6 DEF IsPosture
<1>8. Milder(GuardTrust(p), p)
  BY <1>5, <1>6, MilderItself, BlastBelowItself DEF IsPosture, Milder
<1> QED BY <1>7, <1>8

LEMMA LeastPrivilegeMilder ==
  ASSUME NEW p, IsPosture(p)
  PROVE  IsPosture(LeastPrivilege(p)) /\ Milder(LeastPrivilege(p), p)
<1> DEFINE Trimmed(r) == [r EXCEPT !.wildActs = 0, !.wildRes = 0]
           R == {q \in p.roles : ~IsAdmin(q)}
           S == {Trimmed(r) : r \in R}
           h == [x \in S |-> CHOOSE r \in R : x = Trimmed(r)]
           B == {b \in p.bindings : b.crit # "crown_jewel"}
<1>1. \A x \in S : h[x] \in R /\ x = Trimmed(h[x]) OBVIOUS
<1>2. h \in Injection(S, p.roles)
  <2>1. h \in [S -> p.roles] BY <1>1
  <2>2. \A x, y \in S : h[x] = h[y] => x = y BY <1>1
  <2> HIDE DEF h, S
  <2> QED BY <2>1, <2>2 DEF Injection, IsInjective
<1> HIDE DEF h
<1>3. IsFiniteSet(S) BY <1>2, FS_Injection DEF IsPosture
<1>4. \A x \in S :
        /\ h[x] \in p.roles
        /\ {"level", "wildActs", "wildRes", "escalates", "perms"} \subseteq DOMAIN x
        /\ x.wildActs = 0 /\ x.wildRes = 0
        /\ x.level = h[x].level /\ x.perms = h[x].perms /\ x.escalates = h[x].escalates
  <2> SUFFICES ASSUME NEW x \in S, NEW r, r = h[x]
               PROVE  /\ r \in p.roles
                      /\ {"level", "wildActs", "wildRes", "escalates", "perms"}
                           \subseteq DOMAIN x
                      /\ x.wildActs = 0 /\ x.wildRes = 0
                      /\ x.level = r.level /\ x.perms = r.perms
                      /\ x.escalates = r.escalates
    OBVIOUS
  <2>1. r \in p.roles /\ x = Trimmed(r) BY <1>1
  <2>2. {"level", "wildActs", "wildRes", "escalates", "perms"} \subseteq DOMAIN r
    BY <2>1 DEF IsPosture
  <2> HIDE DEF S
  <2> QED BY <2>1, <2>2
<1>5. \A x \in S : /\ x.wildActs \in Nat /\ x.wildRes \in Nat /\ x.perms \in Nat
                   /\ x.wildActs <= h[x].wildActs /\ x.wildRes <= h[x].wildRes
                   /\ x.perms <= h[x].perms
  <2> HIDE DEF S
  <2> SUFFICES ASSUME NEW x \in S, NEW r, r = h[x]
               PROVE  /\ x.wildActs \in Nat /\ x.wildRes \in Nat /\ x.perms \in Nat
                      /\ x.wildActs <= r.wildActs /\ x.wildRes <= r.wildRes
                      /\ x.perms <= r.perms
    OBVIOUS
  <2>1. r \in p.roles /\ x.wildActs = 0 /\ x.wildRes = 0 /\ x.perms = r.perms BY <1>4
  <2>2. r.wildActs \in Nat /\ r.wildRes \in Nat /\ r.perms \in Nat
    BY <2>1 DEF IsPosture
  <2> QED BY <2>1, <2>2
<1> HIDE DEF S
<1>6. RolesBelow(S, p.roles) BY <1>2, <1>4, <1>5 DEF RolesBelow, IsAdmin
<1>7. LeastPrivilege(p) = [p EXCEPT !.roles = S, !.bindings = B, !.blast = NoBlast]
  BY DEF LeastPrivilege, S
<1>8. B \subseteq p.bindings OBVIOUS
<1> HIDE DEF B
<1>9. IsPosture(LeastPrivilege(p)) BY <1>3, <1>4, <1>5, <1>7 DEF IsPosture, NoBlast
<1>10. Milder(LeastPrivilege(p), p)
  BY <1>6, <1>7, <1>8, MilderItself, BlastBelowItself DEF IsPosture, Milder
<1> QED BY <1>9, <1>10

\* No recommended fix is expected to raise the score, but for one point of rounding.
THEOREM FixesLower ==
  ASSUME OrderedWeights, NEW p, IsPosture(p), NEW a \in Fixes,
         NEW c \in Composites(p), NEW d \in After(a, p, c)
  PROVE  d <= c + 1
<1>1. CASE a \in {"shorten_ttl", "require_mfa"}
  <2>1. d = c BY <1>1 DEF After
  <2>2. c \in Int BY ScoreInRange
  <2> QED BY <2>1, <2>2
<1>2. CASE a \notin {"shorten_ttl", "require_mfa"}
  <2>1. d \in Composites(Mutate(a, p)) BY <1>2 DEF After
  <2>2. a \in {"rotate", "revoke", "disable_key", "remove_identity", "reduce_scope",
               "add_condition", "break_trust"}
    BY <1>2 DEF Fixes, Catalog
  <2>3. IsPosture(Mutate(a, p)) /\ Milder(Mutate(a, p), p)
    BY <2>2, ClearKeysMilder, ClearExposuresAndKeysMilder, DecommissionMilder,
       BreakTrustMilder, GuardTrustMilder, LeastPrivilegeMilder DEF Mutate
  <2> QED BY <2>1, <2>3, RiskGrows
<1> QED BY <1>1, <1>2
=============================================================================
