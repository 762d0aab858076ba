-------------------------- MODULE InventoryProofs --------------------------
(***************************************************************************)
(* TypeCorrect: every row of the inventory has the shape of its table, and *)
(* its references name rows, for every set of installations, every history *)
(* of changes and faults and every interleaving of the collectors.         *)
(***************************************************************************)
EXTENDS Inventory, FiniteSetTheorems, SequenceTheorems, TLAPS

----------------------------------------------------------------------------
(* What is left of a batch is a batch. *)

LEMMA RestOfBatch ==
    ASSUME NEW s, s \in Seq(Range(s)), s # <<>>
    PROVE  /\ Head(s) \in Range(s)
           /\ Tail(s) \in Seq(Range(Tail(s)))
           /\ Range(Tail(s)) \subseteq Range(s)
<1> DEFINE S == Range(s)
           rest == Tail(s)
           n == Len(rest)
<1>1. Len(s) \in Nat /\ Len(s) # 0 /\ DOMAIN s = 1..Len(s)
  BY LenProperties, EmptySeq
<1>2. Head(s) \in S /\ rest \in Seq(S)
  <2> HIDE DEF S
  <2>1. s \in Seq(S)
    BY DEF S
  <2> QED BY <2>1, HeadTailProperties
<1>3. n \in Nat /\ rest \in [1..n -> S] /\ DOMAIN rest = 1..n
  <2> HIDE DEF S, rest
  <2> QED BY <1>2, LenProperties
<1> HIDE DEF n, rest, S
<1>4. Range(rest) \subseteq S
  BY <1>3 DEF Range
<1>5. rest \in [1..n -> Range(rest)]
  BY <1>3 DEF Range
<1>6. rest \in Seq(Range(rest))
  BY <1>3, <1>5, SeqDef
<1> QED BY <1>2, <1>4, <1>6 DEF S, rest

LEMMA IdleIsBatch == IsBatch(Idle)
<1>1. <<>> \in Seq(Range(<<>>))
  OBVIOUS
<1>2. Range(<<>>) = {}
  BY DEF Range
<1> QED BY <1>1, <1>2 DEF IsBatch, Idle

LEMMA IdentityStored ==
    ASSUME NEW b, IsBatch(b), NEW rec
    PROVE  IsBatch([b EXCEPT !.identities = @ \ {rec}])
<1> DEFINE people == b.identities
           rest == b.rest
<1>1. b = [identities |-> people, rest |-> rest]
  BY DEF IsBatch
<1>2. [b EXCEPT !.identities = @ \ {rec}] = [identities |-> people \ {rec}, rest |-> rest]
  <2> HIDE DEF people, rest
  <2> QED BY <1>1
<1> QED BY <1>1, <1>2 DEF IsBatch

LEMMA RowStored ==
    ASSUME NEW b, IsBatch(b), b.rest # <<>>
    PROVE  IsBatch([b EXCEPT !.rest = Tail(@)]) /\ IsRow(Head(b.rest))
<1> DEFINE people == b.identities
           rest == b.rest
<1>1. b = [identities |-> people, rest |-> rest]
  BY DEF IsBatch
<1>2. [b EXCEPT !.rest = Tail(@)] = [identities |-> people, rest |-> Tail(rest)]
  <2> HIDE DEF people, rest
  <2> QED BY <1>1
<1>3. /\ Head(rest) \in Range(rest)
      /\ Tail(rest) \in Seq(Range(Tail(rest)))
      /\ Range(Tail(rest)) \subseteq Range(rest)
  BY RestOfBatch DEF IsBatch
<1> QED BY <1>1, <1>2, <1>3 DEF IsBatch

----------------------------------------------------------------------------
(* Identities. *)

LEMMA MakesIdentity ==
    ASSUME NEW ext, NEW id, NEW detailed \in BOOLEAN, NEW state \in {"active", "disabled"},
           NEW seen \in BOOLEAN, NEW created \in BOOLEAN, id = <<id[1], ext>>
    PROVE  LET row == [ext |-> ext, id |-> id, detailed |-> detailed, state |-> state,
                       seen |-> seen, created |-> created]
           IN  IsIdentity(row) /\ row.ext = ext /\ row.id = id
BY DEF IsIdentity, Identity

LEMMA IdentityKept ==
    ASSUME NEW rec, IsIdentity(rec), NEW old, IsIdentity(old), old.ext = rec.ext,
           NEW row, row = [rec EXCEPT !.id = old.id, !.created = old.created]
    PROVE  IsIdentity(row) /\ row.ext = rec.ext /\ row.id = old.id
<1>1. rec = [ext |-> rec.ext, id |-> <<rec.id[1], rec.ext>>, detailed |-> rec.detailed,
             state |-> rec.state, seen |-> rec.seen, created |-> rec.created]
  BY DEF IsIdentity, Identity
<1>2. old.id = <<old.id[1], old.ext>> /\ old.created \in BOOLEAN
  <2>1. old = [ext |-> old.ext, id |-> <<old.id[1], old.ext>>, detailed |-> old.detailed,
               state |-> old.state, seen |-> old.seen, created |-> old.created]
    BY DEF IsIdentity, Identity
  <2> QED BY <2>1 DEF IsIdentity
<1> DEFINE ext == rec.ext
           detailed == rec.detailed
           state == rec.state
           seen == rec.seen
           id == old.id
           created == old.created
<1>3. row = [ext |-> ext, id |-> id, detailed |-> detailed, state |-> state, seen |-> seen,
             created |-> created]
  <2> HIDE DEF ext, detailed, state, seen, id, created
  <2> QED BY <1>1 DEF ext, detailed, state, seen, id, created
<1>4. id = <<id[1], ext>> /\ created \in BOOLEAN
  BY <1>2
<1>5. state \in {"active", "disabled"} /\ {detailed, seen} \subseteq BOOLEAN
  BY DEF IsIdentity
<1> HIDE DEF ext, detailed, state, seen, id, created
<1>6. IsIdentity(row) /\ row.ext = ext /\ row.id = id
  <2> DEFINE made == [ext |-> ext, id |-> id, detailed |-> detailed, state |-> state,
                      seen |-> seen, created |-> created]
  <2>1. detailed \in BOOLEAN /\ seen \in BOOLEAN /\ state \in {"active", "disabled"}
    BY <1>5
  <2>2. IsIdentity(made) /\ made.ext = ext /\ made.id = id
    BY <1>4, <2>1, MakesIdentity
  <2>3. row = made
    BY <1>3
  <2> HIDE DEF made
  <2> QED BY <2>2, <2>3
<1> QED BY <1>6 DEF ext, id

PeopleOK == \A e \in DOMAIN identities : identities[e].ext = e /\ IsIdentity(identities[e])

(* The id of a row stays, so that whoever refers to it still finds it. *)
LEMMA UpsertKeepsIds ==
    ASSUME PeopleOK, NEW rec, IsIdentity(rec), identities' = UpsertIdentity(identities, rec),
           UNCHANGED roles
    PROVE  PeopleOK' /\ KnownIds \subseteq KnownIds'
<1>1. DOMAIN identities' = DOMAIN identities \cup {rec.ext}
  BY DEF UpsertIdentity, Put
<1>2. ASSUME NEW e \in DOMAIN identities, e # rec.ext
      PROVE  identities'[e] = identities[e]
  BY <1>2 DEF UpsertIdentity, Put
<1>3. CASE rec.ext \in DOMAIN identities
  <2> DEFINE old == identities[rec.ext]
             row == [rec EXCEPT !.id = old.id, !.created = old.created]
  <2>1. identities'[rec.ext] = row
    BY <1>3 DEF UpsertIdentity, Put
  <2>2. IsIdentity(old) /\ old.ext = rec.ext
    BY <1>3 DEF PeopleOK
  <2> HIDE DEF old
  <2>3. IsIdentity(row) /\ row.ext = rec.ext /\ row.id = old.id
    BY <2>2, IdentityKept
  <2> HIDE DEF row
  <2>4. PeopleOK'
    BY <1>1, <1>2, <2>1, <2>3 DEF PeopleOK
  <2>5. \A e \in DOMAIN identities : e \in DOMAIN identities' /\ identities'[e].id = identities[e].id
    BY <1>1, <1>2, <2>1, <2>3 DEF old
  <2> QED BY <2>4, <2>5 DEF KnownIds
<1>4. CASE rec.ext \notin DOMAIN identities
  <2>1. identities'[rec.ext] = rec
    BY <1>4 DEF UpsertIdentity, Put
  <2>2. PeopleOK'
    BY <1>1, <1>2, <2>1 DEF PeopleOK
  <2>3. \A e \in DOMAIN identities : e \in DOMAIN identities' /\ identities'[e].id = identities[e].id
    BY <1>1, <1>2, <1>4
  <2> QED BY <2>2, <2>3 DEF KnownIds
<1> QED BY <1>3, <1>4

----------------------------------------------------------------------------
(* The other tables. *)

CredentialsOK == \A k \in DOMAIN credentials : credentials[k][1] \in KnownIds

RolesOK == \A e \in DOMAIN roles : /\ roles[e].level \in DOMAIN LevelRank
                                   /\ roles[e].owner \in KnownIds

TrustOK == \A k \in DOMAIN trust : {k.src, k.dst} \subseteq KnownIds

BindingsOK == \A k \in DOMAIN bindings : /\ RoleId(k[1]) \in KnownIds
                                         /\ bindings[k] \in DOMAIN CriticalityRank

WorkloadsOK == \A w \in DOMAIN workloads : workloads[w] \in KnownIds

RowsOK == CredentialsOK /\ RolesOK /\ TrustOK /\ BindingsOK /\ WorkloadsOK

LEMMA RowsStay ==
    ASSUME RowsOK, KnownIds \subseteq KnownIds',
           UNCHANGED <<credentials, roles, trust, bindings, workloads>>
    PROVE  RowsOK'
<1>1. CredentialsOK'
  BY DEF RowsOK, CredentialsOK
<1>2. RolesOK'
  BY DEF RowsOK, RolesOK, LevelRank
<1>3. TrustOK'
  BY DEF RowsOK, TrustOK
<1>4. BindingsOK'
  BY DEF RowsOK, BindingsOK, RoleId, CriticalityRank
<1>5. WorkloadsOK'
  BY DEF RowsOK, WorkloadsOK
<1> QED BY <1>1, <1>2, <1>3, <1>4, <1>5 DEF RowsOK

(* A row is written only when what it refers to is there. *)
LEMMA WriteKeepsRows ==
    ASSUME RowsOK, NEW rec, IsRow(rec), rec.refs \subseteq KnownIds, Write(rec),
           UNCHANGED identities
    PROVE  RowsOK' /\ KnownIds \subseteq KnownIds'
<1>1. DOMAIN roles \subseteq DOMAIN roles'
  BY DEF Write, UpsertRole, Put
<1>2. KnownIds \subseteq KnownIds'
  BY <1>1 DEF KnownIds
<1>3. CredentialsOK'
  <2>1. CASE rec.table = "credential"
    <3> DEFINE value == IF rec.key \in DOMAIN credentials
                        THEN <<credentials[rec.key][1], rec.value[2]>> ELSE rec.value
    <3>1. credentials' = Put(credentials, rec.key, value)
      BY <2>1 DEF Write, UpsertCredential
    <3>2. value[1] \in KnownIds
      BY <2>1 DEF IsRow, RowsOK, CredentialsOK
    <3> HIDE DEF value
    <3> QED BY <1>2, <3>1, <3>2 DEF Put, RowsOK, CredentialsOK
  <2>2. CASE rec.table # "credential"
    BY <1>2, <2>2 DEF Write, RowsOK, CredentialsOK
  <2> QED BY <2>1, <2>2
<1>4. RolesOK'
  <2>1. CASE rec.table = "role"
    <3>1. roles' = Put(roles, rec.key, rec.value)
      BY <2>1 DEF Write, UpsertRole
    <3>2. rec.value.owner \in KnownIds /\ rec.value.level \in DOMAIN LevelRank
      BY <2>1 DEF IsRow
    <3> QED BY <1>2, <3>1, <3>2 DEF Put, RowsOK, RolesOK
  <2>2. CASE rec.table # "role"
    BY <1>2, <2>2 DEF Write, RowsOK, RolesOK
  <2> QED BY <2>1, <2>2
<1>5. TrustOK'
  <2>1. CASE rec.table = "trust"
    <3>1. trust' = Put(trust, rec.key, rec.value)
      BY <2>1 DEF Write, UpsertTrust
    <3>2. {rec.key.src, rec.key.dst} \subseteq KnownIds
      BY <2>1 DEF IsRow
    <3> QED BY <1>2, <3>1, <3>2 DEF Put, RowsOK, TrustOK
  <2>2. CASE rec.table # "trust"
    BY <1>2, <2>2 DEF Write, RowsOK, TrustOK
  <2> QED BY <2>1, <2>2
<1>6. BindingsOK'
  <2>1. CASE rec.table = "binding"
    <3>1. bindings' = Put(bindings, rec.key, rec.value)
      BY <2>1 DEF Write, UpsertBinding
    <3>2. RoleId(rec.key[1]) \in KnownIds /\ rec.value \in DOMAIN CriticalityRank
      BY <2>1 DEF IsRow
    <3> QED BY <1>2, <3>1, <3>2 DEF Put, RowsOK, BindingsOK
  <2>2. CASE rec.table # "binding"
    BY <1>2, <2>2 DEF Write, RowsOK, BindingsOK
  <2> QED BY <2>1, <2>2
<1>7. WorkloadsOK'
  <2>1. CASE rec.table = "workload"
    <3>1. workloads' = Put(workloads, rec.key, rec.value)
      BY <2>1 DEF Write, UpsertWorkload
    <3>2. rec.value \in KnownIds
      BY <2>1 DEF IsRow
    <3> QED BY <1>2, <3>1, <3>2 DEF Put, RowsOK, WorkloadsOK
  <2>2. CASE rec.table # "workload"
    BY <1>2, <2>2 DEF Write, RowsOK, WorkloadsOK
  <2> QED BY <2>1, <2>2
<1> QED BY <1>2, <1>3, <1>4, <1>5, <1>6, <1>7 DEF RowsOK

----------------------------------------------------------------------------
(* Every installation's collectors hold a version of their account and a batch. *)

CollectorsOK ==
    /\ DOMAIN estate \subseteq Collectors
    /\ DOMAIN batch = DOMAIN estate
    /\ \A c \in DOMAIN estate : estate[c] \in DOMAIN Versions[c] /\ IsBatch(batch[c])

CountsOK == changes \in 0 .. MaxChanges /\ faults \in 0 .. MaxFaults

TypeInv == CollectorsOK /\ PeopleOK /\ RowsOK /\ CountsOK

LEMMA InvSuffices == TypeInv => TypeOK
<1> SUFFICES ASSUME TypeInv PROVE TypeOK
  OBVIOUS
<1>1. ASSUME NEW e \in DOMAIN identities
      PROVE  /\ identities[e].id[2] = e
             /\ identities[e].state \in {"active", "disabled"}
             /\ {identities[e].detailed, identities[e].seen, identities[e].created} \subseteq BOOLEAN
  <2> DEFINE row == identities[e]
  <2>1. row.ext = e /\ IsIdentity(row)
    BY DEF TypeInv, PeopleOK
  <2>2. row.id = <<row.id[1], row.ext>>
    <3> HIDE DEF row
    <3>1. [Identity(row.ext, row.id[1], row.detailed, row.state, row.seen)
             EXCEPT !.created = row.created].id = <<row.id[1], row.ext>>
      BY DEF Identity
    <3> QED BY <2>1, <3>1 DEF IsIdentity
  <2> QED BY <2>1, <2>2 DEF IsIdentity
<1> QED
  BY <1>1 DEF TypeInv, RowsOK, CredentialsOK, RolesOK, TrustOK, BindingsOK, WorkloadsOK,
              CountsOK, TypeOK

LEMMA InitInv == Init => TypeInv
<1> SUFFICES ASSUME Init PROVE TypeInv
  OBVIOUS
<1>1. CollectorsOK
  BY InventoryAssumption, IdleIsBatch DEF Init, CollectorsOK, Collectors
<1>2. PeopleOK /\ RowsOK
  <2>1. DOMAIN <<>> = {}
    OBVIOUS
  <2> QED BY <2>1 DEF Init, PeopleOK, RowsOK, CredentialsOK, RolesOK, TrustOK, BindingsOK,
                      WorkloadsOK
<1>3. CountsOK
  BY InventoryAssumption DEF Init, CountsOK
<1> QED BY <1>1, <1>2, <1>3 DEF TypeInv

(* A collector's batch is replaced by another one. *)
LEMMA BatchReplaced ==
    ASSUME CollectorsOK, NEW c \in Running, NEW b, IsBatch(b), UNCHANGED estate,
           batch' = [batch EXCEPT ![c] = b]
    PROVE  CollectorsOK'
BY DEF CollectorsOK, Running

LEMMA TablesStay ==
    ASSUME PeopleOK, RowsOK, UNCHANGED tables
    PROVE  PeopleOK' /\ RowsOK'
<1>1. UNCHANGED <<identities, credentials, roles, trust, bindings, workloads>>
  BY DEF tables
<1>2. KnownIds' = KnownIds
  BY <1>1 DEF KnownIds
<1> QED BY <1>1, <1>2, RowsStay DEF PeopleOK

LEMMA SkipsCounted ==
    ASSUME NEW c, NEW skipped \in Skips(c)
    PROVE  Cardinality(skipped) \in Nat
<1>1. CASE skipped = {}
  BY <1>1, FS_EmptySet
<1>2. CASE skipped # {}
  <2>1. PICK p \in Skippable(c) : skipped = {p}
    BY <1>2 DEF Skips
  <2> QED BY <2>1, FS_Singleton
<1> QED BY <1>1, <1>2

----------------------------------------------------------------------------
(* One lemma for each action. *)

LEMMA CollectStep ==
    ASSUME BuildersAgree, TypeInv, NEW c \in Running, Collect(c)
    PROVE  TypeInv'
<1>1. PICK skipped \in Skips(c) :
         /\ faults + Cardinality(skipped) <= MaxFaults
         /\ faults' = faults + Cardinality(skipped)
         /\ \E result \in Outcomes[<<c, estate[c]>>][skipped] :
              batch' = [batch EXCEPT ![c] = result]
  BY DEF Collect
<1>2. PICK result \in Outcomes[<<c, estate[c]>>][skipped] : batch' = [batch EXCEPT ![c] = result]
  BY <1>1
<1>3. <<c, estate[c]>> \in Snapshot
  BY DEF TypeInv, CollectorsOK, Running, Snapshot
<1>4. IsBatch(result)
  <2> DEFINE s == <<c, estate[c]>>
  <2>1. s \in Snapshot /\ s[1] = c
    BY <1>3
  <2>2. skipped \in Skips(s[1])
    BY <1>1, <2>1
  <2> HIDE DEF s
  <2>3. result \in Outcomes[s][skipped]
    BY <1>2 DEF s
  <2> QED BY <2>1, <2>2, <2>3 DEF BuildersAgree
<1>5. UNCHANGED <<estate, tables, changes>>
  BY DEF Collect
<1>6. CollectorsOK'
  BY <1>2, <1>4, <1>5, BatchReplaced DEF TypeInv
<1>7. CountsOK'
  BY <1>1, <1>5, SkipsCounted, InventoryAssumption DEF TypeInv, CountsOK
<1> QED BY <1>5, <1>6, <1>7, TablesStay DEF TypeInv

LEMMA AbortStep ==
    ASSUME TypeInv, NEW c \in Running, Abort(c)
    PROVE  TypeInv'
<1>1. CollectorsOK'
  BY IdleIsBatch, BatchReplaced DEF TypeInv, Abort
<1>2. CountsOK'
  BY InventoryAssumption DEF TypeInv, CountsOK, Abort
<1> QED BY <1>1, <1>2, TablesStay DEF TypeInv, Abort

LEMMA ChangeStep ==
    ASSUME TypeInv, NEW c \in Running, Change(c)
    PROVE  TypeInv'
<1>1. CollectorsOK'
  <2>1. PICK v \in DOMAIN Versions[c] \ {estate[c]} : estate' = [estate EXCEPT ![c] = v]
    BY DEF Change
  <2> QED BY <2>1 DEF TypeInv, CollectorsOK, Change, Running
<1>2. CountsOK'
  BY InventoryAssumption DEF TypeInv, CountsOK, Change
<1> QED BY <1>1, <1>2, TablesStay DEF TypeInv, Change

LEMMA StoreIdentityStep ==
    ASSUME TypeInv, NEW c \in Running, StoreIdentity(c)
    PROVE  TypeInv'
<1> DEFINE b == batch[c]
<1>1. PICK rec \in b.identities :
         /\ batch' = [batch EXCEPT ![c].identities = @ \ {rec}]
         /\ identities' = UpsertIdentity(identities, rec)
         /\ UNCHANGED <<estate, credentials, roles, trust, bindings, workloads, changes, faults>>
  BY DEF StoreIdentity
<1>2. IsBatch(b)
  BY DEF TypeInv, CollectorsOK, Running
<1>3. IsIdentity(rec)
  BY <1>1, <1>2 DEF IsBatch
<1>4. CollectorsOK'
  <2>1. batch' = [batch EXCEPT ![c] = [b EXCEPT !.identities = @ \ {rec}]]
    BY <1>1
  <2>2. IsBatch([b EXCEPT !.identities = @ \ {rec}])
    <3> HIDE DEF b
    <3> QED BY <1>2, IdentityStored
  <2> QED BY <1>1, <2>1, <2>2, BatchReplaced DEF TypeInv
<1>5. PeopleOK' /\ KnownIds \subseteq KnownIds'
  BY <1>1, <1>3, UpsertKeepsIds DEF TypeInv
<1>6. RowsOK'
  BY <1>1, <1>5, RowsStay DEF TypeInv
<1>7. CountsOK'
  BY <1>1 DEF TypeInv, CountsOK
<1> QED BY <1>4, <1>5, <1>6, <1>7 DEF TypeInv

LEMMA StoreNextStep ==
    ASSUME TypeInv, NEW c \in Running, StoreNext(c)
    PROVE  TypeInv'
<1> DEFINE b == batch[c]
<1>1. /\ b.rest # <<>>
      /\ batch' = [batch EXCEPT ![c].rest = Tail(@)]
      /\ UNCHANGED <<estate, identities, changes, faults>>
  BY DEF StoreNext
<1>2. IsBatch(b)
  BY DEF TypeInv, CollectorsOK, Running
<1>3. IsBatch([b EXCEPT !.rest = Tail(@)]) /\ IsRow(Head(b.rest))
  <2> HIDE DEF b
  <2> QED BY <1>1, <1>2, RowStored
<1>4. CollectorsOK'
  <2>1. batch' = [batch EXCEPT ![c] = [b EXCEPT !.rest = Tail(@)]]
    BY <1>1
  <2> QED BY <1>1, <1>3, <2>1, BatchReplaced DEF TypeInv
<1>5. RowsOK'
  <2> DEFINE rec == Head(b.rest)
  <2>1. CASE rec.refs \subseteq KnownIds
    <3>1. Write(rec)
      BY <2>1 DEF StoreNext
    <3> HIDE DEF rec
    <3>2. IsRow(rec)
      BY <1>3 DEF rec
    <3> QED BY <1>1, <2>1, <3>1, <3>2, WriteKeepsRows DEF TypeInv
  <2>2. CASE ~(rec.refs \subseteq KnownIds)
    <3>1. UNCHANGED <<credentials, roles, trust, bindings, workloads>>
      BY <2>2 DEF StoreNext
    <3>2. KnownIds' = KnownIds
      BY <1>1, <3>1 DEF KnownIds
    <3> QED BY <3>1, <3>2, RowsStay DEF TypeInv
  <2> QED BY <2>1, <2>2
<1>6. PeopleOK' /\ CountsOK'
  BY <1>1 DEF TypeInv, PeopleOK, CountsOK
<1> QED BY <1>4, <1>5, <1>6 DEF TypeInv

LEMMA StoreFailsStep ==
    ASSUME TypeInv, NEW c \in Running, StoreFails(c)
    PROVE  TypeInv'
<1> DEFINE b == batch[c]
<1>1. IsBatch(b)
  BY DEF TypeInv, CollectorsOK, Running
<1>2. /\ UNCHANGED <<estate, tables, changes>>
      /\ faults < MaxFaults /\ faults' = faults + 1
  BY DEF StoreFails
<1>3. ASSUME \E rec \in b.identities : batch' = [batch EXCEPT ![c].identities = @ \ {rec}]
      PROVE  CollectorsOK'
  <2>1. PICK rec \in b.identities : batch' = [batch EXCEPT ![c].identities = @ \ {rec}]
    BY <1>3
  <2>2. batch' = [batch EXCEPT ![c] = [b EXCEPT !.identities = @ \ {rec}]]
    BY <2>1
  <2>3. IsBatch([b EXCEPT !.identities = @ \ {rec}])
    <3> HIDE DEF b
    <3> QED BY <1>1, IdentityStored
  <2> QED BY <1>2, <2>2, <2>3, BatchReplaced DEF TypeInv
<1>4. ASSUME b.rest # <<>>, batch' = [batch EXCEPT ![c].rest = Tail(@)]
      PROVE  CollectorsOK'
  <2>1. batch' = [batch EXCEPT ![c] = [b EXCEPT !.rest = Tail(@)]]
    BY <1>4
  <2>2. IsBatch([b EXCEPT !.rest = Tail(@)])
    <3> HIDE DEF b
    <3> QED BY <1>1, <1>4, RowStored
  <2> QED BY <1>2, <2>1, <2>2, BatchReplaced DEF TypeInv
<1>5. CollectorsOK'
  BY <1>3, <1>4 DEF StoreFails
<1>6. CountsOK'
  BY <1>2, InventoryAssumption DEF TypeInv, CountsOK
<1> QED BY <1>2, <1>5, <1>6, TablesStay DEF TypeInv

LEMMA StepInv ==
    ASSUME BuildersAgree, TypeInv, [Next]_vars
    PROVE  TypeInv'
<1>1. CASE UNCHANGED vars
  <2>1. UNCHANGED <<estate, batch, tables, changes, faults>>
    BY <1>1 DEF vars
  <2>2. PeopleOK' /\ RowsOK'
    BY <2>1, TablesStay DEF TypeInv
  <2> QED BY <2>1, <2>2 DEF TypeInv, CollectorsOK, CountsOK
<1>2. ASSUME NEW c \in Running, Proceed(c)
      PROVE  TypeInv'
  BY <1>2, CollectStep, StoreIdentityStep, StoreNextStep DEF Proceed
<1>3. ASSUME NEW c \in Running, Change(c) \/ Abort(c) \/ StoreFails(c)
      PROVE  TypeInv'
  BY <1>3, ChangeStep, AbortStep, StoreFailsStep
<1> QED BY <1>1, <1>2, <1>3 DEF Next

(* Every row of the inventory has the shape of its table, and whatever a row refers   *)
(* to is there: whichever collectors run side by side, whatever changes in the        *)
(* providers and whichever upserts fail, the statements of the upsert loops keep the  *)
(* foreign keys (collectors.Run, the ON CONFLICT clauses).                            *)
THEOREM TypeCorrect ==
    ASSUME BuildersAgree
    PROVE  Spec => []TypeOK
<1>1. Init => TypeInv
  BY InitInv
<1>2. TypeInv /\ [Next]_vars => TypeInv'
  BY StepInv
<1>3. TypeInv => TypeOK
  BY InvSuffices
<1> QED BY <1>1, <1>2, <1>3, PTL DEF Spec
=============================================================================
