--------------------------- MODULE MigratorProofs ---------------------------
(***************************************************************************)
(* Theorems of Migrator for any number of migrators, releases, files and   *)
(* faults.                                                                 *)
(*   TypeCorrect           the type invariant                              *)
(*   EachAppliedOnce       statements are committed once, with their row   *)
(*   AppliedInOrder        what is recorded is a prefix of the files       *)
(*   SuccessMeansMigrated  exit code 0 means that nothing is missing       *)
(***************************************************************************)
EXTENDS Migrator, WellFoundedInduction, TLAPS

-----------------------------------------------------------------------------
(* Types.                                                                  *)

Places == {"start", "ensured", "begin", "opened", "executed", "inserted"} \cup Ended

\* Where a process is at a file, and where its transaction holds the file's lock.
AtFile == {"begin", "opened", "executed", "inserted"}
Holding == {"executed", "inserted"}

ProcType == [Migrators -> [at : Places, done : SUBSET Names, next : Nat]]

\* TypeOK with the domains it leaves open, and what the places say of the state.
TypeInv ==
    /\ TypeOK
    /\ recorded \subseteq Names
    /\ effects \in [Names -> Nat]
    /\ proc \in ProcType
    /\ used \in [Migrators -> Nat]
    /\ \A m \in Migrators : proc[m].at \in AtFile => proc[m].next \in 1..Release[m]
    /\ \A m \in Migrators : proc[m].at \in {"ensured", "ok"} \cup AtFile => table = TRUE

LEMMA FileType ==
  ASSUME NEW m \in Migrators, NEW i \in 1..Release[m]
  PROVE  /\ Release[m] \in Nat /\ Release[m] <= Len(Files) /\ Len(Files) \in Nat
         /\ i \in 1..Len(Files) /\ i \in DOMAIN Files /\ Files[i] \in Names
<1>1. Release[m] \in 0..Len(Files) /\ Files \in Seq(Names) BY MigratorAssumption
<1>2. Len(Files) \in Nat /\ DOMAIN Files = 1..Len(Files) BY <1>1
<1>3. i \in DOMAIN Files BY <1>1, <1>2
<1> QED BY <1>1, <1>2, <1>3 DEF Names

Below == {p \in Nat \X Nat : p[1] < p[2]}

\* A set of numbers has a least one: the CHOOSE of Pending chooses.
LEMMA Least ==
  ASSUME NEW S, S \subseteq Nat, S # {}
  PROVE  \E j \in S : \A k \in S : j <= k
<1>1. PICK j \in S : \A k \in S : ~ (<<k, j>> \in Below)
  <2>1. IsWellFoundedOn(Below, Nat)
    BY NatLessThanWellFounded DEF Below, OpToRel
  <2> QED BY <2>1, WFMin
<1>2. ASSUME NEW k \in S PROVE j <= k
  <2>1. <<k, j>> \in Nat \X Nat OBVIOUS
  <2>2. k < j => <<k, j>> \in Below BY <2>1 DEF Below
  <2> QED BY <1>1, <2>1, <2>2
<1> QED BY <1>2

\* Pending finds the first file of the rest that was not read as applied, or none.
LEMMA PendingFinds ==
  ASSUME NEW m \in Migrators, NEW done, NEW i \in Nat \ {0}
  PROVE  LET j == Pending(m, done, i)
         IN \/ /\ j = 0
               /\ \A k \in i..Release[m] : Files[k] \in done
            \/ /\ j # 0 /\ j \in 1..Release[m] /\ j >= i
               /\ \A k \in i..(j - 1) : Files[k] \in done
<1> DEFINE S == {k \in i..Release[m] : Files[k] \notin done}
           j == Pending(m, done, i)
<1>1. Release[m] \in Nat BY MigratorAssumption
<1>2. CASE S = {}
  BY <1>1, <1>2 DEF Pending
<1>3. CASE S # {}
  <2>1. S \subseteq Nat BY <1>1
  <2>2. j = CHOOSE x \in S : \A k \in S : x <= k BY <1>3 DEF Pending
  <2>3. j \in S /\ \A k \in S : j <= k
    <3>1. \E x \in S : \A k \in S : x <= k BY <1>3, <2>1, Least
    <3> QED BY <2>2, <3>1
  <2>4. j # 0 /\ j \in 1..Release[m] /\ j >= i BY <1>1, <2>3
  <2>5. ASSUME NEW k \in i..(j - 1) PROVE Files[k] \in done
    <3>1. k \in i..Release[m] /\ ~ (j <= k) BY <1>1, <2>4
    <3> QED BY <2>3, <3>1
  <2> HIDE DEF j, S
  <2> QED BY <2>4, <2>5 DEF j
<1> QED BY <1>2, <1>3

\* Where Continue leads.
LEMMA ContinueLeads ==
  ASSUME TypeInv, NEW m \in Migrators, NEW done \in SUBSET Names, NEW i \in Nat \ {0},
         Continue(m, done, i)
  PROVE  /\ proc' \in ProcType
         /\ \A n \in Migrators \ {m} : proc'[n] = proc[n]
         /\ proc'[m].done = done
         /\ \/ /\ proc'[m].at = "ok"
               /\ \A k \in i..Release[m] : Files[k] \in done
            \/ /\ proc'[m].at = "begin"
               /\ proc'[m].next \in 1..Release[m]
               /\ proc'[m].next >= i
               /\ \A k \in i..(proc'[m].next - 1) : Files[k] \in done
<1> DEFINE j == Pending(m, done, i)
           rec == [at |-> IF j = 0 THEN "ok" ELSE "begin", done |-> done,
                   next |-> IF j = 0 THEN 1 ELSE j]
<1>1. Release[m] \in Nat BY MigratorAssumption
<1>2. proc' = [proc EXCEPT ![m] = rec] BY DEF Continue
<1>3. proc \in ProcType BY DEF TypeInv
<1>4. \/ j = 0 /\ \A k \in i..Release[m] : Files[k] \in done
      \/ /\ j # 0 /\ j \in 1..Release[m] /\ j >= i
         /\ \A k \in i..(j - 1) : Files[k] \in done
  BY PendingFinds
<1> HIDE DEF j
<1>5. rec \in [at : Places, done : SUBSET Names, next : Nat]
  BY <1>1, <1>4 DEF Places, Ended
<1>6. proc' \in ProcType /\ proc'[m] = rec /\ \A n \in Migrators \ {m} : proc'[n] = proc[n]
  BY <1>2, <1>3, <1>5 DEF ProcType
<1> QED BY <1>4, <1>6

LEMMA GoesLeads ==
  ASSUME TypeInv, NEW m \in Migrators, NEW at \in Places, Goes(m, at)
  PROVE  /\ proc' \in ProcType
         /\ \A n \in Migrators \ {m} : proc'[n] = proc[n]
         /\ proc'[m].at = at /\ proc'[m].done = proc[m].done /\ proc'[m].next = proc[m].next
BY DEF TypeInv, ProcType, Goes

\* A step of one process keeps the types, if what it does to the process and the
\* tables has them.
LEMMA TypeKept ==
  ASSUME TypeInv, NEW m \in Migrators,
         proc' \in ProcType, \A n \in Migrators \ {m} : proc'[n] = proc[n],
         table' \in BOOLEAN, table = TRUE => table' = TRUE,
         recorded \subseteq recorded', recorded' \subseteq Names, recorded' # {} => table' = TRUE,
         effects' \in [Names -> Nat],
         used' \in [Migrators -> Nat], \A n \in Migrators : used'[n] \in 1..Attempts[n],
         faults' \in 0..MaxFaults,
         proc'[m].done \subseteq recorded',
         proc'[m].at \in AtFile => proc'[m].next \in 1..Release[m],
         proc'[m].at \in {"ensured", "ok"} \cup AtFile => table' = TRUE
  PROVE  TypeInv'
<1>1. ASSUME NEW n \in Migrators
      PROVE  /\ proc'[n].at \in Places
             /\ proc'[n].done \subseteq recorded'
             /\ proc'[n].at \in AtFile => proc'[n].next \in 1..Release[n]
             /\ proc'[n].at \in {"ensured", "ok"} \cup AtFile => table' = TRUE
  <2>1. proc'[n].at \in Places BY DEF ProcType
  <2>2. CASE n = m BY <2>1, <2>2
  <2>3. CASE n # m
    <3>1. proc'[n] = proc[n] BY <2>3
    <3>2. proc[n].done \subseteq recorded BY DEF TypeInv, TypeOK
    <3>3. proc[n].at \in AtFile => proc[n].next \in 1..Release[n] BY DEF TypeInv
    <3>4. proc[n].at \in {"ensured", "ok"} \cup AtFile => table = TRUE BY DEF TypeInv
    <3> QED BY <2>1, <3>1, <3>2, <3>3, <3>4
  <2> QED BY <2>2, <2>3
<1>2. TypeOK'
  BY <1>1 DEF TypeOK, InTx, AtFile, Places
<1> QED BY <1>1, <1>2 DEF TypeInv

LEMMA TypeInit == Init => TypeInv
<1> SUFFICES ASSUME Init PROVE TypeInv OBVIOUS
<1>1. \A m \in Migrators : Attempts[m] \in Nat \ {0} BY MigratorAssumption
<1>2. MaxFaults \in Nat BY MigratorAssumption
<1>3. proc \in ProcType BY DEF Init, Start, ProcType, Places
<1>4. \A m \in Migrators : proc[m].at = "start" /\ proc[m].done = {} BY DEF Init, Start
<1>5. \A m \in Migrators : used[m] \in 1..Attempts[m] BY <1>1 DEF Init
<1>6. effects \in [Names -> Nat] /\ used \in [Migrators -> Nat] BY DEF Init
<1>7. /\ table \in BOOLEAN /\ recorded \subseteq Names
      /\ recorded = {} /\ faults \in 0..MaxFaults
  <2>1. table = FALSE /\ recorded = {} /\ faults = 0 BY DEF Init
  <2>2. table \in BOOLEAN BY <2>1
  <2>3. faults \in 0..MaxFaults BY <1>2, <2>1
  <2>4. recorded \subseteq Names BY <2>1
  <2> QED BY <2>1, <2>2, <2>3, <2>4
<1>8. TypeOK BY <1>4, <1>5, <1>6, <1>7 DEF TypeOK, InTx, Ended
<1> QED BY <1>3, <1>4, <1>6, <1>7, <1>8 DEF TypeInv, AtFile

\* What a file's commit makes of the tables.
LEMMA CommittedType ==
  ASSUME TypeInv, NEW m \in Migrators, proc[m].at = "inserted", Committed(m)
  PROVE  /\ File(m) \in Names
         /\ recorded \subseteq recorded' /\ recorded' \subseteq Names
         /\ effects' \in [Names -> Nat]
         /\ table = TRUE
<1>1. proc[m].next \in 1..Release[m] /\ table = TRUE BY DEF TypeInv, AtFile
<1>2. File(m) \in Names BY <1>1, FileType DEF File
<1> QED BY <1>1, <1>2 DEF TypeInv, Committed

\* What TypeInv says of a process, once more.
LEMMA ProcFacts ==
  ASSUME TypeInv, NEW m \in Migrators
  PROVE  /\ proc[m].at \in Places /\ proc[m].next \in Nat
         /\ proc[m].done \in SUBSET Names /\ proc[m].done \subseteq recorded
         /\ proc[m].at \in AtFile => proc[m].next \in 1..Release[m] /\ File(m) \in Names
         /\ proc[m].at \in {"ensured", "ok"} \cup AtFile => table = TRUE
         /\ used[m] \in 1..Attempts[m] /\ used[m] \in Nat
<1>1. /\ proc[m].at \in Places /\ proc[m].next \in Nat /\ proc[m].done \in SUBSET Names
  BY DEF TypeInv, ProcType
<1>2. /\ proc[m].done \subseteq recorded /\ used[m] \in 1..Attempts[m]
  BY DEF TypeInv, TypeOK
<1>3. /\ proc[m].at \in AtFile => proc[m].next \in 1..Release[m]
      /\ proc[m].at \in {"ensured", "ok"} \cup AtFile => table = TRUE
      /\ used[m] \in Nat
  BY DEF TypeInv
<1>4. proc[m].at \in AtFile => File(m) \in Names BY <1>3, FileType DEF File
<1> QED BY <1>1, <1>2, <1>3, <1>4

LEMMA TypeStep == TypeInv /\ [Next]_vars => TypeInv'
<1> SUFFICES ASSUME TypeInv, [Next]_vars PROVE TypeInv' OBVIOUS
<1>0. /\ table \in BOOLEAN /\ recorded \subseteq Names /\ effects \in [Names -> Nat]
      /\ used \in [Migrators -> Nat] /\ faults \in 0..MaxFaults
      /\ \A n \in Migrators : used[n] \in 1..Attempts[n]
      /\ recorded # {} => table = TRUE
      /\ proc \in ProcType
  BY DEF TypeInv, TypeOK
<1> USE DEF Places, Ended, AtFile
<1>1. ASSUME NEW m \in Migrators, EnsureTable(m) PROVE TypeInv'
  <2>1. CASE table' = TRUE /\ Goes(m, "ensured")
    <3>1. /\ proc' \in ProcType
          /\ \A n \in Migrators \ {m} : proc'[n] = proc[n]
          /\ proc'[m].at = "ensured" /\ proc'[m].done = proc[m].done
      BY <2>1, GoesLeads
    <3> QED BY <1>0, <1>1, <2>1, <3>1, ProcFacts, TypeKept DEF EnsureTable
  <2>2. CASE /\ table' = TRUE
             /\ \E n \in Migrators \ {m} : proc[n].at = "start"
             /\ proc' = [proc EXCEPT ![m].at = "ensured",
                           ![CHOOSE n \in Migrators \ {m} : proc[n].at = "start"].at = "error"]
    <3> DEFINE o == CHOOSE n \in Migrators \ {m} : proc[n].at = "start"
    <3>1. o \in Migrators \ {m} BY <2>2
    <3> HIDE DEF o
    <3> DEFINE first == [proc EXCEPT ![m].at = "ensured"]
    <3>2. proc' = [first EXCEPT ![o].at = "error"] BY <2>2 DEF o
    <3>3. /\ first \in ProcType /\ first[m].at = "ensured"
          /\ \A n \in Migrators : first[n].done = proc[n].done /\ first[n].next = proc[n].next
          /\ \A n \in Migrators \ {m} : first[n].at = proc[n].at
      BY <1>0 DEF ProcType
    <3> HIDE DEF first
    <3>4. /\ proc' \in ProcType
          /\ \A n \in Migrators : proc'[n].done = proc[n].done /\ proc'[n].next = proc[n].next
          /\ proc'[m].at = "ensured" /\ proc'[o].at = "error"
          /\ \A n \in Migrators \ {m, o} : proc'[n].at = proc[n].at
      BY <3>1, <3>2, <3>3 DEF ProcType
    <3>5. ASSUME NEW n \in Migrators
          PROVE  /\ proc'[n].at \in Places
                 /\ proc'[n].done \subseteq recorded
                 /\ proc'[n].at \in AtFile => proc'[n].next \in 1..Release[n]
      BY <3>1, <3>4, ProcFacts
    <3>6. TypeOK' BY <1>0, <1>1, <2>2, <3>5 DEF EnsureTable, TypeOK, InTx
    <3> QED BY <1>0, <1>1, <2>2, <3>4, <3>5, <3>6 DEF EnsureTable, TypeInv
  <2> QED BY <1>1, <2>1, <2>2 DEF EnsureTable
<1>2. ASSUME NEW m \in Migrators, Applied(m) PROVE TypeInv'
  <2>1. Continue(m, recorded, 1) /\ UNCHANGED <<table, recorded, effects, used, faults>>
        /\ table = TRUE
    BY <1>2, ProcFacts DEF Applied
  <2>2. /\ proc' \in ProcType
        /\ \A n \in Migrators \ {m} : proc'[n] = proc[n]
        /\ proc'[m].done = recorded
        /\ proc'[m].at = "begin" => proc'[m].next \in 1..Release[m]
        /\ proc'[m].at \in {"ok", "begin"}
    BY <1>0, <2>1, ContinueLeads
  <2> QED BY <1>0, <2>1, <2>2, TypeKept
<1>3. ASSUME NEW m \in Migrators, Begin(m) PROVE TypeInv'
  <2>1. /\ proc' \in ProcType
        /\ \A n \in Migrators \ {m} : proc'[n] = proc[n]
        /\ proc'[m].at = "opened" /\ proc'[m].done = proc[m].done /\ proc'[m].next = proc[m].next
    BY <1>3, GoesLeads DEF Begin
  <2> QED BY <1>0, <1>3, <2>1, ProcFacts, TypeKept DEF Begin
<1>4. ASSUME NEW m \in Migrators, Exec(m) PROVE TypeInv'
  <2>1. Goes(m, "executed") \/ Goes(m, "error") BY <1>4 DEF Exec, Exits
  <2>2. /\ proc' \in ProcType
        /\ \A n \in Migrators \ {m} : proc'[n] = proc[n]
        /\ proc'[m].at \in {"executed", "error"}
        /\ proc'[m].done = proc[m].done /\ proc'[m].next = proc[m].next
    BY <2>1, GoesLeads
  <2> QED BY <1>0, <1>4, <2>2, ProcFacts, TypeKept DEF Exec
<1>5. ASSUME NEW m \in Migrators, Record(m) PROVE TypeInv'
  <2>1. Goes(m, "inserted") \/ Goes(m, "error") BY <1>5 DEF Record, Exits
  <2>2. /\ proc' \in ProcType
        /\ \A n \in Migrators \ {m} : proc'[n] = proc[n]
        /\ proc'[m].at \in {"inserted", "error"}
        /\ proc'[m].done = proc[m].done /\ proc'[m].next = proc[m].next
    BY <2>1, GoesLeads
  <2> QED BY <1>0, <1>5, <2>2, ProcFacts, TypeKept DEF Record
<1>6. ASSUME NEW m \in Migrators, Commit(m) PROVE TypeInv'
  <2>1. /\ proc[m].at = "inserted" /\ Committed(m)
        /\ Continue(m, proc[m].done, proc[m].next + 1)
        /\ UNCHANGED <<table, used, faults>>
    BY <1>6 DEF Commit
  <2>2. proc[m].next + 1 \in Nat \ {0} /\ proc[m].done \in SUBSET Names
    <3>1. proc[m].next \in Nat /\ proc[m].done \in SUBSET Names BY ProcFacts
    <3> QED BY <3>1
  <2>3. /\ proc' \in ProcType
        /\ \A n \in Migrators \ {m} : proc'[n] = proc[n]
        /\ proc'[m].done = proc[m].done
        /\ proc'[m].at = "begin" => proc'[m].next \in 1..Release[m]
        /\ proc'[m].at \in {"ok", "begin"}
    BY <2>1, <2>2, ContinueLeads
  <2>4. /\ recorded \subseteq recorded' /\ recorded' \subseteq Names
        /\ effects' \in [Names -> Nat] /\ table = TRUE
    BY <2>1, CommittedType
  <2>5. proc'[m].done \subseteq recorded' BY <2>3, <2>4, ProcFacts
  <2> QED BY <1>0, <2>1, <2>3, <2>4, <2>5, TypeKept
<1>7. ASSUME NEW m \in Migrators, Fault(m) PROVE TypeInv'
  <2>1. /\ proc' \in ProcType
        /\ \A n \in Migrators \ {m} : proc'[n] = proc[n]
        /\ proc'[m].at = "error" /\ proc'[m].done = proc[m].done
    BY <1>7, GoesLeads DEF Fault, Exits
  <2>2. /\ recorded \subseteq recorded' /\ recorded' \subseteq Names
        /\ effects' \in [Names -> Nat]
        /\ recorded' # {} => table = TRUE
    BY <1>0, <1>7, CommittedType DEF Fault
  <2>3. faults' \in 0..MaxFaults BY <1>0, <1>7, MigratorAssumption DEF Fault
  <2>4. UNCHANGED <<table, used>> BY <1>7 DEF Fault
  <2>5. proc'[m].done \subseteq recorded' BY <2>1, <2>2, ProcFacts
  <2>6. table' = table /\ used' = used BY <2>4
  <2>7. recorded' # {} => table' = TRUE BY <2>2, <2>6
  <2> QED BY <1>0, <2>1, <2>2, <2>3, <2>5, <2>6, <2>7, TypeKept
<1>8. ASSUME NEW m \in Migrators, Retry(m) PROVE TypeInv'
  <2>1. /\ proc' \in ProcType
        /\ \A n \in Migrators \ {m} : proc'[n] = proc[n]
        /\ proc'[m].at = "start" /\ proc'[m].done = {}
    BY <1>0, <1>8 DEF Retry, Start, ProcType
  <2>2. /\ used' \in [Migrators -> Nat]
        /\ \A n \in Migrators : used'[n] \in 1..Attempts[n]
    <3>1. Attempts[m] \in Nat BY MigratorAssumption
    <3>2. used[m] < Attempts[m] /\ used' = [used EXCEPT ![m] = @ + 1] BY <1>8 DEF Retry
    <3> QED BY <1>0, <3>1, <3>2
  <2>3. UNCHANGED <<table, recorded, effects, faults>> BY <1>8 DEF Retry
  <2> QED BY <1>0, <2>1, <2>2, <2>3, TypeKept
<1>9. CASE UNCHANGED vars
  BY <1>9 DEF vars, TypeInv, TypeOK, InTx, ProcType
<1> QED
  BY <1>1, <1>2, <1>3, <1>4, <1>5, <1>6, <1>7, <1>8, <1>9 DEF Next, Step

LEMMA TypeAlways == Spec => []TypeInv
BY TypeInit, TypeStep, PTL DEF Spec

\* The type invariant, for any number of migrators, files and faults (cmd/migrate).
THEOREM TypeCorrect == Spec => []TypeOK
<1>1. TypeInv => TypeOK BY DEF TypeInv
<1> QED BY <1>1, TypeAlways, PTL

-----------------------------------------------------------------------------
(* Order.  A process at a file knows that all files before it are recorded, *)
(* whether it read that, committed them itself, or both.                    *)

Prefix(p) == p.at \in AtFile => \A k \in 1..(p.next - 1) : Files[k] \in recorded

OrderInv ==
    /\ \A m \in Migrators : Prefix(proc[m])
    /\ ExitZeroMeansMigrated
    /\ InOrder

\* A step of one process keeps the order, if what the process then knows is recorded.
LEMMA OrderKept ==
  ASSUME OrderInv, NEW m \in Migrators,
         \A n \in Migrators \ {m} : proc'[n] = proc[n],
         recorded \subseteq recorded', InOrder',
         proc'[m].at \in AtFile => \A k \in 1..(proc'[m].next - 1) : Files[k] \in recorded',
         proc'[m].at = "ok" => \A k \in 1..Release[m] : Files[k] \in recorded'
  PROVE  OrderInv'
<1>1. ASSUME NEW n \in Migrators
      PROVE  /\ proc'[n].at \in AtFile =>
                   \A k \in 1..(proc'[n].next - 1) : Files[k] \in recorded'
             /\ proc'[n].at = "ok" => \A k \in 1..Release[n] : Files[k] \in recorded'
  <2>1. CASE n = m BY <2>1
  <2>2. CASE n # m
    <3>1. proc'[n] = proc[n] BY <2>2
    <3>2. Prefix(proc[n]) /\ (proc[n].at = "ok" => \A k \in 1..Release[n] : Files[k] \in recorded)
      BY DEF OrderInv, ExitZeroMeansMigrated
    <3> QED BY <3>1, <3>2 DEF Prefix
  <2> QED BY <2>1, <2>2
<1> QED BY <1>1 DEF OrderInv, ExitZeroMeansMigrated, Prefix

\* A commit extends what is recorded by the file that comes next.
LEMMA CommitInOrder ==
  ASSUME TypeInv, OrderInv, NEW m \in Migrators, proc[m].at = "inserted", Committed(m)
  PROVE  /\ InOrder'
         /\ recorded \subseteq recorded'
         /\ \A k \in 1..proc[m].next : Files[k] \in recorded'
<1> DEFINE x == proc[m].next
<1>1. recorded' = recorded \cup {Files[x]} BY DEF Committed, File
<1>2. x \in 1..Release[m] BY DEF TypeInv, AtFile
<1>3. \A k \in 1..(x - 1) : Files[k] \in recorded BY DEF OrderInv, Prefix, AtFile
<1>4. x \in DOMAIN Files /\ x \in Nat /\ DOMAIN Files = 1..Len(Files)
  <2>1. x \in Nat BY <1>2, FileType
  <2>2. Files \in Seq(Names) BY MigratorAssumption
  <2> QED BY <1>2, <2>1, <2>2, FileType
<1>5. InOrder BY DEF OrderInv
<1> HIDE DEF x
<1>6. \A k \in 1..x : Files[k] \in recorded' BY <1>1, <1>3, <1>4
<1>7. ASSUME NEW i \in DOMAIN Files, NEW j \in DOMAIN Files, i <= j, Files[j] \in recorded'
      PROVE  Files[i] \in recorded'
  <2>1. CASE Files[j] \in recorded BY <1>1, <1>5, <1>7, <2>1 DEF InOrder
  <2>2. CASE Files[j] \notin recorded
    <3>1. Files[j] = Files[x] BY <1>1, <1>7, <2>2
    <3>2. j = x BY <1>4, <3>1, MigratorAssumption
    <3>3. i \in 1..x BY <1>4, <1>7, <3>2
    <3> QED BY <1>6, <3>3
  <2> QED BY <2>1, <2>2
<1> QED BY <1>1, <1>6, <1>7 DEF InOrder, x

\* What Continue leaves behind is recorded, if what precedes its start is.
LEMMA ContinueInOrder ==
  ASSUME TypeInv, NEW m \in Migrators, NEW done \in SUBSET Names, NEW i \in Nat \ {0},
         Continue(m, done, i), done \subseteq recorded',
         \A k \in 1..(i - 1) : Files[k] \in recorded'
  PROVE  /\ \A n \in Migrators \ {m} : proc'[n] = proc[n]
         /\ proc'[m].at \in AtFile => \A k \in 1..(proc'[m].next - 1) : Files[k] \in recorded'
         /\ proc'[m].at = "ok" => \A k \in 1..Release[m] : Files[k] \in recorded'
<1>1. Release[m] \in Nat BY MigratorAssumption
<1>2. /\ \A n \in Migrators \ {m} : proc'[n] = proc[n]
      /\ \/ /\ proc'[m].at = "ok"
            /\ \A k \in i..Release[m] : Files[k] \in done
         \/ /\ proc'[m].at = "begin"
            /\ proc'[m].next \in 1..Release[m]
            /\ proc'[m].next >= i
            /\ \A k \in i..(proc'[m].next - 1) : Files[k] \in done
  BY ContinueLeads
<1>3. CASE proc'[m].at = "ok"
  <2>1. \A k \in i..Release[m] : Files[k] \in done BY <1>2, <1>3
  <2>2. ASSUME NEW k \in 1..Release[m] PROVE Files[k] \in recorded'
    <3>1. k \in 1..(i - 1) \/ k \in i..Release[m] BY <1>1
    <3> QED BY <2>1, <3>1
  <2> QED BY <1>2, <1>3, <2>2 DEF AtFile
<1>4. CASE proc'[m].at = "begin"
  <2> DEFINE y == proc'[m].next
  <2>1. y \in 1..Release[m] /\ \A k \in i..(y - 1) : Files[k] \in done BY <1>2, <1>4
  <2> HIDE DEF y
  <2>2. ASSUME NEW k \in 1..(y - 1) PROVE Files[k] \in recorded'
    <3>1. k \in 1..(i - 1) \/ k \in i..(y - 1) BY <1>1, <2>1
    <3> QED BY <2>1, <3>1
  <2> QED BY <1>2, <1>4, <2>2 DEF y
<1> QED BY <1>2, <1>3, <1>4

\* A process that only moves on, and stays at its file if it is still at one.
LEMMA MovesInOrder ==
  ASSUME TypeInv, OrderInv, NEW m \in Migrators, NEW at \in Places \ {"ok"}, Goes(m, at),
         at \in AtFile => proc[m].at \in AtFile,
         recorded \subseteq recorded', InOrder'
  PROVE  OrderInv'
<1>1. /\ \A n \in Migrators \ {m} : proc'[n] = proc[n]
      /\ proc'[m].at = at /\ proc'[m].next = proc[m].next
  BY GoesLeads
<1>2. proc[m].at \in AtFile => \A k \in 1..(proc[m].next - 1) : Files[k] \in recorded
  BY DEF OrderInv, Prefix
<1>3. proc'[m].at \in AtFile => \A k \in 1..(proc'[m].next - 1) : Files[k] \in recorded'
  BY <1>1, <1>2
<1>4. proc'[m].at # "ok" BY <1>1
<1> QED BY <1>1, <1>3, <1>4, OrderKept

LEMMA OrderInit == Init => OrderInv
BY DEF Init, Start, OrderInv, Prefix, AtFile, ExitZeroMeansMigrated, InOrder

LEMMA OrderStep == TypeInv /\ OrderInv /\ [Next]_vars => OrderInv'
<1> SUFFICES ASSUME TypeInv, OrderInv, [Next]_vars PROVE OrderInv' OBVIOUS
<1> USE DEF Places, Ended, AtFile
<1>0. ASSUME recorded' = recorded PROVE recorded \subseteq recorded' /\ InOrder'
  BY <1>0 DEF OrderInv, InOrder
<1>1. ASSUME NEW m \in Migrators, EnsureTable(m) PROVE OrderInv'
  <2>1. recorded' = recorded BY <1>1 DEF EnsureTable
  <2>2. CASE Goes(m, "ensured") BY <1>0, <2>1, <2>2, MovesInOrder
  <2>3. CASE proc' = [proc EXCEPT ![m].at = "ensured",
                        ![CHOOSE n \in Migrators \ {m} : proc[n].at = "start"].at = "error"]
    <3> DEFINE o == CHOOSE n \in Migrators \ {m} : proc[n].at = "start"
               first == [proc EXCEPT ![m].at = "ensured"]
    <3>1. proc' = [first EXCEPT ![o].at = "error"] BY <2>3
    <3>2. first \in ProcType /\ first[m].at = "ensured"
          /\ \A n \in Migrators \ {m} : first[n] = proc[n]
      BY DEF TypeInv, ProcType
    <3> HIDE DEF o, first
    <3>3. ASSUME NEW n \in Migrators
          PROVE  proc'[n].at \in {"ensured", "error"} \/ proc'[n] = proc[n]
      BY <3>1, <3>2 DEF ProcType
    <3>4. ASSUME NEW n \in Migrators
          PROVE  /\ proc'[n].at \in AtFile =>
                       \A k \in 1..(proc'[n].next - 1) : Files[k] \in recorded'
                 /\ proc'[n].at = "ok" => \A k \in 1..Release[n] : Files[k] \in recorded'
      BY <2>1, <3>3 DEF OrderInv, Prefix, ExitZeroMeansMigrated
    <3> QED BY <1>0, <2>1, <3>4 DEF OrderInv, Prefix, ExitZeroMeansMigrated
  <2> QED BY <1>1, <2>2, <2>3 DEF EnsureTable
<1>2. ASSUME NEW m \in Migrators, Applied(m) PROVE OrderInv'
  <2>1. Continue(m, recorded, 1) /\ recorded' = recorded BY <1>2 DEF Applied
  <2>2. recorded \in SUBSET Names BY DEF TypeInv
  <2>3. \A k \in 1..(1 - 1) : Files[k] \in recorded' OBVIOUS
  <2>4. /\ \A n \in Migrators \ {m} : proc'[n] = proc[n]
        /\ proc'[m].at \in AtFile => \A k \in 1..(proc'[m].next - 1) : Files[k] \in recorded'
        /\ proc'[m].at = "ok" => \A k \in 1..Release[m] : Files[k] \in recorded'
    BY <2>1, <2>2, <2>3, ContinueInOrder
  <2> QED BY <1>0, <2>1, <2>4, OrderKept
<1>3. ASSUME NEW m \in Migrators, Begin(m) PROVE OrderInv'
  <2>1. recorded' = recorded /\ Goes(m, "opened") /\ proc[m].at \in AtFile
    BY <1>3 DEF Begin
  <2> QED BY <1>0, <2>1, MovesInOrder
<1>4. ASSUME NEW m \in Migrators, Exec(m) PROVE OrderInv'
  <2>1. /\ recorded' = recorded /\ proc[m].at \in AtFile
        /\ Goes(m, "executed") \/ Goes(m, "error")
    BY <1>4 DEF Exec, Exits
  <2> QED BY <1>0, <2>1, MovesInOrder
<1>5. ASSUME NEW m \in Migrators, Record(m) PROVE OrderInv'
  <2>1. /\ recorded' = recorded /\ proc[m].at \in AtFile
        /\ Goes(m, "inserted") \/ Goes(m, "error")
    BY <1>5 DEF Record, Exits
  <2> QED BY <1>0, <2>1, MovesInOrder
<1>6. ASSUME NEW m \in Migrators, Commit(m) PROVE OrderInv'
  <2>1. /\ proc[m].at = "inserted" /\ Committed(m)
        /\ Continue(m, proc[m].done, proc[m].next + 1)
    BY <1>6 DEF Commit
  <2>2. InOrder' /\ recorded \subseteq recorded' /\ \A k \in 1..proc[m].next : Files[k] \in recorded'
    BY <2>1, CommitInOrder
  <2>3. /\ proc[m].next \in Nat /\ proc[m].done \in SUBSET Names
        /\ proc[m].done \subseteq recorded
    BY ProcFacts
  <2> DEFINE i == proc[m].next + 1
  <2>4. /\ i \in Nat \ {0} /\ proc[m].done \subseteq recorded'
        /\ \A k \in 1..(i - 1) : Files[k] \in recorded'
        /\ Continue(m, proc[m].done, i)
    BY <2>1, <2>2, <2>3
  <2> HIDE DEF i
  <2>5. /\ \A n \in Migrators \ {m} : proc'[n] = proc[n]
        /\ proc'[m].at \in AtFile => \A k \in 1..(proc'[m].next - 1) : Files[k] \in recorded'
        /\ proc'[m].at = "ok" => \A k \in 1..Release[m] : Files[k] \in recorded'
    BY <2>3, <2>4, ContinueInOrder
  <2> QED BY <2>2, <2>5, OrderKept
<1>7. ASSUME NEW m \in Migrators, Fault(m) PROVE OrderInv'
  <2>1. Goes(m, "error") BY <1>7 DEF Fault, Exits
  <2>2. recorded \subseteq recorded' /\ InOrder'
    BY <1>0, <1>7, CommitInOrder DEF Fault
  <2> QED BY <2>1, <2>2, MovesInOrder
<1>8. ASSUME NEW m \in Migrators, Retry(m) PROVE OrderInv'
  <2>1. /\ \A n \in Migrators \ {m} : proc'[n] = proc[n]
        /\ proc'[m].at = "start"
        /\ recorded' = recorded
    BY <1>8 DEF Retry, Start, TypeInv, ProcType
  <2> QED BY <1>0, <2>1, OrderKept
<1>9. CASE UNCHANGED vars
  BY <1>9 DEF vars, OrderInv, Prefix, ExitZeroMeansMigrated, InOrder
<1> QED
  BY <1>1, <1>2, <1>3, <1>4, <1>5, <1>6, <1>7, <1>8, <1>9 DEF Next, Step

LEMMA OrderAlways == Spec => []OrderInv
BY TypeAlways, OrderInit, OrderStep, PTL DEF Spec

\* What is recorded is always a prefix of the files, whichever releases run side by
\* side and whatever fails (up).
THEOREM AppliedInOrder == Spec => []InOrder
<1>1. OrderInv => InOrder BY DEF OrderInv
<1> QED BY <1>1, OrderAlways, PTL

\* A migrator that exits with 0 leaves nothing of its release to apply (up).
THEOREM SuccessMeansMigrated == Spec => []ExitZeroMeansMigrated
<1>1. OrderInv => ExitZeroMeansMigrated BY DEF OrderInv
<1> QED BY <1>1, OrderAlways, PTL

-----------------------------------------------------------------------------
(* At most once.  Two transactions never hold one file, and what is         *)
(* inserted and not yet committed is not recorded.                          *)

LockInv ==
    /\ \A m, n \in Migrators :
          m # n /\ proc[m].at \in Holding /\ proc[n].at \in Holding => File(m) # File(n)
    /\ \A m \in Migrators : proc[m].at = "inserted" => File(m) \notin recorded
    /\ AppliedOnce

\* A process that lets go of its file, or holds none, disturbs no other.
LEMMA LockKept ==
  ASSUME TypeInv, LockInv, NEW m \in Migrators,
         \A n \in Migrators \ {m} : proc'[n] = proc[n],
         proc'[m].at \notin Holding,
         \/ recorded' = recorded /\ effects' = effects
         \/ proc[m].at = "inserted" /\ Committed(m)
  PROVE  LockInv'
<1>1. ASSUME NEW n \in Migrators, proc'[n].at \in Holding
      PROVE  n # m /\ proc'[n] = proc[n] /\ File(n)' = File(n)
  BY <1>1 DEF File
<1>2. ASSUME NEW n \in Migrators, proc'[n].at = "inserted" PROVE File(n)' \notin recorded'
  <2>1. n # m /\ proc'[n] = proc[n] /\ File(n)' = File(n) BY <1>1, <1>2 DEF Holding
  <2>2. File(n) \notin recorded BY <1>2, <2>1 DEF LockInv
  <2>3. CASE recorded' = recorded BY <2>1, <2>2, <2>3
  <2>4. CASE proc[m].at = "inserted" /\ Committed(m)
    <3>1. File(n) # File(m) BY <1>2, <2>1, <2>4 DEF LockInv, Holding
    <3> QED BY <2>1, <2>2, <2>4, <3>1 DEF Committed
  <2> QED BY <2>3, <2>4
<1>3. ASSUME NEW n \in Migrators, NEW o \in Migrators, n # o,
             proc'[n].at \in Holding, proc'[o].at \in Holding
      PROVE  File(n)' # File(o)'
  BY <1>1, <1>3 DEF LockInv
<1>4. AppliedOnce'
  <2>1. CASE recorded' = recorded /\ effects' = effects
    BY <2>1 DEF LockInv, AppliedOnce
  <2>2. CASE proc[m].at = "inserted" /\ Committed(m)
    <3>1. File(m) \notin recorded /\ AppliedOnce BY <2>2 DEF LockInv
    <3>2. /\ recorded' = recorded \cup {File(m)}
          /\ effects' = [effects EXCEPT ![File(m)] = @ + 1]
          /\ effects \in [Names -> Nat]
      BY <2>2 DEF Committed, TypeInv
    <3>3. ASSUME NEW f \in Names PROVE effects'[f] = IF f \in recorded' THEN 1 ELSE 0
      BY <3>1, <3>2 DEF AppliedOnce
    <3> QED BY <3>3 DEF AppliedOnce
  <2> QED BY <2>1, <2>2
<1> QED BY <1>2, <1>3, <1>4 DEF LockInv

LEMMA LockInit == Init => LockInv
<1> SUFFICES ASSUME Init PROVE LockInv OBVIOUS
<1>1. \A m \in Migrators : proc[m].at = "start" BY DEF Init, Start
<1>2. AppliedOnce BY DEF Init, AppliedOnce
<1> QED BY <1>1, <1>2 DEF LockInv, Holding

LEMMA LockStep == TypeInv /\ LockInv /\ [Next]_vars => LockInv'
<1> SUFFICES ASSUME TypeInv, LockInv, [Next]_vars PROVE LockInv' OBVIOUS
<1> USE DEF Places, Ended, Holding
<1>1. ASSUME NEW m \in Migrators, EnsureTable(m) PROVE LockInv'
  <2>1. recorded' = recorded /\ effects' = effects BY <1>1 DEF EnsureTable
  <2>2. CASE Goes(m, "ensured")
    <3>1. (\A n \in Migrators \ {m} : proc'[n] = proc[n]) /\ proc'[m].at = "ensured"
      BY <2>2, GoesLeads
    <3> QED BY <2>1, <3>1, LockKept
  <2>3. CASE proc' = [proc EXCEPT ![m].at = "ensured",
                        ![CHOOSE n \in Migrators \ {m} : proc[n].at = "start"].at = "error"]
    <3> DEFINE o == CHOOSE n \in Migrators \ {m} : proc[n].at = "start"
               first == [proc EXCEPT ![m].at = "ensured"]
    <3>1. proc' = [first EXCEPT ![o].at = "error"] BY <2>3
    <3>2. first \in ProcType /\ first[m].at = "ensured"
          /\ \A n \in Migrators \ {m} : first[n] = proc[n]
      BY DEF TypeInv, ProcType
    <3> HIDE DEF o, first
    <3>3. ASSUME NEW n \in Migrators, proc'[n].at \in Holding
          PROVE  proc'[n] = proc[n] /\ File(n)' = File(n)
      BY <3>1, <3>2, <3>3 DEF ProcType, File
    <3> QED BY <2>1, <3>3 DEF LockInv, AppliedOnce
  <2> QED BY <1>1, <2>2, <2>3 DEF EnsureTable
<1>2. ASSUME NEW m \in Migrators, Applied(m) PROVE LockInv'
  <2>1. Continue(m, recorded, 1) /\ recorded' = recorded /\ effects' = effects
    BY <1>2 DEF Applied
  <2>2. recorded \in SUBSET Names /\ 1 \in Nat \ {0} BY DEF TypeInv
  <2>3. (\A n \in Migrators \ {m} : proc'[n] = proc[n]) /\ proc'[m].at \in {"ok", "begin"}
    BY <2>1, <2>2, ContinueLeads
  <2> QED BY <2>1, <2>3, LockKept
<1>3. ASSUME NEW m \in Migrators, Begin(m) PROVE LockInv'
  <2>1. (\A n \in Migrators \ {m} : proc'[n] = proc[n]) /\ proc'[m].at = "opened"
    BY <1>3, GoesLeads DEF Begin
  <2>2. recorded' = recorded /\ effects' = effects BY <1>3 DEF Begin
  <2> QED BY <2>1, <2>2, LockKept
<1>4. ASSUME NEW m \in Migrators, Exec(m) PROVE LockInv'
  <2>1. recorded' = recorded /\ effects' = effects BY <1>4 DEF Exec
  <2>2. CASE Goes(m, "error")
    <3>1. (\A n \in Migrators \ {m} : proc'[n] = proc[n]) /\ proc'[m].at = "error"
      BY <2>2, GoesLeads
    <3> QED BY <2>1, <3>1, LockKept
  <2>3. CASE Goes(m, "executed")
    <3>1. /\ \A n \in Migrators \ {m} : proc'[n] = proc[n]
          /\ proc'[m].at = "executed" /\ proc'[m].next = proc[m].next
      BY <2>3, GoesLeads
    <3>2. \A n \in Migrators : File(n)' = File(n) BY <3>1 DEF File
    <3>3. \A n \in Migrators \ {m} : proc[n].at \in Holding => File(n) # File(m)
      <4>1. \A n \in Migrators : proc[n].at \in Holding => File(n) # File(m)
        BY <1>4 DEF Exec
      <4> QED BY <4>1
    <3>4. ASSUME NEW n \in Migrators, NEW o \in Migrators, n # o,
                 proc'[n].at \in Holding, proc'[o].at \in Holding
          PROVE  File(n)' # File(o)'
      BY <3>1, <3>2, <3>3, <3>4 DEF LockInv
    <3>5. ASSUME NEW n \in Migrators, proc'[n].at = "inserted" PROVE File(n)' \notin recorded'
      BY <2>1, <3>1, <3>2, <3>5 DEF LockInv
    <3> QED BY <2>1, <3>4, <3>5 DEF LockInv, AppliedOnce
  <2> QED BY <1>4, <2>2, <2>3 DEF Exec, Exits
<1>5. ASSUME NEW m \in Migrators, Record(m) PROVE LockInv'
  <2>1. recorded' = recorded /\ effects' = effects /\ proc[m].at = "executed"
    BY <1>5 DEF Record
  <2>2. CASE Goes(m, "error")
    <3>1. (\A n \in Migrators \ {m} : proc'[n] = proc[n]) /\ proc'[m].at = "error"
      BY <2>2, GoesLeads
    <3> QED BY <2>1, <3>1, LockKept
  <2>3. CASE Goes(m, "inserted") /\ File(m) \notin recorded
    <3>1. /\ \A n \in Migrators \ {m} : proc'[n] = proc[n]
          /\ proc'[m].at = "inserted" /\ proc'[m].next = proc[m].next
      BY <2>3, GoesLeads
    <3>2. \A n \in Migrators : File(n)' = File(n) BY <3>1 DEF File
    <3>3. ASSUME NEW n \in Migrators, NEW o \in Migrators, n # o,
                 proc'[n].at \in Holding, proc'[o].at \in Holding
          PROVE  File(n)' # File(o)'
      <4>1. proc[n].at \in Holding /\ proc[o].at \in Holding BY <2>1, <3>1, <3>3
      <4> QED BY <3>2, <3>3, <4>1 DEF LockInv
    <3>4. ASSUME NEW n \in Migrators, proc'[n].at = "inserted" PROVE File(n)' \notin recorded'
      BY <2>1, <2>3, <3>1, <3>2, <3>4 DEF LockInv
    <3> QED BY <2>1, <3>3, <3>4 DEF LockInv, AppliedOnce
  <2> QED BY <1>5, <2>2, <2>3 DEF Record, Exits
<1>6. ASSUME NEW m \in Migrators, Commit(m) PROVE LockInv'
  <2>1. /\ proc[m].at = "inserted" /\ Committed(m)
        /\ Continue(m, proc[m].done, proc[m].next + 1)
    BY <1>6 DEF Commit
  <2>2. proc[m].next \in Nat /\ proc[m].done \in SUBSET Names BY ProcFacts
  <2>3. proc[m].next + 1 \in Nat \ {0} BY <2>2
  <2>4. (\A n \in Migrators \ {m} : proc'[n] = proc[n]) /\ proc'[m].at \in {"ok", "begin"}
    BY <2>1, <2>2, <2>3, ContinueLeads
  <2> QED BY <2>1, <2>4, LockKept
<1>7. ASSUME NEW m \in Migrators, Fault(m) PROVE LockInv'
  <2>1. (\A n \in Migrators \ {m} : proc'[n] = proc[n]) /\ proc'[m].at = "error"
    BY <1>7, GoesLeads DEF Fault, Exits
  <2>2. \/ recorded' = recorded /\ effects' = effects
        \/ proc[m].at = "inserted" /\ Committed(m)
    BY <1>7 DEF Fault
  <2> QED BY <2>1, <2>2, LockKept
<1>8. ASSUME NEW m \in Migrators, Retry(m) PROVE LockInv'
  <2>1. /\ \A n \in Migrators \ {m} : proc'[n] = proc[n]
        /\ proc'[m].at = "start"
        /\ recorded' = recorded /\ effects' = effects
    BY <1>8 DEF Retry, Start, TypeInv, ProcType
  <2> QED BY <2>1, LockKept
<1>9. CASE UNCHANGED vars
  BY <1>9 DEF vars, LockInv, AppliedOnce, File
<1> QED
  BY <1>1, <1>2, <1>3, <1>4, <1>5, <1>6, <1>7, <1>8, <1>9 DEF Next, Step

\* A migration's statements are committed once, with its row, however many migrators
\* apply it at once from lists they read before (up).
THEOREM EachAppliedOnce == Spec => []AppliedOnce
<1>1. LockInv => AppliedOnce BY DEF LockInv
<1> QED BY <1>1, TypeAlways, LockInit, LockStep, PTL DEF Spec
=============================================================================
