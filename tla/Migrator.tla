------------------------------ MODULE Migrator ------------------------------
(***************************************************************************)
(* cmd/migrate: `migrate up` run by several processes at once (the Helm    *)
(* hook of an upgrade beside a compose or manual run), of releases with    *)
(* more or fewer migrations.  No lock is held from the reading of          *)
(* schema_migrations to the end: what keeps the processes apart is the     *)
(* transaction around each migration and the primary key of the table.     *)
(* PostgreSQL is modelled from its use: of two open transactions that run  *)
(* one migration, the second waits for the first.                          *)
(***************************************************************************)
EXTENDS Naturals, Sequences, FiniteSets

CONSTANTS
    Migrators,    \* the processes, or Helm jobs
    Files,        \* listMigrations of the newest release, in the order of the names
    Release,      \* by migrator, how many of Files its image embeds
    Attempts,     \* by migrator, how often its pod may run: backoffLimit and one
    Repeatable,   \* the migrations whose statements succeed a second time
    MaxFaults     \* bound on lost connections and killed pods

Names == {Files[i] : i \in DOMAIN Files}

ASSUME MigratorAssumption ==
    /\ Files \in Seq(Names)
    /\ \A m \in Migrators : /\ Release[m] \in 0..Len(Files)
                            /\ Attempts[m] \in Nat \ {0}
    /\ \A i, j \in DOMAIN Files : Files[i] = Files[j] => i = j
    /\ MaxFaults \in Nat

VARIABLES
    table,      \* whether schema_migrations exists
    recorded,   \* its rows
    effects,    \* by migration, how often its statements were committed
    proc,       \* by migrator: where it is, what it read, the file it is at
    used,       \* by migrator, the attempts it used
    faults

vars == <<table, recorded, effects, proc, used, faults>>

Start == [at |-> "start", done |-> {}, next |-> 1]

Init ==
    /\ table = FALSE /\ recorded = {}
    /\ effects = [f \in Names |-> 0]
    /\ proc = [m \in Migrators |-> Start]
    /\ used = [m \in Migrators |-> 1]
    /\ faults = 0

Ended == {"ok", "error"}

\* A transaction is open, its statements run, or its row inserted too.
InTx(m) == proc[m].at \in {"opened", "executed", "inserted"}

File(m) == Files[proc[m].next]

Goes(m, at) == proc' = [proc EXCEPT ![m].at = at]

\* Mutant: the error is logged, and the exit code is 0.
ExitsZero(m) == Goes(m, "ok")

\* An error: the transaction is rolled back and the process exits with 1.
Exits(m) == Goes(m, "error")

\* The first file from i on that this run takes to be pending.
Pending(m, done, i) ==
    LET S == {j \in i..Release[m] : Files[j] \notin done}
    IN IF S = {} THEN 0 ELSE CHOOSE j \in S : \A k \in S : j <= k

\* Goes on with the next pending file, or is done.
Continue(m, done, i) ==
    LET j == Pending(m, done, i)
    IN proc' = [proc EXCEPT ![m] = [at   |-> IF j = 0 THEN "ok" ELSE "begin",
                                    done |-> done,
                                    next |-> IF j = 0 THEN 1 ELSE j]]

----------------------------------------------------------------------------
\* Mutant: the table is expected to be there.
EnsureNothing(m) ==
    /\ proc[m].at = "start"
    /\ Goes(m, "ensured")
    /\ UNCHANGED <<table, recorded, effects, used, faults>>

\* CREATE TABLE IF NOT EXISTS: of two that create it at once, one may fail.
EnsureTable(m) ==
    /\ proc[m].at = "start"
    /\ \/ table' = TRUE /\ Goes(m, "ensured")
       \/ /\ ~table
          /\ \E n \in Migrators \ {m} : proc[n].at = "start"
          /\ table' = TRUE
          /\ proc' = [proc EXCEPT ![m].at = "ensured",
                         ![CHOOSE n \in Migrators \ {m} : proc[n].at = "start"].at = "error"]
    /\ UNCHANGED <<recorded, effects, used, faults>>

Applied(m) ==
    /\ proc[m].at = "ensured"
    /\ Continue(m, recorded, 1)
    /\ UNCHANGED <<table, recorded, effects, used, faults>>

Begin(m) ==
    /\ proc[m].at = "begin"
    /\ Goes(m, "opened")
    /\ UNCHANGED <<table, recorded, effects, used, faults>>

\* The statements wait for another transaction that has run them, and fail if they were
\* committed before and cannot be repeated.
Exec(m) ==
    /\ proc[m].at = "opened"
    /\ \A n \in Migrators : proc[n].at \in {"executed", "inserted"} => File(n) # File(m)
    /\ IF effects[File(m)] = 0 \/ File(m) \in Repeatable
       THEN Goes(m, "executed") ELSE Exits(m)
    /\ UNCHANGED <<table, recorded, effects, used, faults>>

\* Mutant: INSERT ... ON CONFLICT DO NOTHING.
RecordQuietly(m) ==
    /\ proc[m].at = "executed"
    /\ Goes(m, "inserted")
    /\ UNCHANGED <<table, recorded, effects, used, faults>>

\* The row of a migration that was recorded meanwhile violates the primary key.
Record(m) ==
    /\ proc[m].at = "executed"
    /\ IF File(m) \in recorded THEN Exits(m) ELSE Goes(m, "inserted")
    /\ UNCHANGED <<table, recorded, effects, used, faults>>

Committed(m) ==
    /\ recorded' = recorded \cup {File(m)}
    /\ effects' = [effects EXCEPT ![File(m)] = @ + 1]

Commit(m) ==
    /\ proc[m].at = "inserted"
    /\ Committed(m)
    /\ Continue(m, proc[m].done, proc[m].next + 1)
    /\ UNCHANGED <<table, used, faults>>

----------------------------------------------------------------------------
\* Mutant: after an error the run goes on with the next file.
GoesOnAfterFault(m) ==
    /\ proc[m].at \notin Ended
    /\ faults < MaxFaults /\ faults' = faults + 1
    /\ \/ /\ proc[m].at = "inserted" /\ Committed(m)
       \/ UNCHANGED <<recorded, effects>>
    /\ IF InTx(m) THEN Continue(m, proc[m].done, proc[m].next + 1) ELSE Exits(m)
    /\ UNCHANGED <<table, used>>

\* The connection breaks or the pod is killed: an open transaction is rolled back, but
\* a COMMIT that was sent may have taken effect.
Fault(m) ==
    /\ proc[m].at \notin Ended
    /\ faults < MaxFaults /\ faults' = faults + 1
    /\ \/ /\ proc[m].at = "inserted" /\ Committed(m)
       \/ UNCHANGED <<recorded, effects>>
    /\ Exits(m)
    /\ UNCHANGED <<table, used>>

\* Mutant: the new run starts from what the last one read.
RetryUnread(m) ==
    /\ proc[m].at = "error" /\ used[m] < Attempts[m]
    /\ used' = [used EXCEPT ![m] = @ + 1]
    /\ Continue(m, proc[m].done, 1)
    /\ UNCHANGED <<table, recorded, effects, faults>>

\* Kubernetes runs the job's pod again.
Retry(m) ==
    /\ proc[m].at = "error" /\ used[m] < Attempts[m]
    /\ used' = [used EXCEPT ![m] = @ + 1]
    /\ proc' = [proc EXCEPT ![m] = Start]
    /\ UNCHANGED <<table, recorded, effects, faults>>

Step(m) == EnsureTable(m) \/ Applied(m) \/ Begin(m) \/ Exec(m) \/ Record(m) \/ Commit(m)

Next == \E m \in Migrators : Step(m) \/ Retry(m) \/ Fault(m)

Spec == Init /\ [][Next]_vars

\* The processes run on, and the job controller starts pods again.
FairSpec == Spec /\ \A m \in Migrators : WF_vars(Step(m)) /\ WF_vars(Retry(m))

----------------------------------------------------------------------------
GivenUp(m) == proc[m].at = "error" /\ used[m] = Attempts[m]

TypeOK ==
    /\ table \in BOOLEAN /\ recorded \subseteq Names
    /\ recorded # {} => table
    /\ effects \in [Names -> Nat]
    /\ \A m \in Migrators :
          /\ proc[m].at \in {"start", "ensured", "begin", "opened", "executed", "inserted"}
                            \cup Ended
          /\ proc[m].done \subseteq recorded
          /\ InTx(m) => proc[m].next \in 1..Release[m]
          /\ used[m] \in 1..Attempts[m]
    /\ faults \in 0..MaxFaults

\* A migration's statements are committed once, and exactly if its row is there, however
\* many migrators run at once from lists that they read before (up).
AppliedOnce == \A f \in Names : effects[f] = IF f \in recorded THEN 1 ELSE 0

\* The schema is always one that a release had: no migration is applied before an
\* earlier one, whatever fails, and whichever releases run side by side (up).
InOrder == \A i, j \in DOMAIN Files : i <= j /\ Files[j] \in recorded => Files[i] \in recorded

\* A migrator that exits with 0 leaves all of its migrations applied, the ones that it
\* skipped included: the release that waits for it may start (deploy/helm, the hook).
ExitZeroMeansMigrated ==
    \A m \in Migrators : proc[m].at = "ok" => \A i \in 1..Release[m] : Files[i] \in recorded

\* A job that may start more pods than there are faults and migrations is upgraded in
\* the end: what others apply meanwhile costs it one attempt a migration, and the race
\* for the table one more.
Upgraded ==
    \A m \in Migrators :
        Attempts[m] > MaxFaults + Len(Files) + 1 =>
            <>[](\A i \in 1..Release[m] : Files[i] \in recorded)
=============================================================================
