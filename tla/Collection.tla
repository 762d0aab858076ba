----------------------------- MODULE Collection -----------------------------
(***************************************************************************)
(* Incremental collection of one provider account: the harness             *)
(* collectors.Run (internal/collectors/collector.go) around the CloudTrail *)
(* reader (internal/collectors/aws/cloudtrail.go), run by the consumer of  *)
(* the collect queue (cmd/worker/main.go, internal/queue/queue.go) and, at *)
(* the same time, by whoever starts a collection directly: the collector   *)
(* command's loop or CronJob, or the API when it cannot publish.           *)
(*                                                                         *)
(* Time is the provider's clock in whole seconds, which is what the cursor *)
(* keeps; an event is named by its second.  Inventory rows are upserted by *)
(* a deterministic id and are left out; usage events get a fresh uuid on   *)
(* every insert, so the table counts them.  A run without a cursor reads   *)
(* back Lookback seconds from its own time and no further, even when there *)
(* was a cursor and it could not be loaded.                                *)
(*                                                                         *)
(* Events become readable in the order in which they happened.             *)
(*                                                                         *)
(* The broker is external: a message is delivered at least once, delivered *)
(* again when its answer is late, and dropped at its maximal age.          *)
(***************************************************************************)
EXTENDS Naturals, FiniteSets

CONSTANTS
  Consumer,      \* the worker's queue consumer, which handles one job at a time
  DirectRunners, \* collector processes and API goroutines
  Jobs,          \* collect requests
  NoJob,
  PageLimit,     \* events one run reads; maxCloudTrailPages pages in the code
  Lookback,      \* how far a run without a cursor reads back: 24 hours in the worker
  Faults,
  MaxTime        \* bound on the clock

Runners == {Consumer} \cup DirectRunners

FaultKinds ==
  {"start",     \* the job has no collector, or StartRun fails
   "collect",   \* the inventory phase fails
   "page",      \* a page of events cannot be read
   "insert",    \* an insert fails
   "load",      \* GetCursor fails
   "save",      \* SetCursor fails
   "finish",    \* FinishRun fails
   "crash",     \* the process dies
   "late",      \* AckWait passes before the answer
   "age"}       \* MaxAge passes

ASSUME CollectionAssumption ==
  /\ Consumer \notin DirectRunners
  /\ NoJob \notin Jobs
  /\ PageLimit \in Nat \ {0}
  /\ Faults \subseteq FaultKinds
  /\ Lookback \in Nat \ {0}
  /\ MaxTime \in Nat
  /\ Lookback < MaxTime

VARIABLES
  now,       \* the provider's clock
  events,    \* seconds at which something happened in the account
  stored,    \* usage_events: how often each event was inserted; 2 is twice or more
  missed,    \* events some run left out: beyond its page limit or behind a page that
             \* failed, before the lookback of a run without a cursor, or not inserted
  cursor,    \* collector_state: 0 is no cursor
  stage,     \* where each runner is in Run
  job,       \* the job each runner handles
  from,      \* the cursor each runner loaded, 0 if it has none
  pending,   \* events each runner has read and not inserted
  upto,      \* the cursor each runner will save
  run,       \* status of the collector_runs row of each runner's last run
  jobs,      \* each job on the broker
  asked,     \* when each job was requested
  clean      \* no run has crashed, overlapped another or lost its cursor so far

runVars == <<stage, job, from, pending, upto, run>>
queueVars == <<jobs, asked>>
vars == <<now, events, stored, missed, cursor, stage, job, from, pending, upto, run,
          jobs, asked, clean>>

Time == 0..MaxTime
Stages == {"idle", "begin", "collect", "insert", "finish", "ack", "nak"}

TypeOK ==
  /\ now \in Time
  /\ events \subseteq Time
  /\ stored \in [Time -> 0..2]
  /\ missed \subseteq Time
  /\ cursor \in Time
  /\ stage \in [Runners -> Stages]
  /\ job \in [Runners -> Jobs \cup {NoJob}]
  /\ from \in [Runners -> Time]
  /\ pending \in [Runners -> SUBSET Time]
  /\ upto \in [Runners -> Time]
  /\ run \in [Runners -> {"none", "running", "success", "error"}]
  /\ jobs \in [Jobs -> {"new", "queued", "delivered", "acked", "expired"}]
  /\ asked \in [Jobs -> Time]
  /\ clean \in BOOLEAN

Init ==
  /\ now = Lookback + 1
  /\ events = {}
  /\ stored = [t \in Time |-> 0]
  /\ missed = {}
  /\ cursor = 0
  /\ stage = [r \in Runners |-> "idle"]
  /\ job = [r \in Runners |-> NoJob]
  /\ from = [r \in Runners |-> 0]
  /\ pending = [r \in Runners |-> {}]
  /\ upto = [r \in Runners |-> 0]
  /\ run = [r \in Runners |-> "none"]
  /\ jobs = [j \in Jobs |-> "new"]
  /\ asked = [j \in Jobs |-> 0]
  /\ clean = TRUE

-----------------------------------------------------------------------------
(* The account and the broker.                                             *)

\* A second passes, in which something happens or not.
Tick ==
  /\ now < MaxTime
  /\ now' = now + 1
  /\ events' \in {events, events \cup {now + 1}}
  /\ UNCHANGED <<stored, missed, cursor, runVars, queueVars, clean>>

\* PublishCollect.  If the broker persists the job and its answer is lost, the API
\* also runs the collection itself: this action and StartDirect.
Publish(j) ==
  /\ jobs[j] = "new"
  /\ jobs' = [jobs EXCEPT ![j] = "queued"]
  /\ asked' = [asked EXCEPT ![j] = now]
  /\ UNCHANGED <<now, events, stored, missed, cursor, runVars, clean>>

\* The handler's answer is late: the broker will deliver the message again.
Redeliver(j) ==
  /\ jobs[j] = "delivered"
  /\ \/ "late" \in Faults
     \/ \A r \in Runners : job[r] # j     \* nobody is left to answer
  /\ jobs' = [jobs EXCEPT ![j] = "queued"]
  /\ UNCHANGED <<now, events, stored, missed, cursor, runVars, asked, clean>>

\* The stream drops a message that reaches MaxAge.
Age(j) ==
  /\ "age" \in Faults
  /\ jobs[j] \in {"queued", "delivered"}
  /\ jobs' = [jobs EXCEPT ![j] = "expired"]
  /\ UNCHANGED <<now, events, stored, missed, cursor, runVars, asked, clean>>

-----------------------------------------------------------------------------
(* One run.                                                                *)

\* Between GetCursor and SetCursor.
Active(r) == stage[r] \in {"collect", "insert"}

\* The consumer's callback takes the next message.
Deliver(j) ==
  /\ stage[Consumer] = "idle"
  /\ jobs[j] = "queued"
  /\ jobs' = [jobs EXCEPT ![j] = "delivered"]
  /\ stage' = [stage EXCEPT ![Consumer] = "begin"]
  /\ job' = [job EXCEPT ![Consumer] = j]
  /\ UNCHANGED <<now, events, stored, missed, cursor, from, pending, upto, run,
                 asked, clean>>

StartDirect(r) ==
  /\ r \in DirectRunners
  /\ stage[r] = "idle"
  /\ stage' = [stage EXCEPT ![r] = "begin"]
  /\ UNCHANGED <<now, events, stored, missed, cursor, job, from, pending, upto, run,
                 queueVars, clean>>

\* A mutant: the second after the cursor is taken when it is loaded, too.
BeginPastCursor(r) ==
  /\ stage[r] = "begin"
  /\ from' = [from EXCEPT ![r] = cursor + 1]
  /\ clean' = (clean /\ \A s \in Runners \ {r} : ~Active(s))
  /\ run' = [run EXCEPT ![r] = "running"]
  /\ stage' = [stage EXCEPT ![r] = "collect"]
  /\ UNCHANGED <<now, events, stored, missed, cursor, job, pending, upto, queueVars>>

\* GetCursor, whose failure counts as no cursor, and StartRun.
Begin(r) ==
  /\ stage[r] = "begin"
  /\ \E c \in {cursor} \cup IF "load" \in Faults THEN {0} ELSE {} :
       /\ from' = [from EXCEPT ![r] = c]
       /\ clean' = (clean /\ c = cursor /\ \A s \in Runners \ {r} : ~Active(s))
  /\ run' = [run EXCEPT ![r] = "running"]
  /\ stage' = [stage EXCEPT ![r] = "collect"]
  /\ UNCHANGED <<now, events, stored, missed, cursor, job, pending, upto, queueVars>>

BeginFails(r) ==
  /\ "start" \in Faults
  /\ stage[r] = "begin"
  /\ stage' = [stage EXCEPT ![r] = "nak"]
  /\ UNCHANGED <<now, events, stored, missed, cursor, job, from, pending, upto, run,
                 queueVars, clean>>

\* The provider returns the newest events first.
Newest(S, limit) == {e \in S : Cardinality({f \in S : f > e}) < limit}

\* The start of the window: a second after the cursor or, without one, within the second
\* that lies Lookback back, of which the saved cursor keeps the beginning.  A run within
\* the cursor's own second, which CloudTrail's delay in showing events rules out, stays
\* there.
WindowStart(r) ==
  IF from[r] = 0 THEN now - Lookback ELSE IF from[r] = now THEN now ELSE from[r] + 1

\* The new cursor is the newest event read or, when none was, the window's start.
Reached(r, seen) ==
  IF seen = {} THEN {WindowStart(r)} ELSE {t \in seen : \A e \in seen : e <= t}

\* What is read is inserted; the rest of what came after the cursor never is.
Read(r, window, limit) ==
  LET seen == Newest(window, limit) IN
    /\ pending' = [pending EXCEPT ![r] = seen]
    /\ missed' = missed \cup {e \in events \ seen : e > from[r]}
    /\ \E t \in Reached(r, seen) : upto' = [upto EXCEPT ![r] = t]

\* A page that cannot be read ends the reading and nothing more.
Limits == {PageLimit} \cup IF "page" \in Faults THEN 0..PageLimit ELSE {}

\* A mutant: the window starts at the cursor and not a second after it.
WindowFromCursor(r) == {e \in events : from[r] <= e}

\* What happened since.  Without a cursor the start has passed the beginning of its
\* second, where an event of that second is dated.
Window(r) == {e \in events : IF from[r] = 0 THEN now - Lookback < e ELSE from[r] < e}

Collect(r) ==
  /\ stage[r] = "collect"
  /\ \E limit \in Limits : Read(r, Window(r), limit)
  /\ stage' = [stage EXCEPT ![r] = "insert"]
  /\ UNCHANGED <<now, events, stored, cursor, job, from, run, queueVars, clean>>

\* Collect returns an error: the run is recorded as failed and the job is nak'ed.
CollectFails(r) ==
  /\ "collect" \in Faults
  /\ stage[r] = "collect"
  /\ run' = [run EXCEPT ![r] = "error"]
  /\ stage' = [stage EXCEPT ![r] = "nak"]
  /\ UNCHANGED <<now, events, stored, missed, cursor, job, from, pending, upto,
                 queueVars, clean>>

\* The primary key holds a uuid made by the collector, so nothing conflicts.
InsertEvent(r, e) ==
  /\ stage[r] = "insert"
  /\ e \in pending[r]
  /\ stored' = [stored EXCEPT ![e] = IF @ < 2 THEN @ + 1 ELSE @]
  /\ pending' = [pending EXCEPT ![r] = @ \ {e}]
  /\ UNCHANGED <<now, events, missed, cursor, stage, job, from, upto, run,
                 queueVars, clean>>

\* Logged and gone: the run goes on, saves its cursor and reports success.
InsertFails(r, e) ==
  /\ "insert" \in Faults
  /\ stage[r] = "insert"
  /\ e \in pending[r]
  /\ missed' = missed \cup {e}
  /\ pending' = [pending EXCEPT ![r] = @ \ {e}]
  /\ UNCHANGED <<now, events, stored, cursor, stage, job, from, upto, run,
                 queueVars, clean>>

\* A mutant: the cursor is saved as soon as the events are read.
SaveCursorEarly(r) ==
  /\ stage[r] = "insert"
  /\ cursor' = upto[r]
  /\ stage' = [stage EXCEPT ![r] = "finish"]
  /\ UNCHANGED <<now, events, stored, missed, job, from, pending, upto, run, queueVars,
                 clean>>

\* After the last insert; a failure is logged.
SaveCursor(r) ==
  /\ stage[r] = "insert"
  /\ pending[r] = {}
  /\ \/ cursor' = upto[r] /\ UNCHANGED clean
     \/ "save" \in Faults /\ UNCHANGED cursor /\ clean' = FALSE
  /\ stage' = [stage EXCEPT ![r] = "finish"]
  /\ UNCHANGED <<now, events, stored, missed, job, from, pending, upto, run, queueVars>>

\* FinishRun with no errors, whatever became of the inserts.
Finish(r) ==
  /\ stage[r] = "finish"
  /\ \/ run' = [run EXCEPT ![r] = "success"]
     \/ "finish" \in Faults /\ UNCHANGED run
  /\ stage' = [stage EXCEPT ![r] = "ack"]
  /\ UNCHANGED <<now, events, stored, missed, cursor, job, from, pending, upto,
                 queueVars, clean>>

\* Run and the callback return, or the process is gone: what they held is, too.
Leave(r) ==
  /\ stage' = [stage EXCEPT ![r] = "idle"]
  /\ job' = [job EXCEPT ![r] = NoJob]
  /\ from' = [from EXCEPT ![r] = 0]
  /\ upto' = [upto EXCEPT ![r] = 0]
  /\ pending' = [pending EXCEPT ![r] = {}]
  /\ UNCHANGED <<now, events, stored, missed, cursor, run, asked>>

Answer(r, states, answer) ==
  jobs' = [j \in Jobs |-> IF j = job[r] /\ jobs[j] \in states THEN answer ELSE jobs[j]]

\* A mutant: the callback returns without an answer.
AckForgotten(r) ==
  /\ stage[r] = "ack"
  /\ Leave(r)
  /\ UNCHANGED <<jobs, clean>>

\* A late answer finds the job delivered again: it settles the job unless the
\* client already holds the second copy.
Ack(r) ==
  /\ stage[r] = "ack"
  /\ Answer(r, {"delivered"}, "acked") \/ Answer(r, {"delivered", "queued"}, "acked")
  /\ Leave(r)
  /\ UNCHANGED clean

\* A mutant: a failed job is acked.
NakAcks(r) ==
  /\ stage[r] = "nak"
  /\ Answer(r, {"delivered"}, "acked")
  /\ Leave(r)
  /\ UNCHANGED clean

\* The handler returned an error: the broker delivers the job again.
Nak(r) ==
  /\ stage[r] = "nak"
  /\ Answer(r, {"delivered"}, "queued")
  /\ Leave(r)
  /\ UNCHANGED clean

\* The process dies.  Its run stays "running", its job unanswered.
Crash(r) ==
  /\ "crash" \in Faults
  /\ stage[r] # "idle"
  /\ clean' = FALSE
  /\ Leave(r)
  /\ UNCHANGED jobs

-----------------------------------------------------------------------------

RunStep(r) ==
  \/ Begin(r) \/ BeginFails(r)
  \/ Collect(r) \/ CollectFails(r)
  \/ \E e \in pending[r] : InsertEvent(r, e) \/ InsertFails(r, e)
  \/ SaveCursor(r)
  \/ Finish(r)
  \/ Ack(r) \/ Nak(r)

BrokerStep == \E j \in Jobs : Publish(j) \/ Deliver(j) \/ Redeliver(j) \/ Age(j)

Next ==
  \/ Tick
  \/ BrokerStep
  \/ \E r \in Runners : StartDirect(r) \/ RunStep(r) \/ Crash(r)

Spec == Init /\ [][Next]_vars

\* The consumer keeps taking messages, the broker keeps redelivering; a collection
\* that is tried again and again succeeds in the end.
Fairness ==
  /\ \A r \in Runners : WF_vars(RunStep(r)) /\ SF_vars(Begin(r)) /\ SF_vars(Collect(r))
  /\ \A j \in Jobs : SF_vars(Deliver(j)) /\ WF_vars(Redeliver(j))
  /\ <>[][\A r \in Runners : ~Crash(r)]_vars

FairSpec == Spec /\ Fairness

-----------------------------------------------------------------------------
(* Properties.                                                             *)

\* An event was inserted, or some run left it out for a cause that `missed` names.
Accounted(e) == stored[e] > 0 \/ e \in missed

\* Behind the cursor nothing is lost for any other cause: the cursor is saved after the
\* inserts, so that a crash, an overlap of runs, a redelivery or a cursor that moves back
\* costs no event (collector.go: Run).
CursorAccounted == \A e \in events : e <= cursor => Accounted(e)

\* Nor does an acked job leave out an event from before its request for any other cause,
\* also when it was redelivered, retried, or raced by a direct run.
AckedIsCovered ==
  \A j \in Jobs : jobs[j] = "acked" => \A e \in events : e <= asked[j] => Accounted(e)

\* While runs do not crash, overlap or lose their cursor, no event is inserted twice,
\* although nothing in the table would refuse it.
StoredOnce == clean => \A e \in events : stored[e] <= 1

\* A requested collection is carried out in the end, or its message grows too old.
JobsSettle == \A j \in Jobs : jobs[j] = "queued" ~> jobs[j] \in {"acked", "expired"}
=============================================================================
