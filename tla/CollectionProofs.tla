-------------------------- MODULE CollectionProofs --------------------------
(***************************************************************************)
(* Theorems of Collection for every number of runners and jobs, every page *)
(* limit, set of faults and bound on time.                                 *)
(*   TypeCorrect        the type invariant                                 *)
(*   CursorIsAccounted  what lies behind the cursor was inserted or left   *)
(*                      out for a named cause                              *)
(*   AcksAreCovered     so was what happened before an acked job's request *)
(*   EventsStoredOnce   undisturbed runs insert no event twice             *)
(***************************************************************************)
EXTENDS Collection, TLAPS

-----------------------------------------------------------------------------
(* Type correctness.                                                       *)

LEMMA AnswerType ==
  ASSUME TypeOK, NEW r \in Runners, NEW states, NEW answer \in {"queued", "acked"},
         Answer(r, states, answer)
  PROVE  jobs' \in [Jobs -> {"new", "queued", "delivered", "acked", "expired"}]
BY DEF TypeOK, Answer

\* Where a run's window starts and what it reaches lie in the past.
LEMMA WindowStartType ==
  ASSUME TypeOK, NEW r \in Runners, from[r] <= now, Lookback < now
  PROVE  WindowStart(r) \in Time /\ WindowStart(r) <= now
BY CollectionAssumption DEF TypeOK, WindowStart, Time

LEMMA ReachedType ==
  ASSUME TypeOK, NEW r \in Runners, from[r] <= now, Lookback < now,
         NEW seen \in SUBSET Time, \A e \in seen : e <= now,
         NEW t \in Reached(r, seen)
  PROVE  t \in Time /\ t <= now
BY WindowStartType DEF Reached

\* No time the system remembers lies in the future, and the lookback ends in the past.
PastInv ==
  /\ Lookback < now
  /\ \A e \in events : e <= now
  /\ cursor <= now
  /\ \A r \in Runners : from[r] <= now /\ upto[r] <= now
  /\ \A j \in Jobs : asked[j] <= now

TypeInv == TypeOK /\ PastInv

LEMMA TypeInvInit == Init => TypeInv
BY CollectionAssumption DEF Init, TypeInv, TypeOK, PastInv, Time, Stages

LEMMA BrokerType ==
  ASSUME TypeInv, NEW j \in Jobs, Publish(j) \/ Deliver(j) \/ Redeliver(j) \/ Age(j)
  PROVE  TypeInv'
<1>1. CASE Publish(j)
  BY <1>1, CollectionAssumption DEF TypeInv, TypeOK, PastInv, Publish, runVars, Time
<1>2. CASE Deliver(j)
  BY <1>2 DEF TypeInv, TypeOK, PastInv, Deliver, Stages
<1>3. CASE Redeliver(j)
  BY <1>3 DEF TypeInv, TypeOK, PastInv, Redeliver, runVars
<1>4. CASE Age(j)
  BY <1>4 DEF TypeInv, TypeOK, PastInv, Age, runVars
<1> QED BY <1>1, <1>2, <1>3, <1>4

LEMMA CollectType ==
  ASSUME TypeInv, NEW r \in Runners, Collect(r)
  PROVE  TypeInv'
<1>1. PICK limit \in Limits : Read(r, Window(r), limit)
  BY DEF Collect
<1> DEFINE seen == Newest(Window(r), limit)
<1>2. seen \in SUBSET Time /\ Window(r) \subseteq Time /\ \A e \in seen : e <= now
  BY DEF Newest, Window, TypeInv, TypeOK, PastInv
<1>3. PICK t \in Reached(r, seen) : upto' = [upto EXCEPT ![r] = t]
  BY <1>1 DEF Read
<1>4. t \in Time /\ t <= now
  BY <1>2, ReachedType DEF TypeInv, PastInv
<1>5. pending' = [pending EXCEPT ![r] = seen] /\ missed' = missed \cup {e \in events \ seen : e > from[r]}
  BY <1>1 DEF Read
<1> HIDE DEF seen
<1> QED BY <1>2, <1>3, <1>4, <1>5 DEF TypeInv, TypeOK, PastInv, Collect, queueVars, Stages

LEMMA RunType ==
  ASSUME TypeInv, NEW r \in Runners, RunStep(r)
  PROVE  TypeInv'
<1>1. CASE Begin(r)
  BY <1>1, CollectionAssumption
  DEF TypeInv, TypeOK, PastInv, Begin, queueVars, Stages, Time
<1>2. CASE BeginFails(r)
  BY <1>2 DEF TypeInv, TypeOK, PastInv, BeginFails, queueVars, Stages
<1>3. CASE Collect(r)
  BY <1>3, CollectType
<1>4. CASE CollectFails(r)
  BY <1>4 DEF TypeInv, TypeOK, PastInv, CollectFails, queueVars, Stages
<1>5. ASSUME NEW e \in pending[r], InsertEvent(r, e) PROVE TypeInv'
  BY <1>5 DEF TypeInv, TypeOK, PastInv, InsertEvent, queueVars
<1>6. ASSUME NEW e \in pending[r], InsertFails(r, e) PROVE TypeInv'
  BY <1>6 DEF TypeInv, TypeOK, PastInv, InsertFails, queueVars
<1>7. CASE SaveCursor(r)
  BY <1>7 DEF TypeInv, TypeOK, PastInv, SaveCursor, queueVars, Stages
<1>8. CASE Finish(r)
  BY <1>8 DEF TypeInv, TypeOK, PastInv, Finish, queueVars, Stages
<1>9. CASE Ack(r)
  BY <1>9, AnswerType, CollectionAssumption
  DEF TypeInv, TypeOK, PastInv, Ack, Leave, Stages, Time
<1>10. CASE Nak(r)
  BY <1>10, AnswerType, CollectionAssumption
  DEF TypeInv, TypeOK, PastInv, Nak, Leave, Stages, Time
<1> QED BY <1>1, <1>2, <1>3, <1>4, <1>5, <1>6, <1>7, <1>8, <1>9, <1>10 DEF RunStep

LEMMA TypeInvStep == TypeInv /\ [Next]_vars => TypeInv'
<1> SUFFICES ASSUME TypeInv, [Next]_vars PROVE TypeInv'
  OBVIOUS
<1>1. CASE Tick
  BY <1>1, CollectionAssumption
  DEF TypeInv, TypeOK, PastInv, Tick, runVars, queueVars, Time
<1>2. CASE BrokerStep
  BY <1>2, BrokerType DEF BrokerStep
<1>3. ASSUME NEW r \in Runners, StartDirect(r) PROVE TypeInv'
  BY <1>3 DEF TypeInv, TypeOK, PastInv, StartDirect, queueVars, Stages
<1>4. ASSUME NEW r \in Runners, RunStep(r) PROVE TypeInv'
  BY <1>4, RunType
<1>5. ASSUME NEW r \in Runners, Crash(r) PROVE TypeInv'
  <2>1. clean' \in BOOLEAN
    BY <1>5, Zenon DEF Crash
  <2>2. now' \in Time /\ events' \subseteq Time /\ stored' \in [Time -> 0..2]
        /\ missed' \subseteq Time /\ cursor' \in Time
    BY <1>5 DEF TypeInv, TypeOK, Crash, Leave
  <2>3. /\ stage' \in [Runners -> Stages]
        /\ job' \in [Runners -> Jobs \cup {NoJob}]
        /\ from' \in [Runners -> Time]
        /\ pending' \in [Runners -> SUBSET Time]
        /\ upto' \in [Runners -> Time]
    BY <1>5, CollectionAssumption DEF TypeInv, TypeOK, Crash, Leave, Stages, Time
  <2>4. /\ run' \in [Runners -> {"none", "running", "success", "error"}]
        /\ jobs' \in [Jobs -> {"new", "queued", "delivered", "acked", "expired"}]
        /\ asked' \in [Jobs -> Time]
    BY <1>5 DEF TypeInv, TypeOK, Crash, Leave
  <2>5. PastInv'
    BY <1>5, CollectionAssumption DEF TypeInv, TypeOK, PastInv, Crash, Leave, Time
  <2> QED BY <2>1, <2>2, <2>3, <2>4, <2>5 DEF TypeInv, TypeOK
<1>6. CASE UNCHANGED vars
  BY <1>6 DEF TypeInv, TypeOK, PastInv, vars
<1> QED BY <1>1, <1>2, <1>3, <1>4, <1>5, <1>6 DEF Next

LEMMA TypeInvCorrect == Spec => []TypeInv
<1> QED BY TypeInvInit, TypeInvStep, PTL DEF Spec

\* Every variable keeps its type (collector.go, cloudtrail.go, queue.go).
THEOREM TypeCorrect == Spec => []TypeOK
<1>1. TypeInv => TypeOK
  BY DEF TypeInv
<1> QED BY <1>1, TypeInvCorrect, PTL

-----------------------------------------------------------------------------
(* What a run has looked at.                                               *)

Seen(r, e) == Accounted(e) \/ e \in pending[r]

\* What each runner knows to be accounted for, from the cursor it loaded to the answer
\* it will give; and the job it holds has been requested, so that its time is fixed.
RunInv(r) ==
  /\ job[r] # NoJob => jobs[job[r]] # "new"
  /\ stage[r] = "collect" => \A e \in events : e <= from[r] => Accounted(e)
  /\ stage[r] = "insert" => \A e \in events : e <= upto[r] => Seen(r, e)
  /\ stage[r] = "insert" /\ job[r] # NoJob =>
       \A e \in events : e <= asked[job[r]] => Seen(r, e)
  /\ stage[r] \in {"finish", "ack"} /\ job[r] # NoJob =>
       \A e \in events : e <= asked[job[r]] => Accounted(e)

CoverInv ==
  /\ CursorAccounted
  /\ AckedIsCovered
  /\ \A r \in Runners : RunInv(r)

CInv == TypeInv /\ CoverInv

\* The table only grows, and what was missed stays missed.
LEMMA AccountedStays ==
  ASSUME TypeInv, [Next]_vars, NEW e \in Time, Accounted(e)
  PROVE  Accounted(e)'
<1>1. CASE stored' = stored /\ missed \subseteq missed'
  BY <1>1 DEF Accounted
<1>2. ASSUME NEW r \in Runners, NEW f \in pending[r], InsertEvent(r, f)
      PROVE  Accounted(e)'
  BY <1>2 DEF InsertEvent, Accounted, TypeInv, TypeOK
<1>3. ASSUME NEW r \in Runners, Collect(r) PROVE Accounted(e)'
  BY <1>1, <1>3 DEF Collect, Read
<1>4. ASSUME NEW r \in Runners, RunStep(r) PROVE Accounted(e)'
  BY <1>1, <1>2, <1>3, <1>4
  DEF RunStep, Begin, BeginFails, CollectFails, InsertFails, SaveCursor, Finish, Ack, Nak, Leave
<1>5. CASE BrokerStep
  BY <1>1, <1>5 DEF BrokerStep, Publish, Deliver, Redeliver, Age
<1> QED BY <1>1, <1>4, <1>5 DEF Next, Tick, StartDirect, Crash, Leave, vars

\* A runner that a step leaves alone, and whose job it leaves alone, keeps its invariant.
LEMMA RunInvFrame ==
  ASSUME TypeInv, [Next]_vars, NEW s \in Runners, RunInv(s),
         events' = events,
         stage'[s] = stage[s], job'[s] = job[s], from'[s] = from[s], upto'[s] = upto[s],
         pending'[s] = pending[s],
         job[s] # NoJob => jobs'[job[s]] # "new" /\ asked'[job[s]] = asked[job[s]]
  PROVE  RunInv(s)'
<1>1. \A e \in events : Accounted(e) => Accounted(e)'
  BY AccountedStays DEF TypeInv, TypeOK
<1>2. \A e \in events : Seen(s, e) => Seen(s, e)'
  BY <1>1 DEF Seen
<1> HIDE DEF Accounted, Seen
<1> QED BY <1>1, <1>2 DEF RunInv

\* So does what is known of the cursor and of the acked jobs.
LEMMA CoverFrame ==
  ASSUME TypeInv, [Next]_vars, CursorAccounted, AckedIsCovered, events' = events
  PROVE  /\ cursor' = cursor => CursorAccounted'
         /\ (\A j \in Jobs : jobs'[j] = "acked" => jobs[j] = "acked" /\ asked'[j] = asked[j])
              => AckedIsCovered'
<1>1. \A e \in events : Accounted(e) => Accounted(e)'
  BY AccountedStays DEF TypeInv, TypeOK
<1> HIDE DEF Accounted
<1> QED BY <1>1 DEF CursorAccounted, AckedIsCovered

LEMMA BrokerCover ==
  ASSUME CInv, [Next]_vars,
         NEW j \in Jobs, Publish(j) \/ Deliver(j) \/ Redeliver(j) \/ Age(j)
  PROVE  CoverInv'
<1>1. events' = events /\ cursor' = cursor
  BY DEF Publish, Deliver, Redeliver, Age
<1>2. \A i \in Jobs : jobs'[i] = "acked" => jobs[i] = "acked" /\ asked'[i] = asked[i]
  BY DEF Publish, Deliver, Redeliver, Age, CInv, TypeInv, TypeOK
<1>3. CursorAccounted' /\ AckedIsCovered'
  BY <1>1, <1>2, CoverFrame DEF CInv, CoverInv
<1>4. ASSUME NEW s \in Runners, ~(Deliver(j) /\ s = Consumer) PROVE RunInv(s)'
  <2>1. /\ stage'[s] = stage[s] /\ job'[s] = job[s] /\ from'[s] = from[s]
        /\ upto'[s] = upto[s] /\ pending'[s] = pending[s]
    BY <1>4 DEF Publish, Deliver, Redeliver, Age, runVars, CInv, TypeInv, TypeOK
  <2>2. RunInv(s) /\ job[s] \in Jobs \cup {NoJob}
    BY DEF CInv, CoverInv, TypeInv, TypeOK
  <2>3. job[s] # NoJob => jobs[job[s]] # "new"
    BY <2>2 DEF RunInv
  <2>4. job[s] # NoJob => jobs'[job[s]] # "new" /\ asked'[job[s]] = asked[job[s]]
    BY <2>2, <2>3 DEF Publish, Deliver, Redeliver, Age, CInv, TypeInv, TypeOK
  <2> QED BY <1>1, <2>1, <2>2, <2>4, RunInvFrame DEF CInv
<1>5. ASSUME Deliver(j) PROVE RunInv(Consumer)'
  BY <1>5, CollectionAssumption DEF RunInv, Deliver, Runners, CInv, TypeInv, TypeOK
<1> QED BY <1>3, <1>4, <1>5 DEF CoverInv

\* Collect sees or misses everything in its window, and the rest was accounted for.
LEMMA CollectCover ==
  ASSUME CInv, [Next]_vars, NEW r \in Runners, Collect(r)
  PROVE  RunInv(r)'
<1>1. PICK limit \in Limits : Read(r, Window(r), limit)
  BY DEF Collect
<1>2. \A e \in events : e > from[r] => Seen(r, e)'
  BY <1>1 DEF Read, Window, Seen, Accounted, CInv, TypeInv, TypeOK
<1>3. \A e \in events : e <= from[r] => Accounted(e)
  BY DEF Collect, CInv, CoverInv, RunInv
<1>4. \A e \in events : e <= from[r] => Seen(r, e)'
  BY <1>3, AccountedStays DEF Seen, CInv, TypeInv, TypeOK
<1>5. \A e \in events : e > from[r] \/ e <= from[r]
  BY DEF CInv, TypeInv, TypeOK, Time
<1>6. stage'[r] = "insert" /\ events' = events /\ job'[r] = job[r] /\ jobs' = jobs
  BY DEF Collect, CInv, TypeInv, TypeOK, queueVars
<1>7. job[r] # NoJob => jobs[job[r]] # "new"
  BY DEF CInv, CoverInv, RunInv
<1> HIDE DEF Seen, Accounted
<1> QED BY <1>2, <1>4, <1>5, <1>6, <1>7 DEF RunInv

\* The steps of one run, r, and what they leave to the others.
LEMMA RunCover ==
  ASSUME CInv, [Next]_vars, NEW r \in Runners, RunStep(r) \/ StartDirect(r) \/ Crash(r)
  PROVE  \A s \in Runners : RunInv(s)'
<1>1. events' = events /\ asked' = asked
  BY DEF RunStep, Begin, BeginFails, Collect, CollectFails, InsertEvent, InsertFails,
         SaveCursor, Finish, Ack, Nak, Leave, StartDirect, Crash, queueVars
<1>2. \A j \in Jobs : jobs[j] # "new" => jobs'[j] # "new"
  BY DEF RunStep, Begin, BeginFails, Collect, CollectFails, InsertEvent, InsertFails,
         SaveCursor, Finish, Ack, Nak, Answer, StartDirect, Crash, queueVars
<1>3. ASSUME NEW s \in Runners, s # r PROVE RunInv(s)'
  <2>1. RunInv(s) /\ job[s] \in Jobs \cup {NoJob}
    BY DEF CInv, CoverInv, TypeInv, TypeOK
  <2>2. /\ stage'[s] = stage[s] /\ job'[s] = job[s] /\ from'[s] = from[s]
        /\ upto'[s] = upto[s] /\ pending'[s] = pending[s]
    BY <1>3 DEF CInv, TypeInv, TypeOK, RunStep, Begin, BeginFails, Collect, Read,
         CollectFails, InsertEvent, InsertFails, SaveCursor, Finish, Ack, Nak, Leave,
         StartDirect, Crash, queueVars
  <2>3. job[s] # NoJob => jobs'[job[s]] # "new" /\ asked'[job[s]] = asked[job[s]]
    BY <1>1, <1>2, <2>1 DEF RunInv
  <2> QED BY <1>1, <2>1, <2>2, <2>3, RunInvFrame DEF CInv
<1>4. RunInv(r) /\ job[r] \in Jobs \cup {NoJob}
  BY DEF CInv, CoverInv, TypeInv, TypeOK
<1>5. job[r] # NoJob => jobs'[job[r]] # "new"
  BY <1>2, <1>4 DEF RunInv
<1>6. \A e \in events : Accounted(e) => Accounted(e)'
  BY AccountedStays DEF CInv, TypeInv, TypeOK
<1>7. ASSUME Begin(r) PROVE RunInv(r)'
  <2>1. PICK c \in {cursor, 0} : from' = [from EXCEPT ![r] = c]
    BY <1>7 DEF Begin
  <2>2. \A e \in events : e <= c => e <= cursor
    BY <2>1 DEF CInv, TypeInv, TypeOK, Time
  <2>3. \A e \in events : e <= c => Accounted(e)'
    BY <2>2, <1>6 DEF CInv, CoverInv, CursorAccounted
  <2>4. stage'[r] = "collect" /\ from'[r] = c /\ job'[r] = job[r]
    BY <1>7, <2>1 DEF Begin, CInv, TypeInv, TypeOK
  <2> HIDE DEF Accounted
  <2> QED BY <1>1, <1>5, <2>3, <2>4 DEF RunInv
<1>8. ASSUME Collect(r) PROVE RunInv(r)'
  BY <1>8, CollectCover
<1>9. ASSUME NEW f \in pending[r], InsertEvent(r, f) \/ InsertFails(r, f)
      PROVE  RunInv(r)'
  <2>1. Accounted(f)'
    BY <1>9 DEF InsertEvent, InsertFails, Accounted, CInv, TypeInv, TypeOK
  <2>2. pending'[r] = pending[r] \ {f}
    BY <1>9 DEF InsertEvent, InsertFails, CInv, TypeInv, TypeOK
  <2>3. \A e \in events : Seen(r, e) => Seen(r, e)'
    BY <1>6, <2>1, <2>2 DEF Seen
  <2>4. stage' = stage /\ job' = job /\ upto' = upto /\ stage[r] = "insert"
    BY <1>9 DEF InsertEvent, InsertFails
  <2> HIDE DEF Seen, Accounted
  <2> QED BY <1>1, <1>4, <1>5, <2>3, <2>4 DEF RunInv
<1>10. ASSUME SaveCursor(r) PROVE RunInv(r)'
  <2>1. \A e \in events : Seen(r, e) => Accounted(e)'
    BY <1>6, <1>10 DEF SaveCursor, Seen
  <2>2. stage'[r] = "finish" /\ job' = job /\ stage[r] = "insert"
    BY <1>10 DEF SaveCursor, CInv, TypeInv, TypeOK
  <2> HIDE DEF Seen, Accounted
  <2> QED BY <1>1, <1>4, <1>5, <2>1, <2>2 DEF RunInv
<1>11. ASSUME Finish(r) PROVE RunInv(r)'
  <2>1. stage'[r] = "ack" /\ job' = job /\ stage[r] = "finish"
    BY <1>11 DEF Finish, CInv, TypeInv, TypeOK
  <2> HIDE DEF Seen, Accounted
  <2> QED BY <1>1, <1>4, <1>5, <1>6, <2>1 DEF RunInv
<1>12. ASSUME BeginFails(r) \/ CollectFails(r) \/ StartDirect(r) PROVE RunInv(r)'
  <2>1. stage'[r] \in {"nak", "begin"} /\ job' = job
    BY <1>12 DEF BeginFails, CollectFails, StartDirect, CInv, TypeInv, TypeOK
  <2> QED BY <1>5, <2>1 DEF RunInv
<1>13. ASSUME Ack(r) \/ Nak(r) \/ Crash(r) PROVE RunInv(r)'
  <2>1. stage'[r] = "idle" /\ job'[r] = NoJob
    BY <1>13 DEF Ack, Nak, Crash, Leave, CInv, TypeInv, TypeOK
  <2> QED BY <2>1 DEF RunInv
<1>14. RunInv(r)'
  BY <1>7, <1>8, <1>9, <1>10, <1>11, <1>12, <1>13 DEF RunStep
<1> QED BY <1>3, <1>14

\* The cursor is saved after the last insert, and by then everything up to it is known.
LEMMA CursorCover ==
  ASSUME CInv, [Next]_vars, NEW r \in Runners, RunStep(r) \/ StartDirect(r) \/ Crash(r)
  PROVE  CursorAccounted'
<1>1. \A e \in events : Accounted(e) => Accounted(e)'
  BY AccountedStays DEF CInv, TypeInv, TypeOK
<1>2. events' = events
  BY DEF RunStep, Begin, BeginFails, Collect, CollectFails, InsertEvent, InsertFails,
         SaveCursor, Finish, Ack, Nak, Leave, StartDirect, Crash
<1>3. CASE cursor' = cursor
  BY <1>2, <1>3, CoverFrame DEF CInv, CoverInv
<1>4. CASE SaveCursor(r) /\ cursor' = upto[r]
  <2>1. \A e \in events : e <= upto[r] => Seen(r, e)
    BY <1>4 DEF SaveCursor, CInv, CoverInv, RunInv
  <2>2. \A e \in events : e <= upto[r] => Accounted(e)
    BY <1>4, <2>1 DEF SaveCursor, Seen
  <2> HIDE DEF Accounted
  <2> QED BY <1>1, <1>2, <1>4, <2>2 DEF CursorAccounted
<1>5. cursor' = cursor \/ (SaveCursor(r) /\ cursor' = upto[r])
  BY DEF RunStep, Begin, BeginFails, Collect, CollectFails, InsertEvent, InsertFails,
         SaveCursor, Finish, Ack, Nak, Leave, StartDirect, Crash
<1> QED BY <1>3, <1>4, <1>5

\* Only the runner that holds a job and has finished acks it.
LEMMA AckCover ==
  ASSUME CInv, [Next]_vars, NEW r \in Runners, RunStep(r) \/ StartDirect(r) \/ Crash(r)
  PROVE  AckedIsCovered'
<1>1. \A e \in events : Accounted(e) => Accounted(e)'
  BY AccountedStays DEF CInv, TypeInv, TypeOK
<1>2. events' = events /\ asked' = asked
  BY DEF RunStep, Begin, BeginFails, Collect, CollectFails, InsertEvent, InsertFails,
         SaveCursor, Finish, Ack, Nak, Leave, StartDirect, Crash, queueVars
<1>3. CASE \A j \in Jobs : jobs'[j] = "acked" => jobs[j] = "acked"
  BY <1>2, <1>3, CoverFrame DEF CInv, CoverInv
<1>4. CASE Ack(r)
  <2>1. \A j \in Jobs : jobs'[j] = "acked" => jobs[j] = "acked" \/ j = job[r]
    BY <1>4 DEF Ack, Answer
  <2>2. job[r] \in Jobs => \A e \in events : e <= asked[job[r]] => Accounted(e)
    BY <1>4, CollectionAssumption DEF Ack, CInv, CoverInv, RunInv
  <2>3. \A j \in Jobs : jobs[j] = "acked" =>
          \A e \in events : e <= asked[j] => Accounted(e)
    BY DEF CInv, CoverInv, AckedIsCovered
  <2> HIDE DEF Accounted
  <2> QED BY <1>1, <1>2, <2>1, <2>2, <2>3 DEF AckedIsCovered
<1>5. Ack(r) \/ \A j \in Jobs : jobs'[j] = "acked" => jobs[j] = "acked"
  BY DEF RunStep, Begin, BeginFails, Collect, CollectFails, InsertEvent, InsertFails,
         SaveCursor, Finish, Nak, Answer, StartDirect, Crash, queueVars
<1> QED BY <1>3, <1>4, <1>5

LEMMA CInvStep == CInv /\ [Next]_vars => CInv'
<1> SUFFICES ASSUME CInv, [Next]_vars PROVE CoverInv'
  BY TypeInvStep DEF CInv
<1>1. CASE Tick
  <2>1. \A e \in events : Accounted(e) => Accounted(e)'
    BY AccountedStays DEF CInv, TypeInv, TypeOK
  <2>2. events' \subseteq events \cup {now + 1}
    BY <1>1 DEF Tick
  <2>3. now \in Nat /\ ~(now + 1 <= now)
    BY CollectionAssumption DEF CInv, TypeInv, TypeOK, Time
  <2>4. ~(now + 1 <= cursor) /\ \A j \in Jobs : ~(now + 1 <= asked[j])
    BY <2>3 DEF CInv, TypeInv, TypeOK, PastInv, Time
  <2>5. \A r \in Runners : ~(now + 1 <= from[r]) /\ ~(now + 1 <= upto[r])
    BY <2>3 DEF CInv, TypeInv, TypeOK, PastInv, Time
  <2>6. UNCHANGED <<cursor, jobs, asked, stage, job, from, upto, pending>>
    BY <1>1 DEF Tick, runVars, queueVars
  <2>7. \A r \in Runners, e \in events : Seen(r, e) => Seen(r, e)'
    BY <2>1, <2>6 DEF Seen
  <2>8. CursorAccounted' /\ AckedIsCovered'
    <3> HIDE DEF Accounted
    <3> QED BY <2>1, <2>2, <2>4, <2>6 DEF CursorAccounted, AckedIsCovered, CInv, CoverInv
  <2>9. ASSUME NEW r \in Runners PROVE RunInv(r)'
    <3>1. RunInv(r) /\ (job[r] # NoJob => job[r] \in Jobs)
      BY DEF CInv, CoverInv, TypeInv, TypeOK
    <3> HIDE DEF Accounted, Seen
    <3> QED BY <2>1, <2>2, <2>4, <2>5, <2>6, <2>7, <3>1 DEF RunInv
  <2> QED BY <2>8, <2>9 DEF CoverInv
<1>2. CASE BrokerStep
  BY <1>2, BrokerCover DEF BrokerStep
<1>3. ASSUME NEW r \in Runners, StartDirect(r) \/ RunStep(r) \/ Crash(r)
      PROVE  CoverInv'
  BY <1>3, RunCover, CursorCover, AckCover DEF CoverInv
<1>4. CASE UNCHANGED vars
  BY <1>4 DEF vars, CInv, CoverInv, CursorAccounted, AckedIsCovered, RunInv, Seen, Accounted
<1> QED BY <1>1, <1>2, <1>3, <1>4 DEF Next

LEMMA CInvCorrect == Spec => []CInv
<1>1. Init => CInv
  <2>1. Init => CoverInv
    BY DEF Init, CoverInv, CursorAccounted, AckedIsCovered, RunInv
  <2> QED BY <2>1, TypeInvInit DEF CInv
<1> QED BY <1>1, CInvStep, PTL DEF Spec

\* Behind the cursor every event was inserted, or left out by a run for one of the causes
\* that `missed` names (collector.go: SetCursor comes after every insert, whatever fails,
\* crashes or overlaps).
THEOREM CursorIsAccounted == Spec => []CursorAccounted
<1>1. CInv => CursorAccounted
  BY DEF CInv, CoverInv
<1> QED BY <1>1, CInvCorrect, PTL

\* When a job is acked, every event up to its request was inserted or left out by a run
\* for one of those causes (queue.go: ConsumeCollect acks when the handler returns nil,
\* and only then).
THEOREM AcksAreCovered == Spec => []AckedIsCovered
<1>1. CInv => AckedIsCovered
  BY DEF CInv, CoverInv
<1> QED BY <1>1, CInvCorrect, PTL

-----------------------------------------------------------------------------
(* What keeps an event from being inserted twice.                          *)

\* Nobody else is between GetCursor and SetCursor.
OnlyActive == \A r, s \in Runners : Active(r) /\ Active(s) => r = s

\* A run works on the present cursor; what it has yet to insert is new and behind the
\* cursor it will save.
FreshRun(r) ==
  /\ stage[r] = "collect" => from[r] = cursor
  /\ stage[r] = "insert" =>
       /\ cursor <= upto[r]
       /\ \A e \in pending[r] : stored[e] = 0 /\ cursor < e /\ e <= upto[r]

\* What is in the table is there once, behind the cursor or in the window of a run.
OnceInv ==
  \A e \in Time :
    /\ stored[e] <= 1
    /\ stored[e] > 0 =>
         e <= cursor \/ \E r \in Runners : stage[r] = "insert" /\ e <= upto[r]

FreshInv == clean => OnlyActive /\ OnceInv /\ \A r \in Runners : FreshRun(r)

FInv == TypeInv /\ FreshInv

LEMMA ReachedCovers ==
  ASSUME TypeInv, NEW r \in Runners, NEW seen \in SUBSET Time,
         \A e \in seen : from[r] < e, NEW t \in Reached(r, seen)
  PROVE  from[r] <= t /\ \A e \in seen : e <= t
<1>1. from[r] \in Nat
  BY DEF TypeInv, TypeOK, Time
<1>2. CASE seen = {}
  BY <1>1, <1>2, CollectionAssumption
  DEF Reached, WindowStart, TypeInv, TypeOK, PastInv, Time
<1>3. CASE seen # {}
  <2>1. t \in seen /\ \A e \in seen : e <= t
    BY <1>3 DEF Reached
  <2> QED BY <1>1, <2>1 DEF Time
<1> QED BY <1>2, <1>3

\* A step that leaves the runners' windows, the cursor and the table alone.
LEMMA FreshFrame ==
  ASSUME FreshInv, clean' => clean,
         UNCHANGED <<stored, cursor, from, pending, upto>>,
         \A r \in Runners : /\ stage'[r] = "collect" => stage[r] = "collect"
                            /\ (stage'[r] = "insert") = (stage[r] = "insert")
  PROVE  FreshInv'
<1>1. \A r \in Runners : Active(r)' => Active(r)
  BY DEF Active
<1>2. ASSUME clean' PROVE OnlyActive' /\ OnceInv' /\ \A r \in Runners : FreshRun(r)'
  BY <1>1, <1>2 DEF FreshInv, OnlyActive, OnceInv, FreshRun
<1> QED BY <1>2 DEF FreshInv

LEMMA BeginFresh ==
  ASSUME FInv, NEW r \in Runners, Begin(r)
  PROVE  FreshInv'
<1> SUFFICES ASSUME clean' PROVE OnlyActive' /\ OnceInv' /\ \A s \in Runners : FreshRun(s)'
  BY DEF FreshInv
<1>1. PICK c : /\ from' = [from EXCEPT ![r] = c]
               /\ clean' = (clean /\ c = cursor /\ \A s \in Runners \ {r} : ~Active(s))
  BY DEF Begin
<1>2. clean /\ c = cursor /\ \A s \in Runners \ {r} : ~Active(s)
  BY <1>1, Zenon
<1>3. OnlyActive /\ OnceInv /\ \A s \in Runners : FreshRun(s)
  BY <1>2 DEF FInv, FreshInv
<1>4. /\ stage' = [stage EXCEPT ![r] = "collect"] /\ stage[r] = "begin"
      /\ UNCHANGED <<stored, cursor, pending, upto>>
  BY DEF Begin
<1>5. stage \in [Runners -> Stages] /\ from \in [Runners -> Time]
  BY DEF FInv, TypeInv, TypeOK
<1>6. OnlyActive'
  BY <1>2, <1>4, <1>5 DEF OnlyActive, Active
<1>7. OnceInv'
  BY <1>3, <1>4, <1>5 DEF OnceInv
<1>8. \A s \in Runners : FreshRun(s)'
  BY <1>1, <1>2, <1>3, <1>4, <1>5 DEF FreshRun
<1> QED BY <1>6, <1>7, <1>8

LEMMA CollectFresh ==
  ASSUME FInv, NEW r \in Runners, Collect(r)
  PROVE  FreshInv'
<1> SUFFICES ASSUME clean' PROVE OnlyActive' /\ OnceInv' /\ \A s \in Runners : FreshRun(s)'
  BY DEF FreshInv
<1>1. PICK limit \in Limits : Read(r, Window(r), limit)
  BY DEF Collect
<1> DEFINE seen == Newest(Window(r), limit)
<1>2. PICK t \in Reached(r, seen) : upto' = [upto EXCEPT ![r] = t]
  BY <1>1 DEF Read
<1>3. seen \in SUBSET Time /\ \A e \in seen : from[r] < e
  <2>1. ASSUME NEW e \in Window(r) PROVE e \in Time /\ from[r] < e
    <3>1. e \in Time /\ now \in Nat /\ Lookback \in Nat /\ Lookback < now
      BY CollectionAssumption DEF Window, FInv, TypeInv, TypeOK, PastInv, Time
    <3>2. CASE from[r] = 0
      BY <3>1, <3>2 DEF Window, Time
    <3> QED BY <3>1, <3>2 DEF Window
  <2>2. seen \subseteq Window(r)
    BY DEF Newest
  <2> HIDE DEF seen
  <2> QED BY <2>1, <2>2
<1>4. from[r] <= t /\ \A e \in seen : e <= t
  BY <1>2, <1>3, ReachedCovers DEF FInv
<1>5. pending' = [pending EXCEPT ![r] = seen]
  BY <1>1 DEF Read
<1> HIDE DEF seen
<1>6. /\ stage' = [stage EXCEPT ![r] = "insert"] /\ stage[r] = "collect"
      /\ UNCHANGED <<stored, cursor, from, clean>>
  BY DEF Collect
<1>7. OnlyActive /\ OnceInv /\ \A s \in Runners : FreshRun(s)
  BY <1>6 DEF FInv, FreshInv
<1>8. /\ stage \in [Runners -> Stages] /\ upto \in [Runners -> Time]
      /\ pending \in [Runners -> SUBSET Time] /\ stored \in [Time -> 0..2] /\ cursor \in Time
  BY DEF FInv, TypeInv, TypeOK
<1>9. from[r] = cursor /\ \A s \in Runners : Active(s) => s = r
  BY <1>6, <1>7 DEF FreshRun, OnlyActive, Active
<1>10. OnlyActive'
  BY <1>6, <1>7, <1>8 DEF OnlyActive, Active
<1>11. \A e \in Time : stored[e] > 0 => e <= cursor
  BY <1>6, <1>7, <1>9 DEF OnceInv, Active
<1>12. OnceInv'
  BY <1>6, <1>7, <1>11 DEF OnceInv
<1>13. \A e \in seen : stored[e] = 0 /\ cursor < e
  BY <1>3, <1>8, <1>9, <1>11 DEF Time
<1>14. FreshRun(r)'
  BY <1>2, <1>4, <1>5, <1>6, <1>8, <1>9, <1>13 DEF FreshRun
<1>15. ASSUME NEW s \in Runners, s # r PROVE FreshRun(s)'
  BY <1>6, <1>8, <1>9, <1>15 DEF FreshRun, Active
<1> QED BY <1>10, <1>12, <1>14, <1>15

\* The event was new, so it is there once, behind the cursor that r will save.
LEMMA InsertFresh ==
  ASSUME FInv, NEW r \in Runners, NEW f \in pending[r], InsertEvent(r, f) \/ InsertFails(r, f)
  PROVE  FreshInv'
<1> SUFFICES ASSUME clean' PROVE OnlyActive' /\ OnceInv' /\ \A s \in Runners : FreshRun(s)'
  BY DEF FreshInv
<1>1. /\ UNCHANGED <<cursor, from, upto, stage, clean>> /\ stage[r] = "insert"
      /\ pending' = [pending EXCEPT ![r] = @ \ {f}]
  BY DEF InsertEvent, InsertFails
<1>2. OnlyActive /\ OnceInv /\ \A s \in Runners : FreshRun(s)
  BY <1>1 DEF FInv, FreshInv
<1>3. /\ stage \in [Runners -> Stages] /\ upto \in [Runners -> Time]
      /\ pending \in [Runners -> SUBSET Time] /\ stored \in [Time -> 0..2] /\ cursor \in Time
  BY DEF FInv, TypeInv, TypeOK
<1>4. stored[f] = 0 /\ f <= upto[r] /\ f \in Time
  BY <1>1, <1>2, <1>3 DEF FreshRun
<1>5. stored' = stored \/ stored' = [stored EXCEPT ![f] = 1]
  <2>1. CASE InsertFails(r, f)
    BY <2>1 DEF InsertFails
  <2>2. CASE InsertEvent(r, f)
    <3>1. stored' = [stored EXCEPT ![f] = IF stored[f] < 2 THEN stored[f] + 1 ELSE stored[f]]
      BY <2>2, <1>3 DEF InsertEvent
    <3> QED BY <1>4, <3>1
  <2> QED BY <2>1, <2>2
<1>6. OnlyActive'
  BY <1>1, <1>2 DEF OnlyActive, Active
<1>7. OnceInv'
  BY <1>1, <1>2, <1>3, <1>4, <1>5 DEF OnceInv
<1>8. FreshRun(r)'
  BY <1>1, <1>2, <1>3, <1>5 DEF FreshRun
<1>9. ASSUME NEW s \in Runners, s # r PROVE FreshRun(s)'
  <2>1. ~Active(s)
    BY <1>1, <1>2, <1>9 DEF OnlyActive, Active
  <2> QED BY <1>1, <2>1 DEF FreshRun, Active
<1> QED BY <1>6, <1>7, <1>8, <1>9

\* The window of r moves behind the cursor.
LEMMA SaveFresh ==
  ASSUME FInv, NEW r \in Runners, SaveCursor(r)
  PROVE  FreshInv'
<1> SUFFICES ASSUME clean' PROVE OnlyActive' /\ OnceInv' /\ \A s \in Runners : FreshRun(s)'
  BY DEF FreshInv
<1>1. /\ UNCHANGED <<stored, from, pending, upto>> /\ stage[r] = "insert"
      /\ stage' = [stage EXCEPT ![r] = "finish"]
  BY DEF SaveCursor
<1>2. cursor' = upto[r] /\ clean' = clean
  BY DEF SaveCursor
<1>3. OnlyActive /\ OnceInv /\ \A s \in Runners : FreshRun(s)
  BY <1>2 DEF FInv, FreshInv
<1>4. /\ stage \in [Runners -> Stages] /\ upto \in [Runners -> Time] /\ cursor \in Time
  BY DEF FInv, TypeInv, TypeOK
<1>5. cursor <= upto[r] /\ \A s \in Runners : Active(s) => s = r
  BY <1>1, <1>3 DEF FreshRun, OnlyActive, Active
<1>6. \A s \in Runners : ~Active(s)'
  BY <1>1, <1>4, <1>5 DEF Active
<1>7. \A e \in Time : stored[e] > 0 => e <= cursor \/ e <= upto[r]
  BY <1>3, <1>5 DEF OnceInv, Active
<1>8. \A e \in Time : stored[e] > 0 => e <= upto[r]
  BY <1>4, <1>5, <1>7 DEF Time
<1>9. OnceInv'
  BY <1>1, <1>2, <1>3, <1>8 DEF OnceInv
<1> QED BY <1>6, <1>9 DEF OnlyActive, FreshRun, Active

LEMMA FInvStep == FInv /\ [Next]_vars => FInv'
<1> SUFFICES ASSUME FInv, [Next]_vars PROVE FreshInv'
  BY TypeInvStep DEF FInv
<1>1. stage \in [Runners -> Stages]
  BY DEF FInv, TypeInv, TypeOK
<1>2. CASE Tick \/ BrokerStep \/ UNCHANGED vars
  <2>1. UNCHANGED <<stored, cursor, from, pending, upto, clean>>
    BY <1>2 DEF Tick, BrokerStep, Publish, Deliver, Redeliver, Age, runVars, vars
  <2>2. stage' = stage \/ stage' = [stage EXCEPT ![Consumer] = "begin"]
    BY <1>2 DEF Tick, BrokerStep, Publish, Deliver, Redeliver, Age, runVars, vars
  <2>3. stage' # stage => stage[Consumer] = "idle"
    BY <1>2 DEF Tick, BrokerStep, Publish, Deliver, Redeliver, Age, runVars, vars
  <2>4. \A r \in Runners : /\ stage'[r] = "collect" => stage[r] = "collect"
                           /\ (stage'[r] = "insert") = (stage[r] = "insert")
    BY <1>1, <2>2, <2>3
  <2> QED BY <2>1, <2>4, FreshFrame DEF FInv
<1>3. ASSUME NEW r \in Runners,
             StartDirect(r) \/ BeginFails(r) \/ CollectFails(r) \/ Finish(r)
      PROVE  FreshInv'
  BY <1>1, <1>3, FreshFrame DEF FInv, StartDirect, BeginFails, CollectFails, Finish
<1>4. ASSUME NEW r \in Runners, Ack(r) \/ Nak(r) PROVE FreshInv'
  <2> SUFFICES ASSUME clean' PROVE OnlyActive' /\ OnceInv' /\ \A s \in Runners : FreshRun(s)'
    BY DEF FreshInv
  <2>1. /\ UNCHANGED <<stored, cursor, clean>> /\ stage[r] \in {"ack", "nak"}
        /\ stage' = [stage EXCEPT ![r] = "idle"]
        /\ from' = [from EXCEPT ![r] = 0]
        /\ upto' = [upto EXCEPT ![r] = 0]
        /\ pending' = [pending EXCEPT ![r] = {}]
    BY <1>4 DEF Ack, Nak, Leave
  <2>2. OnlyActive /\ OnceInv /\ \A s \in Runners : FreshRun(s)
    BY <2>1 DEF FInv, FreshInv
  <2>3. /\ from \in [Runners -> Time] /\ upto \in [Runners -> Time]
        /\ pending \in [Runners -> SUBSET Time]
    BY DEF FInv, TypeInv, TypeOK
  <2>4. OnlyActive'
    BY <1>1, <2>1, <2>2 DEF OnlyActive, Active
  <2>5. OnceInv'
    BY <1>1, <2>1, <2>2, <2>3 DEF OnceInv
  <2>6. \A s \in Runners : FreshRun(s)'
    BY <1>1, <2>1, <2>2, <2>3 DEF FreshRun
  <2> QED BY <2>4, <2>5, <2>6
<1>5. ASSUME NEW r \in Runners, RunStep(r) PROVE FreshInv'
  BY <1>3, <1>4, <1>5, BeginFresh, CollectFresh, InsertFresh, SaveFresh DEF RunStep
<1>6. ASSUME NEW r \in Runners, Crash(r) PROVE FreshInv'
  BY <1>6 DEF Crash, FreshInv
<1> QED BY <1>2, <1>3, <1>5, <1>6 DEF Next

\* Without a crash, an overlap or a lost cursor no event is inserted twice, although no
\* key would refuse it (collector.go: GetCursor to SetCursor; misc.go: UsageRepo.Insert).
THEOREM EventsStoredOnce == Spec => []StoredOnce
<1>1. Init => FInv
  <2>1. Init => FreshInv
    BY DEF Init, FreshInv, OnlyActive, OnceInv, FreshRun, Active
  <2> QED BY <2>1, TypeInvInit DEF FInv
<1>2. FInv => StoredOnce
  BY DEF FInv, FreshInv, OnceInv, StoredOnce, TypeInv, TypeOK
<1> QED BY <1>1, <1>2, FInvStep, PTL DEF Spec
=============================================================================
