--------------------------- MODULE JobQueue_proofs --------------------------
(***************************************************************************)
(* Proofs about JobQueue, for every value of its constants; and at the end *)
(* that it implements JobService: each step of the queue is a step of the  *)
(* service or leaves it as it was.                                         *)
(***************************************************************************)
EXTENDS JobQueueService, TLAPS

-----------------------------------------------------------------------------
(* The tables and the local states keep their types. *)

Typed == TypeOK /\ HasTarget

USE DEF ActiveStatus, TerminalStatus, Holding

(* The idle enqueuer and the worker that is not running are well typed. *)
LEMMA LocalTypes ==
  /\ IdleEnqueuer \in Enqueuer
  /\ OffWorker \in Worker
  BY NumbersAssumption DEF Enqueuer, Worker, IdleEnqueuer, OffWorker

(* The initial state is well typed. *)
LEMMA InitTyped == Init => Typed
<1> SUFFICES ASSUME Init PROVE Typed
  OBVIOUS
<1>1. DOMAIN keywords = {} /\ DOMAIN jobs = {}
  BY DEF Init
<1>2. enq \in [Enqueuers -> Enqueuer] /\ worker \in [Workers -> Worker]
  BY LocalTypes DEF Init
<1>3. HasTarget
  BY DEF Init, HasTarget, IdleEnqueuer
<1>4. /\ keywords = [k \in {} |-> {}] /\ born = {} /\ lastJob = 0
      /\ workerLock = FALSE /\ app = "down" /\ interruptions = 0
  BY DEF Init
<1>5. 0 \in 0 .. MaxJobs /\ 0 \in 0 .. MaxInterruptions
  BY NumbersAssumption
<1> QED BY <1>1, <1>2, <1>3, <1>4, <1>5 DEF Typed, TypeOK

(* Deleting queued rows, as settings changes and the clean-up do. *)
LEMMA WithoutTyped ==
  ASSUME TypeOK, NEW D, jobs' = Without(D), lastJob' = lastJob
  PROVE  /\ DOMAIN jobs' \subseteq 1 .. lastJob'
         /\ \A j \in DOMAIN jobs' : jobs'[j] \in Job
  BY DEF TypeOK, Without

(* Rewriting a row of the jobs table or a thread's local state. *)
LEMMA RowTyped ==
  ASSUME NEW r \in Job, NEW s \in ActiveStatus \cup TerminalStatus,
         NEW n \in Nat, NEW b \in BOOLEAN, NEW c \in BOOLEAN
  PROVE  /\ [r EXCEPT !.status = s, !.waiting = b, !.stale = c] \in Job
         /\ [r EXCEPT !.status = s, !.attempts = n, !.waiting = b, !.stale = c] \in Job
         /\ [r EXCEPT !.stale = c] \in Job
         /\ [r EXCEPT !.waiting = c] \in Job
  BY DEF Job

(* Stale recovery rewrites rows into rows and removes none. *)
LEMMA RequeueStaleTyped ==
  ASSUME TypeOK, RequeueStale
  PROVE  DOMAIN jobs' = DOMAIN jobs /\ \A j \in DOMAIN jobs' : jobs'[j] \in Job
  BY RowTyped DEF TypeOK, RequeueStale

(* The local states a starting or claiming worker enters are well typed. *)
LEMMA LocalTyped ==
  ASSUME NEW j \in 0 .. MaxJobs
  PROVE  /\ [OffWorker EXCEPT !.pc = "claim", !.job = j] \in Worker
         /\ [OffWorker EXCEPT !.pc = "exit"] \in Worker
         /\ [OffWorker EXCEPT !.pc = "select"] \in Worker
<1>1. OffWorker \in Worker
  BY LocalTypes
<1> QED BY <1>1 DEF Worker

(* Starting a worker thread keeps the types of thread and lock. *)
LEMMA StartWorkerTyped ==
  ASSUME TypeOK, NEW w \in Workers, StartWorker(w)
  PROVE  worker' \in [Workers -> Worker] /\ workerLock' \in BOOLEAN
  BY DEF TypeOK, StartWorker, Worker

(* Settings changes keep the types. *)
LEMMA KeywordTyped == Typed /\ KeywordStep => Typed'
<1> SUFFICES ASSUME Typed, KeywordStep PROVE Typed'
  OBVIOUS
<1> USE DEF Typed, TypeOK, HasTarget
<1>1. ASSUME NEW k \in Keywords, AddKeyword(k) PROVE Typed'
  BY <1>1, WindowsAssumption DEF AddKeyword, Keyword
<1>2. ASSUME NEW k \in Keywords, ToggleKeyword(k) PROVE Typed'
  BY <1>2 DEF ToggleKeyword, Keyword
<1>3. ASSUME NEW k \in Keywords, DeleteKeyword(k) PROVE Typed'
  BY <1>3 DEF DeleteKeyword, Job
<1>4. ASSUME NEW tfs, WriteTimeframes(tfs),
             \A k \in DOMAIN tfs : tfs[k] \in (SUBSET Timeframes) \ {{}}
      PROVE  Typed'
  <2>1. \A k \in DOMAIN keywords' : keywords'[k] \in Keyword
    BY <1>4 DEF WriteTimeframes, Keyword
  <2>2. DOMAIN keywords' = DOMAIN keywords
    BY <1>4 DEF WriteTimeframes
  <2>3. /\ DOMAIN jobs' \subseteq 1 .. lastJob'
        /\ \A j \in DOMAIN jobs' : jobs'[j] \in Job
    BY <1>4, WithoutTyped DEF WriteTimeframes
  <2> QED BY <1>4, <2>1, <2>2, <2>3 DEF WriteTimeframes
<1>5. ASSUME NEW k \in Keywords, NEW s \in (SUBSET Timeframes) \ {{}},
             UpdateTimeframes(k, s)
      PROVE  Typed'
  <2> DEFINE tfs == [i \in {k} |-> s]
  <2>1. WriteTimeframes(tfs) /\ \A i \in DOMAIN tfs : tfs[i] \in (SUBSET Timeframes) \ {{}}
    BY <1>5 DEF UpdateTimeframes
  <2> HIDE DEF tfs
  <2> QED BY <2>1, <1>4
<1>6. ASSUME NEW ks \in (SUBSET Keywords) \ {{}}, NEW s \in (SUBSET Timeframes) \ {{}},
             NEW a \in BOOLEAN, BulkAdjustTimeframes(ks, s, a)
      PROVE  Typed'
  <2> DEFINE tfs == [k \in ks |-> IF a THEN keywords[k].timeframes \cup s
                                       ELSE keywords[k].timeframes \ s]
  <2>1. WriteTimeframes(tfs) /\ ks \subseteq DOMAIN keywords /\ \A k \in ks : tfs[k] # {}
    BY <1>6 DEF BulkAdjustTimeframes
  <2>2. \A k \in ks : keywords[k].timeframes \subseteq Timeframes
    BY <2>1 DEF Keyword
  <2>3. \A k \in DOMAIN tfs : tfs[k] \in (SUBSET Timeframes) \ {{}}
    <3>1. \A k \in ks : tfs[k] \subseteq Timeframes
      BY <2>2
    <3>2. DOMAIN tfs = ks
      OBVIOUS
    <3> HIDE DEF tfs
    <3> QED BY <2>1, <3>1, <3>2
  <2> HIDE DEF tfs
  <2> QED BY <2>1, <2>3, <1>4
<1>7. ASSUME NEW k \in Keywords, NEW s \in (SUBSET Gprops) \ {{}}, UpdateGprops(k, s)
      PROVE  Typed'
  <2>1. \A i \in DOMAIN keywords' : keywords'[i] \in Keyword
    BY <1>7 DEF UpdateGprops, Keyword
  <2>2. DOMAIN keywords' = DOMAIN keywords
    BY <1>7 DEF UpdateGprops
  <2>3. /\ DOMAIN jobs' \subseteq 1 .. lastJob'
        /\ \A j \in DOMAIN jobs' : jobs'[j] \in Job
    BY <1>7, WithoutTyped DEF UpdateGprops
  <2> QED BY <1>7, <2>1, <2>2, <2>3 DEF UpdateGprops
<1> QED BY <1>1, <1>2, <1>3, <1>5, <1>6, <1>7 DEF KeywordStep

(* An enqueuer's steps keep the types. *)
LEMMA EnqueueTyped ==
  ASSUME Typed, NEW e \in Enqueuers, EnqueueStep(e)
  PROVE  Typed'
<1> USE LocalTypes DEF Typed, TypeOK, HasTarget
<1>1. ASSUME NEW targets \in SUBSET Targets, Begin(e, targets) PROVE Typed'
  <2>1. [IdleEnqueuer EXCEPT !.pc = "check", !.todo = targets] \in Enqueuer
    BY DEF Enqueuer, IdleEnqueuer
  <2> QED BY <1>1, <2>1 DEF Begin, IdleEnqueuer, db
<1>2. \A k \in DOMAIN keywords : \A tfs : Windows(k, tfs) \subseteq Targets
  BY DEF Windows, Keyword, Targets
<1>3. \A tfs : EnabledTargets(tfs) \subseteq Targets
  BY <1>2 DEF EnabledTargets
<1>4. CASE EnqueueScheduled(e)
  BY <1>1, <1>3, <1>4 DEF EnqueueScheduled
<1>5. CASE CollectNow(e)
  BY <1>1, <1>3, <1>5 DEF CollectNow
<1>6. ASSUME NEW k \in Keywords, CollectOne(e, k) PROVE Typed'
  BY <1>1, <1>2, <1>6 DEF CollectOne
<1>7. ASSUME NEW t PROVE Done(e, t) \in Enqueuer /\ Done(e, t).pc = "check"
  <2>1. enq[e] \in Enqueuer /\ 0 \in 0 .. MaxJobs
    BY NumbersAssumption
  <2>2. enq[e].todo \ {t} \in SUBSET Targets
    BY <2>1 DEF Enqueuer
  <2> QED BY <2>1, <2>2 DEF Done, Enqueuer
<1>8. ASSUME NEW t \in Targets, CheckExisting(e, t) PROVE Typed'
  <2>1. [enq[e] EXCEPT !.pc = "insert", !.target = t] \in Enqueuer
    BY DEF Enqueuer
  <2>2. enq' \in [Enqueuers -> Enqueuer]
    BY <1>7, <1>8, <2>1 DEF CheckExisting
  <2>3. HasTarget'
    BY <1>7, <1>8 DEF CheckExisting, Enqueuer
  <2> QED BY <1>8, <2>2, <2>3 DEF CheckExisting, db
<1>9. CASE InsertJob(e)
  <2>1. enq[e].target \in Targets /\ lastJob + 1 \in 1 .. MaxJobs
    BY <1>9, NumbersAssumption DEF InsertJob
  <2>2. NewJob(enq[e].target) \in Job
    BY <2>1 DEF NewJob, Job, Targets
  <2>3. enq' \in [Enqueuers -> Enqueuer]
    <3>1. lastJob + 1 \in 0 .. MaxJobs
      BY <2>1
    <3>2. [enq[e] EXCEPT !.pc = "readback", !.job = lastJob + 1] \in Enqueuer
      BY <3>1 DEF Enqueuer
    <3> QED BY <1>9, <3>2 DEF InsertJob
  <2>4. HasTarget'
    BY <1>9, <2>1 DEF InsertJob, Enqueuer
  <2>5. lastJob' = lastJob + 1 /\ DOMAIN jobs' = DOMAIN jobs \cup {lastJob + 1}
    BY <1>9 DEF InsertJob
  <2>6. DOMAIN jobs' \subseteq 1 .. lastJob' /\ lastJob' \in 0 .. MaxJobs
    BY <2>1, <2>5, NumbersAssumption
  <2>7. \A j \in DOMAIN jobs' : jobs'[j] \in Job
    BY <1>9, <2>2 DEF InsertJob
  <2> QED BY <1>9, <2>3, <2>4, <2>6, <2>7 DEF InsertJob
<1>10. CASE InsertRefused(e)
  BY <1>10 DEF InsertRefused, IdleEnqueuer, db
<1>11. CASE ReadBack(e)
  BY <1>7, <1>11 DEF ReadBack, IdleEnqueuer, db
<1>12. CASE AbandonBatch(e)
  BY <1>12 DEF AbandonBatch, IdleEnqueuer, db
<1>13. CASE FinishBatch(e)
  <2>1. worker' \in [Workers -> Worker] /\ workerLock' \in BOOLEAN
    BY <1>13, StartWorkerTyped DEF FinishBatch
  <2> QED BY <1>13, <2>1 DEF FinishBatch, IdleEnqueuer, db
<1> QED BY <1>4, <1>5, <1>6, <1>8, <1>9, <1>10, <1>11, <1>12, <1>13 DEF EnqueueStep

(* The worker's timer and the worker's steps keep the types. *)
LEMMA WorkerTyped ==
  ASSUME Typed, NEW w \in Workers, Tick(w) \/ WorkerStep(w)
  PROVE  Typed'
<1> USE LocalTypes DEF Typed, TypeOK, HasTarget
<1>1. CASE Tick(w)
  BY <1>1 DEF Tick, StartWorker, Worker, db
<1>2. CASE Recover(w)
  <2>1. DOMAIN jobs' = DOMAIN jobs /\ \A j \in DOMAIN jobs' : jobs'[j] \in Job
    BY <1>2, RequeueStaleTyped DEF Recover
  <2> QED BY <1>2, <2>1 DEF Recover, Goto, Worker
<1>3. CASE Prune(w)
  <2>1. /\ DOMAIN jobs' \subseteq 1 .. lastJob'
        /\ \A j \in DOMAIN jobs' : jobs'[j] \in Job
    BY <1>3, WithoutTyped DEF Prune, DeleteUnmonitored
  <2> QED BY <1>3, <2>1 DEF Prune, Goto, Worker
<1>4. CASE Select(w)
  <2>1. PICK j \in DOMAIN jobs :
          worker' = [worker EXCEPT ![w] = [OffWorker EXCEPT !.pc = "claim", !.job = j]]
    BY <1>4 DEF Select, Claimable, Queued
  <2>2. worker' \in [Workers -> Worker]
    <3>1. j \in 0 .. MaxJobs
      BY NumbersAssumption
    <3> QED BY <2>1, <3>1, LocalTyped
  <2> QED BY <1>4, <2>2 DEF Select, db
<1>5. CASE FindNothing(w) \/ ClaimGone(w) \/ Die(w)
  <2>1. worker' \in [Workers -> Worker]
    BY <1>5 DEF FindNothing, ClaimGone, Die, Worker, OffWorker
  <2> QED BY <1>5, <2>1, NumbersAssumption DEF FindNothing, ClaimGone, Die, db
<1>6. CASE Claim(w)
  <2> DEFINE j == worker[w].job
  <2>1. j \in DOMAIN jobs /\ j \in 0 .. MaxJobs /\ DOMAIN jobs' = DOMAIN jobs
    BY <1>6 DEF Claim, Worker
  <2>2. \A i \in DOMAIN jobs' : jobs'[i] \in Job
    <3>1. jobs[j] \in Job /\ jobs[j].attempts + 1 \in Nat
      BY <2>1 DEF Job
    <3>2. Claimed(j) \in Job
      BY <3>1, RowTyped DEF Claimed
    <3> QED BY <1>6, <2>1, <3>2 DEF Claim
  <2>3. worker' \in [Workers -> Worker]
    BY <1>6, <2>1, <2>2 DEF Claim, Worker, Job
  <2> QED BY <1>6, <2>1, <2>2, <2>3 DEF Claim
<1>7. CASE Fetch(w) \/ Store(w) \/ Raise(w)
  <2>1. worker' \in [Workers -> Worker]
    BY <1>7 DEF Fetch, Store, Raise, Goto, Worker
  <2> QED BY <1>7, <2>1 DEF Fetch, Store, Raise, db
<1>8. ASSUME NEW status \in ActiveStatus \cup TerminalStatus, NEW waiting \in BOOLEAN,
             WriteOutcome(w, status, waiting)
      PROVE  Typed'
  <2>1. \A j \in DOMAIN jobs' : jobs'[j] \in Job
    BY <1>8, RowTyped DEF WriteOutcome
  <2>2. worker' \in [Workers -> Worker]
    BY <1>8 DEF WriteOutcome, Worker, OffWorker
  <2> QED BY <1>8, <2>1, <2>2 DEF WriteOutcome
<1>9. CASE Succeed(w)
  BY <1>8, <1>9 DEF Succeed
<1>10. CASE Retry(w)
  BY <1>8, <1>10 DEF Retry
<1>11. CASE GiveUp(w)
  BY <1>8, <1>11 DEF GiveUp
<1>12. CASE Release(w)
  BY <1>12 DEF Release, db
<1> QED BY <1>1, <1>2, <1>3, <1>4, <1>5, <1>6, <1>7, <1>9, <1>10, <1>11, <1>12
        DEF WorkerStep

(* The clock, the process's stops and starts, and stuttering keep the types. *)
LEMMA OtherTyped ==
  ASSUME Typed, ClockStep \/ ProcessStep \/ UNCHANGED vars
  PROVE  Typed'
<1> USE LocalTypes DEF Typed, TypeOK, HasTarget
<1>1. ASSUME NEW j \in JobIds, BecomeStale(j) \/ RetryDue(j) PROVE Typed'
  <2>1. \A i \in DOMAIN jobs' : jobs'[i] \in Job
    <3>1. j \in DOMAIN jobs => /\ [jobs[j] EXCEPT !.stale = TRUE] \in Job
                               /\ [jobs[j] EXCEPT !.waiting = FALSE] \in Job
      BY DEF Job
    <3> QED BY <1>1, <3>1 DEF BecomeStale, RetryDue
  <2> QED BY <1>1, <2>1 DEF BecomeStale, RetryDue
<1>2. CASE Crash
  <2>1. interruptions' \in 0 .. MaxInterruptions
    BY <1>2, NumbersAssumption DEF Crash
  <2>2. HasTarget'
    BY <1>2 DEF Crash, IdleEnqueuer
  <2> QED BY <1>2, <2>1, <2>2 DEF Crash, db
<1>3. CASE Boot
  <2>1. DOMAIN jobs' = DOMAIN jobs /\ \A i \in DOMAIN jobs' : jobs'[i] \in Job
    BY <1>3, RequeueStaleTyped DEF Boot
  <2> QED BY <1>3, <2>1 DEF Boot
<1>4. CASE BootPrune
  <2>1. /\ DOMAIN jobs' \subseteq 1 .. lastJob'
        /\ \A j \in DOMAIN jobs' : jobs'[j] \in Job
    BY <1>4, WithoutTyped DEF BootPrune, DeleteUnmonitored
  <2> QED BY <1>4, <2>1 DEF BootPrune
<1>5. CASE UNCHANGED vars
  BY <1>5 DEF vars
<1> QED BY <1>1, <1>2, <1>3, <1>4, <1>5 DEF ClockStep, ProcessStep

(* Every step keeps the types. *)
LEMMA StepTyped == Typed /\ [Next]_vars => Typed'
  BY KeywordTyped, EnqueueTyped, WorkerTyped, OtherTyped DEF Next

(* Every reachable state is well typed. *)
THEOREM TypeCorrect == Spec => []TypeOK
<1>1. Typed => TypeOK
  BY DEF Typed
<1> QED BY <1>1, InitTyped, StepTyped, PTL DEF Spec

-----------------------------------------------------------------------------
(* Steps of users, enqueuers, the scheduler and the clock are quiet: they   *)
(* add queued rows, remove queued rows, and change neither the status nor   *)
(* the attempts of a row that stays.                                        *)

ForMonitored(j) == jobs[j].keyword = NULL \/ Monitored(TargetOf(j))

Quiet ==
  /\ lastJob' \in {lastJob, lastJob + 1}
  /\ interruptions' = interruptions
  /\ app' = app
  /\ \A j \in DOMAIN jobs : jobs[j].status # "queued" => j \in DOMAIN jobs'
  /\ \A j \in DOMAIN jobs \cap DOMAIN jobs' :
       /\ jobs'[j].status = jobs[j].status
       /\ jobs'[j].attempts = jobs[j].attempts
       /\ jobs[j].status = "queued" /\ ForMonitored(j) => ForMonitored(j)'
  /\ \A j \in DOMAIN jobs' \ DOMAIN jobs :
       j = lastJob + 1 /\ jobs'[j].status = "queued" /\ jobs'[j].attempts = 0

(* What a quiet step does to the workers: nothing, or it starts one. *)
WorkersQuiet ==
  \/ worker' = worker /\ workerLock' = workerLock
  \/ \E w \in Workers : StartWorker(w)

(* A step that leaves the tables alone is quiet. *)
LEMMA SameTablesQuiet ==
  ASSUME jobs' = jobs, keywords' = keywords, lastJob' = lastJob,
         interruptions' = interruptions, app' = app
  PROVE  Quiet
  BY DEF Quiet, ForMonitored, Monitored, TargetOf

(* Settings changes touch no row that a worker has claimed. *)
LEMMA KeywordQuiet ==
  ASSUME Typed, KeywordStep
  PROVE  Quiet /\ WorkersQuiet
<1> USE DEF Quiet, WorkersQuiet, ForMonitored, Monitored, TargetOf
<1>1. ASSUME NEW k \in Keywords, AddKeyword(k) PROVE Quiet /\ WorkersQuiet
  BY <1>1 DEF AddKeyword, Typed, TypeOK
<1>2. ASSUME NEW k \in Keywords, ToggleKeyword(k) PROVE Quiet /\ WorkersQuiet
  BY <1>2 DEF ToggleKeyword, Typed, TypeOK, Keyword
<1>3. ASSUME NEW k \in Keywords, DeleteKeyword(k) PROVE Quiet /\ WorkersQuiet
  <2>1. DOMAIN jobs' = DOMAIN jobs /\ DOMAIN keywords' = DOMAIN keywords \ {k}
    BY <1>3 DEF DeleteKeyword
  <2>2. ASSUME NEW j \in DOMAIN jobs
        PROVE  /\ jobs'[j].status = jobs[j].status
               /\ jobs'[j].attempts = jobs[j].attempts
               /\ jobs'[j].timeframe = jobs[j].timeframe
               /\ jobs'[j].gprop = jobs[j].gprop
               /\ jobs'[j].keyword = IF jobs[j].keyword = k THEN NULL ELSE jobs[j].keyword
    BY <1>3, <2>2 DEF DeleteKeyword, Typed, TypeOK, Job
  <2>3. ASSUME NEW i \in DOMAIN keywords' PROVE keywords'[i] = keywords[i]
    BY <1>3, <2>3 DEF DeleteKeyword
  <2>4. ASSUME NEW j \in DOMAIN jobs, ForMonitored(j) PROVE ForMonitored(j)'
    BY <2>1, <2>2, <2>3, <2>4
  <2> QED BY <1>3, <2>1, <2>2, <2>4 DEF DeleteKeyword
<1>4. ASSUME NEW tfs, WriteTimeframes(tfs), app' = app PROVE Quiet /\ WorkersQuiet
  <2>1. /\ DOMAIN jobs' \subseteq DOMAIN jobs
        /\ \A j \in DOMAIN jobs' : jobs'[j] = jobs[j]
        /\ \A j \in DOMAIN jobs : jobs[j].status # "queued" => j \in DOMAIN jobs'
    BY <1>4 DEF WriteTimeframes, Without, Queued
  <2>2. \A j \in DOMAIN jobs' :
          jobs[j].status = "queued" /\ jobs[j].keyword \in DOMAIN tfs =>
            jobs[j].timeframe \in tfs[jobs[j].keyword]
    BY <1>4 DEF WriteTimeframes, Without, Queued
  <2>3. ASSUME NEW k \in DOMAIN keywords
        PROVE  /\ k \in DOMAIN keywords'
               /\ keywords'[k].gprops = keywords[k].gprops
               /\ keywords'[k].timeframes = IF k \in DOMAIN tfs THEN tfs[k]
                                            ELSE keywords[k].timeframes
    BY <1>4, <2>3 DEF WriteTimeframes, Typed, TypeOK, Keyword
  <2>4. ASSUME NEW j \in DOMAIN jobs', jobs[j].status = "queued", ForMonitored(j)
        PROVE  ForMonitored(j)'
    BY <2>1, <2>2, <2>3, <2>4
  <2> QED BY <1>4, <2>1, <2>4 DEF WriteTimeframes
<1>5. ASSUME NEW k \in Keywords, NEW s \in SUBSET Timeframes, UpdateTimeframes(k, s)
      PROVE  Quiet /\ WorkersQuiet
  BY <1>4, <1>5 DEF UpdateTimeframes, WriteTimeframes
<1>6. ASSUME NEW ks \in SUBSET Keywords, NEW s \in SUBSET Timeframes, NEW a \in BOOLEAN,
             BulkAdjustTimeframes(ks, s, a)
      PROVE  Quiet /\ WorkersQuiet
  BY <1>4, <1>6 DEF BulkAdjustTimeframes, WriteTimeframes
<1>7. ASSUME NEW k \in Keywords, NEW s \in SUBSET Gprops, UpdateGprops(k, s)
      PROVE  Quiet /\ WorkersQuiet
  <2>1. /\ DOMAIN jobs' \subseteq DOMAIN jobs
        /\ \A j \in DOMAIN jobs' : jobs'[j] = jobs[j]
        /\ \A j \in DOMAIN jobs : jobs[j].status # "queued" => j \in DOMAIN jobs'
        /\ \A j \in DOMAIN jobs' :
             jobs[j].status = "queued" /\ jobs[j].keyword = k => jobs[j].gprop \in s
    BY <1>7 DEF UpdateGprops, Without, Queued
  <2>2. ASSUME NEW i \in DOMAIN keywords
        PROVE  /\ i \in DOMAIN keywords'
               /\ keywords'[i].timeframes = keywords[i].timeframes
               /\ keywords'[i].gprops = IF i = k THEN s ELSE keywords[i].gprops
    BY <1>7, <2>2 DEF UpdateGprops, Typed, TypeOK, Keyword
  <2>3. ASSUME NEW j \in DOMAIN jobs', jobs[j].status = "queued", ForMonitored(j)
        PROVE  ForMonitored(j)'
    BY <2>1, <2>2, <2>3
  <2> QED BY <1>7, <2>1, <2>3 DEF UpdateGprops
<1> QED BY <1>1, <1>2, <1>3, <1>5, <1>6, <1>7 DEF KeywordStep

(* An enqueuer touches no row that a worker has claimed. *)
LEMMA EnqueueQuiet ==
  ASSUME Typed, NEW e \in Enqueuers, EnqueueStep(e)
  PROVE  Quiet /\ WorkersQuiet
<1>1. ASSUME NEW targets, Begin(e, targets) PROVE Quiet /\ WorkersQuiet
  BY <1>1, SameTablesQuiet DEF Begin, db, WorkersQuiet
<1>2. CASE EnqueueScheduled(e) \/ CollectNow(e) \/ \E k \in Keywords : CollectOne(e, k)
  BY <1>1, <1>2 DEF EnqueueScheduled, CollectNow, CollectOne
<1>3. CASE \E t \in Targets : CheckExisting(e, t)
  BY <1>3, SameTablesQuiet DEF CheckExisting, db, WorkersQuiet
<1>4. CASE InsertJob(e)
  <2>1. lastJob + 1 \notin DOMAIN jobs
    BY DEF Typed, TypeOK
  <2> QED BY <1>4, <2>1
          DEF InsertJob, NewJob, Quiet, WorkersQuiet, ForMonitored, Monitored, TargetOf
<1>5. CASE InsertRefused(e) \/ ReadBack(e) \/ AbandonBatch(e)
  BY <1>5, SameTablesQuiet DEF InsertRefused, ReadBack, AbandonBatch, db, WorkersQuiet
<1>6. CASE FinishBatch(e)
  BY <1>6, SameTablesQuiet DEF FinishBatch, db, WorkersQuiet
<1> QED BY <1>2, <1>3, <1>4, <1>5, <1>6 DEF EnqueueStep

(* The passing of time touches no row's status, count or window. *)
LEMMA ClockQuiet ==
  ASSUME Typed, ClockStep
  PROVE  Quiet /\ WorkersQuiet
<1>1. PICK j \in JobIds : BecomeStale(j) \/ RetryDue(j)
  BY DEF ClockStep
<1>2. \A i \in DOMAIN jobs :
        /\ jobs'[i].status = jobs[i].status /\ jobs'[i].attempts = jobs[i].attempts
        /\ jobs'[i].keyword = jobs[i].keyword /\ jobs'[i].timeframe = jobs[i].timeframe
        /\ jobs'[i].gprop = jobs[i].gprop
  BY <1>1 DEF BecomeStale, RetryDue, Typed, TypeOK, Job
<1>3. DOMAIN jobs' = DOMAIN jobs
  BY <1>1 DEF BecomeStale, RetryDue
<1> QED BY <1>1, <1>2, <1>3
        DEF BecomeStale, RetryDue, Quiet, WorkersQuiet, ForMonitored, Monitored, TargetOf

(* The worker's timer and stuttering touch no row. *)
LEMMA IdleQuiet ==
  ASSUME UNCHANGED vars \/ \E w \in Workers : Tick(w)
  PROVE  Quiet /\ WorkersQuiet
  BY SameTablesQuiet DEF vars, Tick, db, WorkersQuiet

-----------------------------------------------------------------------------
(* The inductive invariant. *)

(* The inductive invariant holds of an empty jobs table. *)
LEMMA InitInvariant == Init => IInv
<1> SUFFICES ASSUME Init PROVE IInv
  OBVIOUS
<1>1. Typed
  BY InitTyped
<1>2. (\A w \in Workers : worker[w].pc = "off") /\ DOMAIN jobs = {}
  BY DEF Init, OffWorker
<1> QED BY <1>1, <1>2
        DEF IInv, Typed, LockGuards, OneWorker, OffWhenDown, ChosenJob, WorkerOwnsJob,
            AttemptsLeft

(* Quiet steps: a job that is held stays as it is, and a job chosen but not *)
(* yet claimed stays claimable or disappears.                               *)
LEMMA QuietInvariant ==
  ASSUME IInv, Quiet, WorkersQuiet, Typed'
  PROVE  IInv'
<1>0. worker \in [Workers -> Worker]
  BY DEF IInv, TypeOK
<1>1. \A w \in Workers :
        \/ worker'[w] = worker[w]
        \/ worker'[w].pc = "recover" /\ worker[w].pc = "off"
  <2>1. ASSUME NEW v \in Workers, StartWorker(v), NEW w \in Workers
        PROVE  \/ worker'[w] = worker[w]
               \/ worker'[w].pc = "recover" /\ worker[w].pc = "off"
    BY <1>0, <2>1 DEF StartWorker, Worker
  <2> QED BY <2>1 DEF WorkersQuiet
<1> USE DEF IInv, Typed
<1>2. LockGuards' /\ OneWorker' /\ OffWhenDown'
  <2>1. CASE worker' = worker /\ workerLock' = workerLock
    BY <2>1 DEF LockGuards, OneWorker, OffWhenDown, Quiet
  <2>2. ASSUME NEW w \in Workers, StartWorker(w)
        PROVE  LockGuards' /\ OneWorker' /\ OffWhenDown'
    <3>1. \A v \in Workers : worker[v].pc = "off"
      BY <2>2 DEF StartWorker, LockGuards
    <3>2. \A v \in Workers : v # w => worker'[v].pc = "off"
      BY <2>2, <3>1 DEF StartWorker, TypeOK
    <3> QED BY <2>2, <3>2 DEF StartWorker, LockGuards, OneWorker, OffWhenDown, Quiet
  <2> QED BY <2>1, <2>2 DEF WorkersQuiet
<1>3. ChosenJob'
  <2> SUFFICES ASSUME NEW w \in Workers, worker'[w].pc = "claim",
                      NEW j, j = worker'[w].job
               PROVE  /\ j \in 1 .. lastJob'
                      /\ j \in DOMAIN jobs' =>
                           jobs'[j].status = "queued" /\ ForMonitored(j)'
    BY DEF ChosenJob, ForMonitored, Monitored, TargetOf
  <2>1. worker[w].pc = "claim" /\ j = worker[w].job
    BY <1>1
  <2>2. j \in 1 .. lastJob /\ lastJob \in Nat
    BY <2>1, NumbersAssumption DEF ChosenJob, TypeOK
  <2>3. j \in DOMAIN jobs => jobs[j].status = "queued" /\ ForMonitored(j)
    BY <2>1 DEF ChosenJob, ForMonitored
  <2>4. j \in DOMAIN jobs' => j \in DOMAIN jobs
    BY <2>2 DEF Quiet
  <2>5. j \in 1 .. lastJob'
    BY <2>2 DEF Quiet
  <2> HIDE DEF IInv, Typed
  <2>6. j \in DOMAIN jobs' => jobs'[j].status = "queued" /\ ForMonitored(j)'
    BY <2>3, <2>4 DEF Quiet
  <2> QED BY <2>5, <2>6
<1>4. \A w \in Workers :
        worker'[w].pc \in Holding <=> worker[w].pc \in Holding
  BY <1>1
<1>5. WorkerOwnsJob'
  <2> SUFFICES ASSUME NEW w \in Workers, worker'[w].pc \in Holding
               PROVE  /\ worker'[w].job \in DOMAIN jobs'
                      /\ jobs'[worker'[w].job].status = "running"
                      /\ jobs'[worker'[w].job].attempts = worker'[w].attempts
    BY DEF WorkerOwnsJob
  <2>1. worker'[w] = worker[w] /\ worker[w].pc \in Holding
    BY <1>1
  <2> QED BY <2>1 DEF WorkerOwnsJob, Quiet
<1>6. \A j : Held(j) <=> Held(j)'
  BY <1>1, <1>4 DEF Held
<1>7. AttemptsLeft'
  <2> SUFFICES ASSUME NEW j \in DOMAIN jobs'
               PROVE  /\ jobs'[j].attempts <= MaxAttempts + interruptions'
                      /\ jobs'[j].status \in ActiveStatus /\ ~Held(j)' =>
                           jobs'[j].attempts < MaxAttempts + interruptions'
    BY DEF AttemptsLeft
  <2>1. CASE j \in DOMAIN jobs
    BY <1>6, <2>1 DEF Quiet, AttemptsLeft
  <2>2. CASE j \notin DOMAIN jobs
    <3>1. jobs'[j].attempts = 0 /\ interruptions' = interruptions
      BY <2>2 DEF Quiet
    <3> QED BY <3>1, NumbersAssumption DEF TypeOK
  <2> QED BY <2>1, <2>2
<1> QED BY <1>2, <1>3, <1>5, <1>7

(* Worker steps.  Every other thread is off, so what matters is where this  *)
(* worker goes and what it does to its own job.                             *)
Alone(w) == \A v \in Workers : v # w => worker[v].pc = "off" /\ worker'[v].pc = "off"

(* While one worker thread steps every other one is off, and the step leaves *)
(* the process, the settings and the row counter alone.                      *)
LEMMA WorkerAlone ==
  ASSUME IInv, NEW w \in Workers, WorkerStep(w)
  PROVE  /\ Alone(w) /\ worker[w].pc # "off" /\ app = "up" /\ app' = app
         /\ keywords' = keywords /\ lastJob' = lastJob
         /\ worker'[w].pc # "off" => workerLock'
<1>1. worker[w].pc # "off"
  BY DEF WorkerStep, Recover, Prune, Select, FindNothing, Claim, ClaimGone, Fetch, Store,
         Succeed, Raise, Retry, GiveUp, Die, Release
<1>2. \A v \in Workers : v # w => worker[v].pc = "off"
  BY <1>1 DEF IInv, OneWorker
<1>3. worker \in [Workers -> Worker]
  BY DEF IInv, TypeOK
<1>4. \A v \in Workers : v # w => worker'[v] = worker[v]
  BY <1>3 DEF WorkerStep, Recover, Prune, Select, FindNothing, Claim, ClaimGone, Fetch, Store,
         Succeed, Raise, Retry, GiveUp, Die, Release, Goto, WriteOutcome
<1>5. app' = app /\ keywords' = keywords /\ lastJob' = lastJob
  BY DEF WorkerStep, Recover, Prune, Select, FindNothing, Claim, ClaimGone, Fetch, Store,
         Succeed, Raise, Retry, GiveUp, Die, Release, WriteOutcome, db
<1>6. app = "up" /\ workerLock
  BY <1>1 DEF IInv, OffWhenDown, LockGuards
<1>7. CASE Release(w)
  BY <1>1, <1>2, <1>3, <1>4, <1>5, <1>6, <1>7 DEF Release, OffWorker, Alone
<1>8. CASE ~Release(w)
  <2>1. workerLock' = workerLock
    BY <1>8 DEF WorkerStep, Recover, Prune, Select, FindNothing, Claim, ClaimGone, Fetch,
           Store, Succeed, Raise, Retry, GiveUp, Die, WriteOutcome
  <2> QED BY <1>1, <1>2, <1>4, <1>5, <1>6, <2>1 DEF Alone
<1> QED BY <1>7, <1>8

(* The three lock conjuncts then need no further look at the action. *)
LEMMA WorkerLocks ==
  ASSUME IInv, NEW w \in Workers, WorkerStep(w)
  PROVE  LockGuards' /\ OneWorker' /\ OffWhenDown'
  BY WorkerAlone DEF Alone, LockGuards, OneWorker, OffWhenDown

(* With the others off, the rest of the invariant is about w alone. *)
OwnsAfter(w) ==
  /\ worker'[w].pc = "claim" =>
       /\ worker'[w].job \in 1 .. lastJob
       /\ worker'[w].job \in DOMAIN jobs' =>
             /\ jobs'[worker'[w].job].status = "queued"
             /\ \/ jobs'[worker'[w].job].keyword = NULL
                \/ Monitored(<<jobs'[worker'[w].job].keyword,
                               jobs'[worker'[w].job].timeframe,
                               jobs'[worker'[w].job].gprop>>)
  /\ worker'[w].pc \in Holding =>
       /\ worker'[w].job \in DOMAIN jobs'
       /\ jobs'[worker'[w].job].status = "running"
       /\ jobs'[worker'[w].job].attempts = worker'[w].attempts

HeldAfter(w, j) == worker'[w].pc \in Holding /\ worker'[w].job = j

(* What is left to check of a worker's step: ownership after it, and the *)
(* attempts of each row.                                                 *)
LEMMA WorkerReduction ==
  ASSUME IInv, Typed', NEW w \in Workers, WorkerStep(w), OwnsAfter(w),
         \A j \in DOMAIN jobs' :
            /\ jobs'[j].attempts <= MaxAttempts + interruptions'
            /\ jobs'[j].status \in ActiveStatus /\ ~HeldAfter(w, j) =>
                  jobs'[j].attempts < MaxAttempts + interruptions'
  PROVE  IInv'
<1>1. \A v \in Workers : v # w => worker'[v].pc = "off"
  BY WorkerAlone DEF Alone
<1>2. keywords' = keywords /\ lastJob' = lastJob
  BY WorkerAlone
<1>3. ChosenJob'
  BY <1>1, <1>2 DEF ChosenJob, OwnsAfter, Monitored, TargetOf
<1>4. WorkerOwnsJob'
  BY <1>1 DEF WorkerOwnsJob, OwnsAfter
<1>5. \A j : HeldAfter(w, j) => Held(j)'
  BY DEF HeldAfter, Held
<1>6. AttemptsLeft'
  BY <1>5 DEF AttemptsLeft
<1> QED BY <1>3, <1>4, <1>6, WorkerLocks DEF IInv, Typed

(* A worker's step keeps the inductive invariant. *)
LEMMA WorkerInvariant ==
  ASSUME IInv, Typed', NEW w \in Workers, WorkerStep(w)
  PROVE  IInv'
<1> DEFINE job == worker[w].job
<1>1. worker \in [Workers -> Worker] /\ worker[w] \in Worker
  BY DEF IInv, TypeOK
<1>2. \A j : Held(j) <=> worker[w].pc \in Holding /\ j = job
  BY WorkerAlone DEF Alone, Held
<1>3. \A j \in DOMAIN jobs :
        /\ jobs[j] \in Job /\ jobs[j].attempts \in Nat
        /\ jobs[j].attempts <= MaxAttempts + interruptions
        /\ jobs[j].status \in ActiveStatus /\ ~(worker[w].pc \in Holding /\ j = job) =>
              jobs[j].attempts < MaxAttempts + interruptions
  BY <1>2 DEF IInv, AttemptsLeft, TypeOK, Job
<1>4. MaxAttempts \in Nat \ {0} /\ interruptions \in Nat /\ lastJob \in Nat
  BY NumbersAssumption DEF IInv, TypeOK
<1>5. worker[w].pc \in Holding =>
        /\ job \in DOMAIN jobs
        /\ jobs[job].status = "running"
        /\ jobs[job].attempts = worker[w].attempts
  BY DEF IInv, WorkerOwnsJob
<1>6. worker[w].pc = "claim" =>
        /\ job \in 1 .. lastJob
        /\ job \in DOMAIN jobs => jobs[job].status = "queued"
  BY DEF IInv, ChosenJob
<1>7. CASE Recover(w)
  <2>a. DOMAIN jobs' = DOMAIN jobs
    BY <1>7 DEF Recover, RequeueStale
  <2>b. worker' = [worker EXCEPT ![w].pc = "prune"] /\ interruptions' = interruptions
    BY <1>7 DEF Recover, Goto
  <2>1. DOMAIN jobs' = DOMAIN jobs /\ worker'[w].pc = "prune" /\ interruptions' = interruptions
    BY <1>1, <2>a, <2>b DEF Worker
  <2>2. \A j \in DOMAIN jobs : jobs'[j].attempts = jobs[j].attempts
                               /\ (jobs'[j].status \in ActiveStatus => jobs[j].status \in ActiveStatus)
    BY <1>3, <1>7 DEF Recover, RequeueStale, Job
  <2>3. worker[w].pc \notin Holding
    BY <1>7 DEF Recover
  <2> QED BY <1>3, <2>1, <2>2, <2>3, WorkerReduction DEF OwnsAfter, HeldAfter
<1>8. CASE Prune(w)
  <2>1. /\ DOMAIN jobs' \subseteq DOMAIN jobs /\ \A j \in DOMAIN jobs' : jobs'[j] = jobs[j]
        /\ worker'[w].pc = "select" /\ interruptions' = interruptions
        /\ worker[w].pc \notin Holding
    BY <1>1, <1>8 DEF Prune, DeleteUnmonitored, Without, Goto
  <2> QED BY <1>3, <2>1, WorkerReduction DEF OwnsAfter, HeldAfter
<1>9. CASE Select(w)
  <2>1. PICK j \in Claimable :
          worker' = [worker EXCEPT ![w] = [OffWorker EXCEPT !.pc = "claim", !.job = j]]
    BY <1>9 DEF Select
  <2>2. worker'[w].pc = "claim" /\ worker'[w].job = j
    BY <1>1, <2>1 DEF OffWorker
  <2>3. j \in 1 .. lastJob /\ j \in DOMAIN jobs /\ jobs[j].status = "queued" /\ Monitored(TargetOf(j))
    BY DEF Claimable, Queued, IInv, TypeOK
  <2>4. jobs' = jobs /\ interruptions' = interruptions /\ worker[w].pc \notin Holding
    BY <1>9 DEF Select, db
  <2> QED BY <1>3, <2>2, <2>3, <2>4, WorkerReduction DEF OwnsAfter, HeldAfter, TargetOf
<1>10. CASE FindNothing(w) \/ ClaimGone(w) \/ Release(w)
  <2>1. /\ jobs' = jobs /\ interruptions' = interruptions
        /\ worker[w].pc \notin Holding
        /\ worker'[w].pc \in {"exit", "off"}
    BY <1>1, <1>10 DEF FindNothing, ClaimGone, Release, OffWorker, db
  <2> QED BY <1>3, <2>1, WorkerReduction DEF OwnsAfter, HeldAfter
<1>11. CASE Claim(w)
  <2>1. job \in DOMAIN jobs /\ jobs[job].status = "queued" /\ worker[w].pc \notin Holding
    BY <1>6, <1>11 DEF Claim
  <2>2. jobs' = [jobs EXCEPT ![job] = Claimed(job)] /\ interruptions' = interruptions
    BY <1>11, <2>1 DEF Claim
  <2>3. jobs'[job].status = "running" /\ jobs'[job].attempts = jobs[job].attempts + 1
    BY <1>3, <2>1, <2>2 DEF Claimed, Job
  <2>4. worker'[w].pc = "fetch" /\ worker'[w].job = job
        /\ worker'[w].attempts = jobs'[job].attempts
    BY <1>1, <1>11 DEF Claim
  <2>5. OwnsAfter(w)
    BY <2>1, <2>2, <2>3, <2>4 DEF OwnsAfter
  <2>6. jobs[job].attempts < MaxAttempts + interruptions
    BY <1>3, <2>1
  <2>7. jobs'[job].attempts <= MaxAttempts + interruptions
    BY <1>3, <1>4, <2>1, <2>3, <2>6
  <2>8. \A j \in DOMAIN jobs' : j # job => jobs'[j] = jobs[j] /\ j \in DOMAIN jobs
    BY <2>2
  <2>9. HeldAfter(w, job)
    BY <2>4 DEF HeldAfter
  <2> HIDE DEF job
  <2>10. \A j \in DOMAIN jobs' :
            /\ jobs'[j].attempts <= MaxAttempts + interruptions'
            /\ jobs'[j].status \in ActiveStatus /\ ~HeldAfter(w, j) =>
                  jobs'[j].attempts < MaxAttempts + interruptions'
    BY <1>3, <2>1, <2>2, <2>7, <2>8, <2>9
  <2> QED BY <2>5, <2>10, WorkerReduction
<1>12. CASE Fetch(w) \/ Store(w) \/ Raise(w)
  <2>1. /\ jobs' = jobs /\ interruptions' = interruptions
        /\ worker[w].pc \in Holding /\ worker'[w].pc \in Holding
        /\ worker'[w].job = job /\ worker'[w].attempts = worker[w].attempts
    BY <1>1, <1>12 DEF Fetch, Store, Raise, Goto, db, Worker
  <2> HIDE DEF job
  <2> QED BY <1>3, <1>5, <2>1, WorkerReduction DEF OwnsAfter, HeldAfter
<1>13. ASSUME NEW status \in TerminalStatus \cup {"queued"}, NEW waiting \in BOOLEAN,
              WriteOutcome(w, status, waiting), worker[w].pc \in Holding,
              status = "queued" => worker[w].attempts < MaxAttempts
       PROVE  IInv'
  <2>1. DOMAIN jobs' = DOMAIN jobs /\ interruptions' = interruptions
        /\ worker'[w].pc = "select"
    BY <1>1, <1>13 DEF WriteOutcome, OffWorker
  <2>2. \A j \in DOMAIN jobs : j # job => jobs'[j] = jobs[j]
    BY <1>13 DEF WriteOutcome
  <2>3. jobs'[job].status = status /\ jobs'[job].attempts = jobs[job].attempts
    BY <1>3, <1>5, <1>13 DEF WriteOutcome, Job
  <2>4. status = "queued" => jobs[job].attempts < MaxAttempts + interruptions
    BY <1>3, <1>4, <1>5, <1>13
  <2>5. OwnsAfter(w) /\ \A j : ~HeldAfter(w, j)
    BY <2>1 DEF OwnsAfter, HeldAfter
  <2> HIDE DEF job
  <2>6. \A j \in DOMAIN jobs' :
            /\ jobs'[j].attempts <= MaxAttempts + interruptions'
            /\ jobs'[j].status \in ActiveStatus =>
                  jobs'[j].attempts < MaxAttempts + interruptions'
    BY <1>3, <1>5, <1>13, <2>1, <2>2, <2>3, <2>4
  <2> QED BY <2>5, <2>6, WorkerReduction
<1>14. CASE Succeed(w)
  BY <1>13, <1>14 DEF Succeed
<1>15. CASE Retry(w)
  BY <1>13, <1>15 DEF Retry
<1>16. CASE GiveUp(w)
  BY <1>13, <1>16 DEF GiveUp
<1>17. CASE Die(w)
  <2>1. jobs' = jobs /\ interruptions' = interruptions + 1 /\ worker'[w].pc = "exit"
    BY <1>1, <1>17 DEF Die, OffWorker, db
  <2>2. \A j \in DOMAIN jobs : jobs[j].attempts < MaxAttempts + (interruptions + 1)
    BY <1>3, <1>4
  <2>3. \A j \in DOMAIN jobs' :
          /\ jobs'[j].attempts <= MaxAttempts + interruptions'
          /\ jobs'[j].attempts < MaxAttempts + interruptions'
    BY <1>3, <1>4, <2>1, <2>2
  <2>4. OwnsAfter(w)
    BY <2>1 DEF OwnsAfter
  <2> QED BY <2>3, <2>4, WorkerReduction
<1> QED BY <1>7, <1>8, <1>9, <1>10, <1>11, <1>12, <1>14, <1>15, <1>16, <1>17 DEF WorkerStep

(* Stopping and starting the process keeps the inductive invariant. *)
LEMMA ProcessInvariant ==
  ASSUME IInv, Typed', ProcessStep
  PROVE  IInv'
<1>1. /\ \A j \in DOMAIN jobs : jobs[j] \in Job /\ jobs[j].attempts \in Nat
      /\ MaxAttempts \in Nat /\ interruptions \in Nat
  BY NumbersAssumption DEF IInv, TypeOK, Job
<1>2. \A v \in Workers : worker'[v].pc = "off"
  BY DEF ProcessStep, Crash, Boot, BootPrune, OffWorker, IInv, OffWhenDown
<1>3. LockGuards' /\ OneWorker' /\ OffWhenDown' /\ ChosenJob' /\ WorkerOwnsJob'
  BY <1>2 DEF LockGuards, OneWorker, OffWhenDown, ChosenJob, WorkerOwnsJob
<1>4. \A j \in DOMAIN jobs' :
        /\ jobs'[j].attempts <= MaxAttempts + interruptions'
        /\ jobs'[j].status \in ActiveStatus => jobs'[j].attempts < MaxAttempts + interruptions'
  <2>1. CASE Crash
    <3>1. jobs' = jobs /\ interruptions' = interruptions + 1
      BY <2>1 DEF Crash, db
    <3>2. \A j \in DOMAIN jobs : jobs[j].attempts <= MaxAttempts + interruptions
      BY DEF IInv, AttemptsLeft
    <3> QED BY <1>1, <3>1, <3>2
  <2>2. CASE Boot \/ BootPrune
    <3>1. DOMAIN jobs' \subseteq DOMAIN jobs /\ interruptions' = interruptions
      BY <2>2 DEF Boot, BootPrune, RequeueStale, DeleteUnmonitored, Without
    <3>2. \A j \in DOMAIN jobs' :
            /\ jobs'[j].attempts = jobs[j].attempts
            /\ jobs'[j].status \in ActiveStatus => jobs[j].status \in ActiveStatus
      <4>1. CASE Boot
        <5>1. \A j \in DOMAIN jobs : \/ jobs'[j] = jobs[j]
                                     \/ /\ jobs[j].status = "running"
                                        /\ jobs'[j].attempts = jobs[j].attempts
          BY <1>1, <4>1 DEF Boot, RequeueStale, Job
        <5> QED BY <3>1, <5>1
      <4>2. CASE BootPrune
        <5>1. \A j \in DOMAIN jobs' : jobs'[j] = jobs[j]
          BY <4>2 DEF BootPrune, DeleteUnmonitored, Without
        <5> QED BY <5>1
      <4> QED BY <2>2, <4>1, <4>2
    <3>3. \A v \in Workers : worker[v].pc = "off"
      BY <2>2 DEF Boot, BootPrune, IInv, OffWhenDown
    <3>4. \A j \in DOMAIN jobs :
            /\ jobs[j].attempts <= MaxAttempts + interruptions
            /\ jobs[j].status \in ActiveStatus => jobs[j].attempts < MaxAttempts + interruptions
      BY <3>3 DEF IInv, AttemptsLeft, Held
    <3> QED BY <3>1, <3>2, <3>4
  <2> QED BY <2>1, <2>2 DEF ProcessStep
<1>5. AttemptsLeft'
  BY <1>4 DEF AttemptsLeft
<1> QED BY <1>3, <1>5 DEF IInv, Typed

(* Every step keeps the inductive invariant. *)
LEMMA StepInvariant == IInv /\ [Next]_vars => IInv'
<1> SUFFICES ASSUME IInv, [Next]_vars PROVE IInv'
  OBVIOUS
<1>1. Typed /\ Typed'
  BY StepTyped DEF IInv, Typed
<1>2. CASE KeywordStep
  BY <1>1, <1>2, KeywordQuiet, QuietInvariant
<1>3. CASE \E e \in Enqueuers : EnqueueStep(e)
  BY <1>1, <1>3, EnqueueQuiet, QuietInvariant
<1>4. CASE \E w \in Workers : WorkerStep(w)
  BY <1>1, <1>4, WorkerInvariant
<1>5. CASE UNCHANGED vars \/ \E w \in Workers : Tick(w)
  BY <1>1, <1>5, IdleQuiet, QuietInvariant
<1>6. CASE ClockStep
  BY <1>1, <1>6, ClockQuiet, QuietInvariant
<1>7. CASE ProcessStep
  BY <1>1, <1>7, ProcessInvariant
<1> QED BY <1>2, <1>3, <1>4, <1>5, <1>6, <1>7 DEF Next

(* The inductive invariant holds in every reachable state. *)
THEOREM Invariance == Spec => []IInv
  BY InitInvariant, StepInvariant, PTL DEF Spec

(* Whoever writes a job's outcome holds that job. *)
THEOREM WorkerOwnsItsJob == Spec => []WorkerOwnsJob
<1>1. IInv => WorkerOwnsJob
  BY DEF IInv
<1> QED BY <1>1, Invariance, PTL

(* worker_lock admits one worker thread at a time. *)
THEOREM OneWorkerAtATime == Spec => []OneWorker
<1>1. IInv => OneWorker
  BY DEF IInv
<1> QED BY <1>1, Invariance, PTL

(* A job is taken at most MaxAttempts times, plus once per interruption. *)
THEOREM AttemptsAreBounded == Spec => []AttemptsBounded
<1>1. IInv => AttemptsBounded
  BY DEF IInv, AttemptsLeft, AttemptsBounded
<1> QED BY <1>1, Invariance, PTL

-----------------------------------------------------------------------------
(* What a step may never do. *)

(* What becomes of the rows in one step.  The two action properties read it *)
(* off: terminal rows stay, and only a claim makes a queued row running.    *)
RowsKept ==
  \A j \in DOMAIN jobs : jobs[j].status \in TerminalStatus =>
     /\ j \in DOMAIN jobs'
     /\ jobs'[j].status = jobs[j].status
     /\ jobs'[j].attempts = jobs[j].attempts

StartsKept ==
  \A j \in DOMAIN jobs \cap DOMAIN jobs' :
     jobs[j].status = "queued" /\ jobs'[j].status = "running" => ForMonitored(j)

(* A quiet step keeps finished rows and starts nothing unmonitored. *)
LEMMA QuietRows ==
  ASSUME Typed, Quiet PROVE RowsKept /\ StartsKept
  BY DEF Quiet, RowsKept, StartsKept

(* Neither do stale recovery and the clean-up of unmonitored windows touch *)
(* finished rows or start a job.                                           *)
LEMMA StaleRows ==
  ASSUME Typed, RequeueStale \/ DeleteUnmonitored PROVE RowsKept /\ StartsKept
  BY DEF RequeueStale, DeleteUnmonitored, Without, Queued, RowsKept, StartsKept,
         Typed, TypeOK, Job

(* A worker's step keeps finished rows and starts only monitored windows. *)
LEMMA WorkerRows ==
  ASSUME IInv, Typed, NEW w \in Workers, WorkerStep(w)
  PROVE  RowsKept /\ StartsKept
<1>1. CASE Recover(w) \/ Prune(w)
  BY <1>1, StaleRows DEF Recover, Prune
<1>2. CASE Select(w) \/ FindNothing(w) \/ ClaimGone(w) \/ Fetch(w) \/ Store(w) \/ Raise(w)
           \/ Die(w) \/ Release(w)
  <2>1. jobs' = jobs
    BY <1>2 DEF Select, FindNothing, ClaimGone, Fetch, Store, Raise, Die, Release, db
  <2> QED BY <2>1 DEF RowsKept, StartsKept
<1>3. CASE Claim(w)
  <2> DEFINE job == worker[w].job
  <2>1. job \in DOMAIN jobs /\ jobs[job].status = "queued" /\ ForMonitored(job)
    BY <1>3 DEF Claim, IInv, ChosenJob, ForMonitored
  <2>2. jobs' = [jobs EXCEPT ![job] = Claimed(job)]
    BY <1>3, <2>1 DEF Claim
  <2> HIDE DEF job
  <2> QED BY <2>1, <2>2 DEF RowsKept, StartsKept
<1>4. ASSUME NEW status \in {"queued", "success", "failed"}, NEW waiting \in BOOLEAN,
             WriteOutcome(w, status, waiting), worker[w].pc \in Holding
      PROVE  RowsKept /\ StartsKept
  <2> DEFINE job == worker[w].job
  <2>1. job \in DOMAIN jobs /\ jobs[job].status = "running"
    BY <1>4 DEF IInv, WorkerOwnsJob
  <2>2. DOMAIN jobs' = DOMAIN jobs /\ \A j \in DOMAIN jobs : j # job => jobs'[j] = jobs[j]
    BY <1>4 DEF WriteOutcome
  <2> HIDE DEF job
  <2> QED BY <2>1, <2>2 DEF RowsKept, StartsKept
<1>5. CASE Succeed(w) \/ Retry(w) \/ GiveUp(w)
  BY <1>4, <1>5 DEF Succeed, Retry, GiveUp
<1> QED BY <1>1, <1>2, <1>3, <1>5 DEF WorkerStep

(* Every step keeps finished rows and starts only monitored windows. *)
LEMMA StepRows == IInv /\ [Next]_vars => RowsKept /\ StartsKept
<1> SUFFICES ASSUME IInv, [Next]_vars PROVE RowsKept /\ StartsKept
  OBVIOUS
<1>1. Typed
  BY DEF IInv, Typed
<1>2. CASE KeywordStep
  BY <1>1, <1>2, KeywordQuiet, QuietRows
<1>3. CASE \E e \in Enqueuers : EnqueueStep(e)
  BY <1>1, <1>3, EnqueueQuiet, QuietRows
<1>4. CASE \E w \in Workers : WorkerStep(w)
  BY <1>1, <1>4, WorkerRows
<1>5. CASE UNCHANGED vars \/ \E w \in Workers : Tick(w)
  BY <1>1, <1>5, IdleQuiet, QuietRows
<1>6. CASE ClockStep
  BY <1>1, <1>6, ClockQuiet, QuietRows
<1>7. CASE Crash
  <2>1. jobs' = jobs
    BY <1>7 DEF Crash, db
  <2> QED BY <2>1 DEF RowsKept, StartsKept
<1>8. CASE Boot \/ BootPrune
  BY <1>1, <1>8, StaleRows DEF Boot, BootPrune
<1> QED BY <1>2, <1>3, <1>4, <1>5, <1>6, <1>7, <1>8 DEF Next, ProcessStep

(* A finished job is never taken up, overwritten or lost. *)
THEOREM TerminalStaysFinal == Spec => TerminalIsFinal
<1>1. IInv /\ [Next]_vars => [RowsKept]_vars
  BY StepRows
<1>2. Spec => [][RowsKept]_vars
  BY <1>1, Invariance, PTL DEF Spec
<1> QED BY <1>2 DEF TerminalIsFinal, RowsKept

(* A job starts only for a window monitored at that moment. *)
THEOREM StartsAreMonitored == Spec => StartsMonitored
<1>1. IInv /\ [Next]_vars => [StartsKept]_vars
  BY StepRows
<1>2. Spec => [][StartsKept]_vars
  BY <1>1, Invariance, PTL DEF Spec
<1> QED BY <1>2 DEF StartsMonitored, StartsKept, ForMonitored

-----------------------------------------------------------------------------
(* With a single enqueuer no target ever has two active jobs. *)

(* Every step but an INSERT only removes active rows or strips a keyword.   *)
ActiveShrinks ==
  \A j \in DOMAIN jobs' : jobs'[j].status \in ActiveStatus =>
     /\ j \in DOMAIN jobs
     /\ jobs[j].status \in ActiveStatus
     /\ \/ jobs'[j].keyword = NULL
        \/ TargetOf(j)' = TargetOf(j)

(* A step that leaves the jobs alone adds no active job. *)
LEMMA SameJobsShrink == ASSUME jobs' = jobs PROVE ActiveShrinks
  BY DEF ActiveShrinks, TargetOf

(* Deleting rows adds no active job. *)
LEMMA WithoutShrinks == ASSUME NEW D, jobs' = Without(D) PROVE ActiveShrinks
  BY DEF ActiveShrinks, TargetOf, Without

(* Putting running rows back to queued adds no active job. *)
LEMMA RequeueShrinks == ASSUME TypeOK, RequeueStale PROVE ActiveShrinks
  BY DEF TypeOK, RequeueStale, ActiveShrinks, TargetOf, Job

(* Settings changes add no active job. *)
LEMMA KeywordShrinks == ASSUME TypeOK, KeywordStep PROVE ActiveShrinks
<1>1. ASSUME NEW k \in Keywords, DeleteKeyword(k) PROVE ActiveShrinks
  BY <1>1 DEF DeleteKeyword, TypeOK, Job, ActiveShrinks, TargetOf
<1> QED
  BY <1>1, SameJobsShrink, WithoutShrinks
  DEF KeywordStep, AddKeyword, ToggleKeyword, UpdateTimeframes, BulkAdjustTimeframes,
      WriteTimeframes, UpdateGprops

(* The passing of time adds no active job. *)
LEMMA ClockShrinks == ASSUME TypeOK, ClockStep PROVE ActiveShrinks
  BY DEF ClockStep, BecomeStale, RetryDue, TypeOK, Job, ActiveShrinks, TargetOf

(* A worker's step adds no active job. *)
LEMMA WorkerShrinks == ASSUME IInv, NEW w \in Workers, WorkerStep(w) PROVE ActiveShrinks
<1>1. TypeOK
  BY DEF IInv
<1>2. CASE Claim(w)
  <2>1. \/ jobs' = jobs
        \/ /\ jobs' = [jobs EXCEPT ![worker[w].job] = Claimed(worker[w].job)]
           /\ jobs[worker[w].job].status = "queued"
    BY <1>2 DEF Claim
  <2>2. ASSUME NEW j, j = worker[w].job, jobs[j].status = "queued",
               jobs' = [jobs EXCEPT ![j] = Claimed(j)]
        PROVE  ActiveShrinks
    BY <1>1, <2>2 DEF Claimed, TypeOK, Job, ActiveShrinks, TargetOf
  <2> QED BY <2>1, <2>2, SameJobsShrink
<1>3. ASSUME NEW status, NEW waiting, WriteOutcome(w, status, waiting),
             worker[w].pc \in Holding
      PROVE  ActiveShrinks
  <2>1. \A j \in DOMAIN jobs : j = worker[w].job => jobs[j].status = "running"
    BY <1>3 DEF IInv, WorkerOwnsJob
  <2>2. DOMAIN jobs' = DOMAIN jobs
    BY <1>3 DEF WriteOutcome
  <2>3. ASSUME NEW j \in DOMAIN jobs
        PROVE  /\ jobs[j].status # "running" => jobs'[j].status = jobs[j].status
               /\ TargetOf(j)' = TargetOf(j)
    <3>1. jobs[j] \in Job
      BY <1>1 DEF TypeOK
    <3>2. CASE j = worker[w].job
      <4>1. jobs'[j] = [jobs[j] EXCEPT !.status = status, !.waiting = waiting, !.stale = FALSE]
        BY <1>3, <3>2 DEF WriteOutcome
      <4> QED BY <2>1, <3>1, <3>2, <4>1 DEF Job, TargetOf
    <3>3. CASE j # worker[w].job
      <4>1. jobs'[j] = jobs[j]
        BY <1>3, <3>3 DEF WriteOutcome
      <4> QED BY <4>1 DEF TargetOf
    <3> QED BY <3>2, <3>3
  <2> QED BY <2>2, <2>3 DEF ActiveShrinks
<1> QED
  BY <1>1, <1>2, <1>3, SameJobsShrink, WithoutShrinks, RequeueShrinks
  DEF WorkerStep, Recover, Prune, DeleteUnmonitored, Select, FindNothing, ClaimGone, Fetch,
      Store, Succeed, Raise, Retry, GiveUp, Die, Release, db

DupInv == NoDuplicateJobs /\ NothingActive

(* A step that adds no active job keeps targets free of duplicates, and *)
(* free targets free.                                                   *)
LEMMA ShrinkKeepsUnique ==
  ASSUME IInv, DupInv, ActiveShrinks
  PROVE  /\ NoDuplicateJobs'
         /\ \A t \in Targets : ActiveFor(t) = {} => ActiveFor(t)' = {}
<1>1. \A t \in Targets : t[1] # NULL
  BY NullAssumption DEF Targets
<1>2. ASSUME NEW i \in DOMAIN jobs', NEW j \in DOMAIN jobs',
             {jobs'[i].status, jobs'[j].status} \subseteq ActiveStatus,
             TargetOf(i)' = TargetOf(j)', jobs'[i].keyword # NULL
      PROVE  i = j
  <2>1. jobs'[j].keyword # NULL
    BY <1>2 DEF TargetOf
  <2>2. /\ TargetOf(i) = TargetOf(j) /\ jobs[i].keyword # NULL
        /\ i \in DOMAIN jobs /\ j \in DOMAIN jobs
        /\ {jobs[i].status, jobs[j].status} \subseteq ActiveStatus
    BY <1>2, <2>1 DEF ActiveShrinks, TargetOf
  <2> QED BY <2>2 DEF DupInv, NoDuplicateJobs
<1>3. ASSUME NEW t \in Targets, NEW j \in ActiveFor(t)' PROVE j \in ActiveFor(t)
  <2>1. j \in DOMAIN jobs' /\ jobs'[j].status \in ActiveStatus /\ TargetOf(j)' = t
    BY <1>3 DEF ActiveFor
  <2>2. jobs'[j].keyword # NULL
    BY <1>1, <2>1 DEF TargetOf
  <2> QED BY <2>1, <2>2 DEF ActiveShrinks, ActiveFor
<1> QED BY <1>2, <1>3 DEF NoDuplicateJobs

(* With a single enqueuer every step keeps the jobs unique, and a target free *)
(* between the enqueuer's look and its insertion.                             *)
LEMMA DupStep ==
  ASSUME SingleEnqueuer, IInv, DupInv, [Next]_vars
  PROVE  DupInv'
<1>1. TypeOK /\ HasTarget
  BY DEF IInv
<1>2. ASSUME ActiveShrinks, enq' = enq PROVE DupInv'
  BY <1>1, <1>2, ShrinkKeepsUnique DEF DupInv, NothingActive, HasTarget
<1>3. ASSUME NEW e \in Enqueuers, jobs' = jobs,
             \A d \in Enqueuers : enq'[d].pc = "insert" => ActiveFor(enq'[d].target) = {}
      PROVE  DupInv'
  BY <1>3 DEF DupInv, NoDuplicateJobs, NothingActive, TargetOf, ActiveFor
<1>4. CASE KeywordStep
  BY <1>1, <1>2, <1>4, KeywordShrinks
  DEF KeywordStep, AddKeyword, ToggleKeyword, DeleteKeyword, UpdateTimeframes,
      BulkAdjustTimeframes, WriteTimeframes, UpdateGprops
<1>5. CASE ClockStep
  BY <1>1, <1>2, <1>5, ClockShrinks DEF ClockStep, BecomeStale, RetryDue
<1>6. ASSUME NEW w \in Workers, WorkerStep(w) PROVE DupInv'
  BY <1>2, <1>6, WorkerShrinks
  DEF WorkerStep, Recover, Prune, Select, FindNothing, Claim, ClaimGone, Fetch, Store,
      Succeed, Raise, Retry, GiveUp, Die, Release, WriteOutcome
<1>7. CASE UNCHANGED vars \/ \E w \in Workers : Tick(w)
  BY <1>2, <1>7, SameJobsShrink DEF vars, Tick, db
<1>8. CASE Boot \/ BootPrune
  BY <1>1, <1>2, <1>8, RequeueShrinks, WithoutShrinks DEF Boot, BootPrune, DeleteUnmonitored
<1>9. CASE Crash
  <2>1. jobs' = jobs /\ \A d \in Enqueuers : enq'[d].pc # "insert"
    BY <1>9 DEF Crash, IdleEnqueuer, db
  <2>2. NoDuplicateJobs'
    BY <2>1 DEF DupInv, NoDuplicateJobs, TargetOf
  <2> QED BY <2>1, <2>2 DEF DupInv, NothingActive
<1>10. ASSUME NEW e \in Enqueuers, EnqueueStep(e) PROVE DupInv'
  <2>1. \A d \in Enqueuers : d = e
    BY DEF SingleEnqueuer
  <2>2. CASE InsertJob(e)
    <3> DEFINE t == enq[e].target  new == lastJob + 1
    <3>1. t \in Targets /\ ActiveFor(t) = {}
      BY <1>1, <2>2 DEF InsertJob, HasTarget, DupInv, NothingActive
    <3>2. new \notin DOMAIN jobs
      BY <1>1 DEF TypeOK
    <3>3. DOMAIN jobs' = DOMAIN jobs \cup {new} /\ jobs'[new] = NewJob(t)
          /\ \A j \in DOMAIN jobs : jobs'[j] = jobs[j]
      BY <2>2, <3>2 DEF InsertJob
    <3>5. <<jobs'[new].keyword, jobs'[new].timeframe, jobs'[new].gprop>> = t
      BY <3>1, <3>3 DEF NewJob, Targets
    <3> HIDE DEF t, new
    <3>6. ASSUME NEW j \in DOMAIN jobs, jobs[j].status \in ActiveStatus
          PROVE  <<jobs[j].keyword, jobs[j].timeframe, jobs[j].gprop>> # t
      BY <3>1, <3>6 DEF ActiveFor, TargetOf
    <3>7. NoDuplicateJobs'
      <4> SUFFICES ASSUME NEW i \in DOMAIN jobs', NEW j \in DOMAIN jobs',
                          jobs'[i].status \in ActiveStatus, jobs'[j].status \in ActiveStatus,
                          TargetOf(i)' = TargetOf(j)', jobs'[i].keyword # NULL
                   PROVE  i = j
        BY DEF NoDuplicateJobs
      <4>1. <<jobs'[i].keyword, jobs'[i].timeframe, jobs'[i].gprop>> =
            <<jobs'[j].keyword, jobs'[j].timeframe, jobs'[j].gprop>>
        BY DEF TargetOf
      <4>2. CASE i = new \/ j = new
        BY <3>3, <3>5, <3>6, <4>1, <4>2
      <4>3. CASE i # new /\ j # new
        BY <3>3, <4>1, <4>3 DEF DupInv, NoDuplicateJobs, TargetOf
      <4> QED BY <4>2, <4>3
    <3>8. enq'[e].pc # "insert"
      BY <1>1, <2>2 DEF InsertJob, TypeOK, Enqueuer
    <3> QED BY <2>1, <3>7, <3>8 DEF DupInv, NothingActive
  <2>3. CASE \E t \in Targets : CheckExisting(e, t)
    <3>1. PICK t \in Targets : CheckExisting(e, t)
      BY <2>3
    <3>2. jobs' = jobs /\ (enq'[e].pc = "insert" => ActiveFor(enq'[e].target) = {})
      BY <1>1, <3>1 DEF CheckExisting, Done, TypeOK, Enqueuer, db
    <3> QED BY <1>3, <2>1, <3>2
  <2>4. CASE ~InsertJob(e) /\ ~\E t \in Targets : CheckExisting(e, t)
    <3>1. enq \in [Enqueuers -> Enqueuer]
      BY <1>1 DEF TypeOK
    <3>2. ASSUME NEW targets, Begin(e, targets)
          PROVE  jobs' = jobs /\ enq'[e].pc # "insert"
      BY <3>1, <3>2 DEF Begin, IdleEnqueuer, db
    <3>3. ASSUME InsertRefused(e) \/ AbandonBatch(e) \/ FinishBatch(e)
          PROVE  jobs' = jobs /\ enq'[e].pc # "insert"
      BY <3>1, <3>3 DEF InsertRefused, AbandonBatch, FinishBatch, IdleEnqueuer, db
    <3>4. ASSUME ReadBack(e)
          PROVE  jobs' = jobs /\ enq'[e].pc # "insert"
      BY <3>1, <3>4 DEF ReadBack, Done, IdleEnqueuer, Enqueuer, db
    <3>5. ASSUME EnqueueScheduled(e) \/ CollectNow(e) \/ \E k \in Keywords : CollectOne(e, k)
          PROVE  jobs' = jobs /\ enq'[e].pc # "insert"
      BY <3>2, <3>5 DEF EnqueueScheduled, CollectNow, CollectOne
    <3>6. jobs' = jobs /\ enq'[e].pc # "insert"
      BY <1>10, <2>4, <3>3, <3>4, <3>5 DEF EnqueueStep
    <3> QED BY <1>3, <2>1, <3>6
  <2> QED BY <2>2, <2>3, <2>4
<1> QED BY <1>4, <1>5, <1>6, <1>7, <1>8, <1>9, <1>10 DEF Next, ProcessStep

(* create_collection_job deduplicates when only one thread ever enqueues.   *)
THEOREM NoDuplicates ==
  ASSUME SingleEnqueuer
  PROVE  Spec => []NoDuplicateJobs
<1>1. Init => DupInv
  BY DEF Init, DupInv, NoDuplicateJobs, NothingActive, IdleEnqueuer
<1>2. IInv /\ DupInv /\ [Next]_vars => DupInv'
  BY DupStep
<1>3. DupInv => NoDuplicateJobs
  BY DEF DupInv
<1> QED BY <1>1, <1>2, <1>3, Invariance, PTL DEF Spec

-----------------------------------------------------------------------------
(* Steps that leave the service as it is. *)
LEMMA ServiceStutter ==
  ASSUME jobs' = jobs, lastJob' = lastJob, Serving' = Serving
  PROVE  UNCHANGED Service!svars
  BY DEF Service!svars, TaskStatus, TaskAttempts

(* Queued rows disappear. *)
LEMMA ServiceWithdraw ==
  ASSUME Typed,
         DOMAIN jobs' \subseteq DOMAIN jobs,
         \A j \in DOMAIN jobs' : jobs'[j].status = jobs[j].status
                                 /\ jobs'[j].attempts = jobs[j].attempts,
         \A j \in DOMAIN jobs : jobs[j].status # "queued" => j \in DOMAIN jobs',
         lastJob' = lastJob, Serving' = Serving
  PROVE  Service!Next
<1> DEFINE S == DOMAIN jobs \ DOMAIN jobs'
<1>1. DOMAIN jobs \subseteq JobIds
  BY NumbersAssumption DEF Typed, TypeOK, JobIds
<1>2. \A j \in S : TaskStatus[j] = "queued"
  BY <1>1 DEF TaskStatus
<1>3. TaskStatus' = [j \in JobIds |-> IF j \in S THEN "absent" ELSE TaskStatus[j]]
  BY <1>1 DEF TaskStatus
<1>4. TaskAttempts' = [j \in JobIds |-> IF j \in S THEN 0 ELSE TaskAttempts[j]]
  BY <1>1 DEF TaskAttempts
<1>5. S \in SUBSET JobIds
  BY <1>1
<1> HIDE DEF S
<1>6. Service!Withdraw(S)
  BY <1>2, <1>3, <1>4 DEF Service!Withdraw
<1> QED BY <1>5, <1>6 DEF Service!Next

(* Running rows nobody serves are put back. *)
LEMMA ServicePutBack ==
  ASSUME Typed, RequeueStale, lastJob' = lastJob, Serving = {}, Serving' = {}
  PROVE  Service!Next
<1> DEFINE S == {j \in DOMAIN jobs : jobs[j].status = "running" /\ jobs[j].stale}
<1>1. DOMAIN jobs \subseteq JobIds /\ \A j \in DOMAIN jobs : jobs[j] \in Job
  BY NumbersAssumption DEF Typed, TypeOK, JobIds
<1>2. DOMAIN jobs' = DOMAIN jobs
  BY DEF RequeueStale
<1>3. \A j \in DOMAIN jobs :
        /\ jobs'[j].attempts = jobs[j].attempts
        /\ jobs'[j].status = IF j \in S THEN "queued" ELSE jobs[j].status
  BY <1>1 DEF RequeueStale, Job
<1>4. \A j \in S : TaskStatus[j] = "running"
  BY <1>1 DEF TaskStatus
<1>5. S \in SUBSET JobIds /\ S \subseteq DOMAIN jobs
  BY <1>1
<1> HIDE DEF S
<1>6. TaskStatus' = [j \in JobIds |-> IF j \in S THEN "queued" ELSE TaskStatus[j]]
  BY <1>2, <1>3, <1>5 DEF TaskStatus
<1>7. TaskAttempts' = TaskAttempts
  BY <1>2, <1>3 DEF TaskAttempts
<1>8. Service!PutBack(S)
  BY <1>4, <1>6, <1>7 DEF Service!PutBack
<1> QED BY <1>5, <1>8 DEF Service!Next

(* Quiet steps do not change who serves what. *)
LEMMA QuietServing ==
  ASSUME Typed, WorkersQuiet
  PROVE  Serving' = Serving
<1>1. CASE worker' = worker
  BY <1>1 DEF Serving
<1>2. ASSUME NEW w \in Workers, StartWorker(w) PROVE Serving' = Serving
  <2>1. worker \in [Workers -> Worker]
    BY DEF Typed, TypeOK
  <2>2. \A v \in Workers : /\ worker'[v].pc \in Holding <=> worker[v].pc \in Holding
                           /\ worker'[v].job = worker[v].job
    BY <1>2, <2>1 DEF StartWorker, Worker
  <2> QED BY <2>2 DEF Serving
<1> QED BY <1>1, <1>2 DEF WorkersQuiet

(* A step that is quiet and inserts no row withdraws jobs, or nothing. *)
LEMMA ServiceQuiet ==
  ASSUME Typed, Typed', Quiet, WorkersQuiet, lastJob' = lastJob
  PROVE  Service!Next
<1>1. DOMAIN jobs' \subseteq DOMAIN jobs
  BY DEF Quiet, Typed, TypeOK
<1> QED BY <1>1, QuietServing, ServiceWithdraw DEF Quiet

(* Inserting a row of the jobs table submits a job. *)
LEMMA ServiceSubmit ==
  ASSUME Typed, NEW e \in Enqueuers, InsertJob(e)
  PROVE  Service!Next
<1> DEFINE new == lastJob + 1
<1>1. new \in JobIds /\ new \notin DOMAIN jobs
  BY NumbersAssumption DEF Typed, TypeOK, JobIds, InsertJob
<1>2. DOMAIN jobs' = DOMAIN jobs \cup {new} /\ jobs'[new] = NewJob(enq[e].target)
      /\ \A j \in DOMAIN jobs : jobs'[j] = jobs[j]
  BY <1>1 DEF InsertJob
<1>a. jobs'[new].status = "queued" /\ jobs'[new].attempts = 0
  BY <1>2 DEF NewJob
<1>b. Serving' = Serving /\ lastJob' = new
  BY DEF Serving, InsertJob
<1> HIDE DEF new
<1>3. TaskStatus' = [TaskStatus EXCEPT ![new] = "queued"]
  BY <1>1, <1>2, <1>a DEF TaskStatus
<1>4. TaskAttempts' = TaskAttempts
  BY <1>1, <1>2, <1>a DEF TaskAttempts
<1>5. Service!Submit
  BY <1>1, <1>3, <1>4, <1>b DEF Service!Submit, new
<1> QED BY <1>5 DEF Service!Next

-----------------------------------------------------------------------------
(* Who is served, while worker w steps and every other thread is off. *)
LEMMA ServingAlone ==
  ASSUME IInv, NEW w \in Workers, WorkerStep(w)
  PROVE  /\ Serving  = IF worker[w].pc \in Holding THEN {worker[w].job} ELSE {}
         /\ Serving' = IF worker'[w].pc \in Holding THEN {worker'[w].job} ELSE {}
  BY WorkerAlone DEF Alone, Serving

(* A worker's step claims, finishes, puts back, withdraws, or changes nothing. *)
LEMMA ServiceWorker ==
  ASSUME IInv, NEW w \in Workers, WorkerStep(w)
  PROVE  [Service!Next]_Service!svars
<1> DEFINE job == worker[w].job
<1>1. Typed /\ worker \in [Workers -> Worker] /\ lastJob' = lastJob
  BY WorkerAlone DEF IInv, Typed, TypeOK
<1>2. DOMAIN jobs \subseteq JobIds /\ \A j \in DOMAIN jobs : jobs[j] \in Job
  BY NumbersAssumption DEF IInv, TypeOK, JobIds
<1>3. CASE Recover(w)
  <2>1. worker[w].pc \notin Holding /\ worker'[w].pc \notin Holding
    BY <1>1, <1>3 DEF Recover, Goto
  <2> QED BY <1>1, <1>3, <2>1, ServingAlone, ServicePutBack DEF Recover
<1>4. CASE Prune(w)
  <2>1. worker[w].pc \notin Holding /\ worker'[w].pc \notin Holding
    BY <1>1, <1>4 DEF Prune, Goto
  <2>2. /\ DOMAIN jobs' \subseteq DOMAIN jobs
        /\ \A j \in DOMAIN jobs' : jobs'[j] = jobs[j]
        /\ \A j \in DOMAIN jobs : jobs[j].status # "queued" => j \in DOMAIN jobs'
    BY <1>4 DEF Prune, DeleteUnmonitored, Without, Queued
  <2>3. Serving' = Serving
    BY <2>1, ServingAlone
  <2>4. \A j \in DOMAIN jobs' : jobs'[j].status = jobs[j].status
                                /\ jobs'[j].attempts = jobs[j].attempts
    BY <2>2
  <2> QED BY <1>1, <2>2, <2>3, <2>4, ServiceWithdraw
<1>5. CASE Select(w) \/ FindNothing(w) \/ ClaimGone(w) \/ Release(w)
  <2>a. worker[w].pc \notin Holding /\ jobs' = jobs
    BY <1>5 DEF Select, FindNothing, ClaimGone, Release, db
  <2>b. ASSUME NEW r, r.pc \notin Holding, worker' = [worker EXCEPT ![w] = r]
        PROVE  worker'[w].pc \notin Holding
    BY <1>1, <2>b
  <2>c. worker'[w].pc \notin Holding
    BY <1>5, <2>b DEF Select, FindNothing, ClaimGone, Release, OffWorker
  <2>1. /\ worker[w].pc \notin Holding /\ worker'[w].pc \notin Holding
        /\ jobs' = jobs
    BY <2>a, <2>c
  <2> QED BY <1>1, <2>1, ServingAlone, ServiceStutter
<1>6. CASE Claim(w)
  <2>1. job \in DOMAIN jobs /\ jobs[job].status = "queued"
    BY <1>6 DEF Claim, IInv, ChosenJob
  <2>2. jobs' = [jobs EXCEPT ![job] = Claimed(job)]
    BY <1>6, <2>1 DEF Claim
  <2>a. jobs[job] \in Job /\ jobs'[job] = Claimed(job)
    BY <1>2, <2>1, <2>2
  <2>3. jobs'[job].status = "running" /\ jobs'[job].attempts = jobs[job].attempts + 1
    BY <2>a DEF Claimed, Job
  <2>4. worker[w].pc \notin Holding /\ worker'[w].pc \in Holding /\ worker'[w].job = job
    BY <1>1, <1>6 DEF Claim
  <2>5. Serving = {} /\ Serving' = {job}
    BY <2>4, ServingAlone
  <2> HIDE DEF job
  <2>6. TaskStatus' = [TaskStatus EXCEPT ![job] = "running"] /\ TaskStatus[job] = "queued"
    BY <1>2, <2>1, <2>2, <2>3 DEF TaskStatus
  <2>7. TaskAttempts' = [TaskAttempts EXCEPT ![job] = @ + 1]
    BY <1>2, <2>1, <2>2, <2>3 DEF TaskAttempts
  <2>8. Service!Take(job)
    BY <1>1, <2>5, <2>6, <2>7 DEF Service!Take
  <2> QED BY <1>2, <2>1, <2>8 DEF Service!Next
<1>7. CASE Fetch(w) \/ Store(w) \/ Raise(w)
  <2>1. /\ worker[w].pc \in Holding /\ worker'[w].pc \in Holding
        /\ worker'[w].job = worker[w].job /\ jobs' = jobs
    BY <1>1, <1>7 DEF Fetch, Store, Raise, Goto, Worker, db
  <2> QED BY <1>1, <2>1, ServingAlone, ServiceStutter
<1>8. ASSUME NEW status, NEW waiting, WriteOutcome(w, status, waiting),
             worker[w].pc \in Holding
      PROVE  /\ job \in JobIds /\ Service!Leave(job, status)
             /\ TaskAttempts[job] = worker[w].attempts
  <2>1. job \in DOMAIN jobs /\ jobs[job].status = "running"
        /\ jobs[job].attempts = worker[w].attempts
    BY <1>8 DEF IInv, WorkerOwnsJob
  <2>2. DOMAIN jobs' = DOMAIN jobs /\ \A j \in DOMAIN jobs : j # job => jobs'[j] = jobs[j]
    BY <1>8 DEF WriteOutcome
  <2>3. jobs'[job].status = status /\ jobs'[job].attempts = jobs[job].attempts
    BY <1>2, <1>8, <2>1 DEF WriteOutcome, Job
  <2>4. worker'[w].pc \notin Holding
    BY <1>1, <1>8 DEF WriteOutcome, OffWorker
  <2>5. Serving = {job} /\ Serving' = {}
    BY <1>8, <2>4, ServingAlone
  <2> HIDE DEF job
  <2>6. TaskStatus' = [TaskStatus EXCEPT ![job] = status] /\ TaskStatus[job] = "running"
    BY <1>2, <2>1, <2>2, <2>3 DEF TaskStatus
  <2>7. TaskAttempts' = TaskAttempts /\ TaskAttempts[job] = worker[w].attempts
    BY <1>2, <2>1, <2>2, <2>3 DEF TaskAttempts
  <2> QED BY <1>1, <1>2, <2>1, <2>5, <2>6, <2>7 DEF Service!Leave
<1>9. CASE Succeed(w)
  BY <1>8, <1>9 DEF Succeed, Service!Next, Service!Succeed
<1>10. CASE Retry(w)
  BY <1>8, <1>10 DEF Retry, Service!Next, Service!Retry
<1>11. CASE GiveUp(w)
  BY <1>8, <1>11 DEF GiveUp, Service!Next, Service!GiveUp
<1>12. CASE Die(w)
  <2>1. jobs' = jobs /\ worker'[w].pc \notin Holding
    BY <1>1, <1>12 DEF Die, OffWorker, db
  <2>2. Serving' = {} /\ TaskStatus' = TaskStatus /\ TaskAttempts' = TaskAttempts
    BY <2>1, ServingAlone DEF TaskStatus, TaskAttempts
  <2> QED BY <1>1, <2>2 DEF Service!Next, Service!Vanish
<1> QED BY <1>3, <1>4, <1>5, <1>6, <1>7, <1>9, <1>10, <1>11, <1>12 DEF WorkerStep

(* A crash abandons the job served; a start puts jobs back or withdraws some. *)
LEMMA ServiceProcess ==
  ASSUME IInv, ProcessStep
  PROVE  Service!Next
<1>1. Typed
  BY DEF IInv, Typed
<1>2. CASE Crash
  <2>1. jobs' = jobs /\ lastJob' = lastJob /\ \A v \in Workers : worker'[v].pc \notin Holding
    BY <1>2 DEF Crash, OffWorker, db
  <2>2. Serving' = {}
    BY <2>1 DEF Serving
  <2> QED BY <2>1, <2>2 DEF Service!Next, Service!Vanish, TaskStatus, TaskAttempts
<1>3. CASE Boot \/ BootPrune
  <2>1. lastJob' = lastJob /\ worker' = worker /\ \A v \in Workers : worker[v].pc \notin Holding
    BY <1>3 DEF Boot, BootPrune, IInv, OffWhenDown
  <2>2. Serving = {} /\ Serving' = {}
    BY <2>1 DEF Serving
  <2>3. CASE Boot
    BY <1>1, <2>1, <2>2, <2>3, ServicePutBack DEF Boot
  <2>4. CASE BootPrune
    <3>1. /\ DOMAIN jobs' \subseteq DOMAIN jobs
          /\ \A j \in DOMAIN jobs' : jobs'[j] = jobs[j]
          /\ \A j \in DOMAIN jobs : jobs[j].status # "queued" => j \in DOMAIN jobs'
      BY <2>4 DEF BootPrune, DeleteUnmonitored, Without, Queued
    <3>2. \A j \in DOMAIN jobs' : jobs'[j].status = jobs[j].status
                                  /\ jobs'[j].attempts = jobs[j].attempts
      BY <3>1
    <3> QED BY <1>1, <2>1, <2>2, <3>1, <3>2, ServiceWithdraw
  <2> QED BY <1>3, <2>3, <2>4
<1> QED BY <1>2, <1>3 DEF ProcessStep

(* Every step of the queue is a step of the service or leaves it alone. *)
LEMMA ServiceStep == IInv /\ [Next]_vars => [Service!Next]_Service!svars
<1> SUFFICES ASSUME IInv, [Next]_vars PROVE [Service!Next]_Service!svars
  OBVIOUS
<1>1. Typed /\ Typed'
  BY StepTyped DEF IInv, Typed
<1>2. CASE KeywordStep
  <2>1. lastJob' = lastJob
    BY <1>2 DEF KeywordStep, AddKeyword, ToggleKeyword, DeleteKeyword, UpdateTimeframes,
           BulkAdjustTimeframes, WriteTimeframes, UpdateGprops
  <2> QED BY <1>1, <1>2, <2>1, KeywordQuiet, ServiceQuiet
<1>3. ASSUME NEW e \in Enqueuers, EnqueueStep(e)
      PROVE  [Service!Next]_Service!svars
  <2>1. CASE InsertJob(e)
    BY <1>1, <2>1, ServiceSubmit
  <2>2. CASE ~InsertJob(e)
    <3>1. lastJob' = lastJob
      BY <1>3, <2>2 DEF EnqueueStep, EnqueueScheduled, CollectNow, CollectOne, Begin,
             CheckExisting, InsertRefused, ReadBack, AbandonBatch, FinishBatch, db
    <3> QED BY <1>1, <1>3, <3>1, EnqueueQuiet, ServiceQuiet
  <2> QED BY <2>1, <2>2
<1>4. CASE \E w \in Workers : WorkerStep(w)
  BY <1>4, ServiceWorker
<1>5. CASE UNCHANGED vars \/ \E w \in Workers : Tick(w)
  <2>1. lastJob' = lastJob
    BY <1>5 DEF vars, Tick, db
  <2> QED BY <1>1, <1>5, <2>1, IdleQuiet, ServiceQuiet
<1>6. CASE ClockStep
  <2>1. lastJob' = lastJob
    BY <1>6 DEF ClockStep, BecomeStale, RetryDue
  <2> QED BY <1>1, <1>6, <2>1, ClockQuiet, ServiceQuiet
<1>7. CASE ProcessStep
  BY <1>7, ServiceProcess
<1> QED BY <1>2, <1>3, <1>4, <1>5, <1>6, <1>7 DEF Next

(* The queue implements the service. *)
THEOREM QueueImplementsService == Spec => ImplementsService
<1>1. Init => Service!Init
  <2> SUFFICES ASSUME Init PROVE Service!Init
    OBVIOUS
  <2>1. DOMAIN jobs = {} /\ lastJob = 0 /\ \A w \in Workers : worker[w].pc \notin Holding
    BY DEF Init, OffWorker
  <2> QED BY <2>1 DEF Service!Init, TaskStatus, TaskAttempts, Serving
<1> QED BY <1>1, ServiceStep, Invariance, PTL DEF Spec, ImplementsService, Service!Spec

=============================================================================
