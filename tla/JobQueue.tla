------------------------------ MODULE JobQueue ------------------------------
(***************************************************************************)
(* The collection job queue: the keywords and collection_jobs tables, the  *)
(* threads that fill the queue (two cron jobs of the scheduler and the web *)
(* handlers), the worker threads that drain it under app.state.worker_lock *)
(* and the restarts of the process that hosts them all.                    *)
(*                                                                         *)
(* A step is one committed transaction, or one SELECT: the repository      *)
(* commits at the end of every function, and SQLite serialises commits,    *)
(* so threads interleave exactly between those points.                     *)
(*                                                                         *)
(* Time is abstract.  A job is "waiting" while its next_attempt_at lies in *)
(* the future and "stale" once its started_at is 30 minutes old; two       *)
(* actions let that time pass, at any moment.                              *)
(*                                                                         *)
(* An operator marked "Fault" stands before the one it distorts.  Nothing  *)
(* uses it: put in the place of its neighbour, it must make a property     *)
(* fail (the README lists which).                                          *)
(***************************************************************************)
EXTENDS Naturals, FiniteSets

CONSTANTS
    Keywords,           \* keyword ids; AUTOINCREMENT hands each out once
    Timeframes,         \* AVAILABLE_TIMEFRAMES
    Gprops,             \* AVAILABLE_GPROPS
    DefaultTimeframes,  \* what a new keyword monitors
    DefaultGprops,
    Cron,               \* the scheduler jobs that enqueue
    CronTimeframes,     \* the timeframes each of them asks for
    Web,                \* threads serving /collect and /collect/run-now
    Workers,            \* worker threads that may be spawned
    MaxAttempts,        \* max_attempts of every job
    MaxJobs,            \* BOUND: rows ever inserted into collection_jobs
    MaxInterruptions,   \* BOUND: process crashes plus worker deaths
    NULL

ASSUME WindowsAssumption ==
    /\ DefaultTimeframes \in (SUBSET Timeframes) \ {{}}
    /\ DefaultGprops \in (SUBSET Gprops) \ {{}}
    /\ CronTimeframes \in [Cron -> SUBSET Timeframes]

ASSUME ThreadsAssumption == Cron \cap Web = {}

ASSUME NumbersAssumption ==
    /\ MaxAttempts \in Nat \ {0}
    /\ MaxJobs \in Nat
    /\ MaxInterruptions \in Nat

ASSUME NullAssumption ==
    /\ NULL \notin Keywords
    /\ NULL \notin Keywords \X Timeframes \X Gprops

VARIABLES
    keywords,       \* the keywords table: id -> row
    born,           \* ids the keywords table has handed out
    jobs,           \* the collection_jobs table: id -> row
    lastJob,        \* the last id collection_jobs has handed out
    enq,            \* the local state of each enqueuing thread
    workerLock,     \* is app.state.worker_lock held?
    worker,         \* the local state of each worker thread
    app,            \* the process: "down", "booting" or "up"
    interruptions   \* how often the process or a worker died (history)

db   == <<keywords, born, jobs, lastJob>>
vars == <<keywords, born, jobs, lastJob, enq, workerLock, worker, app,
          interruptions>>

-----------------------------------------------------------------------------

JobIds    == 1 .. MaxJobs
Enqueuers == Cron \cup Web
Targets   == Keywords \X Timeframes \X Gprops

ActiveStatus   == {"queued", "running"}
TerminalStatus == {"success", "failed"}

Keyword == [enabled    : BOOLEAN,
            timeframes : (SUBSET Timeframes) \ {{}},
            gprops     : (SUBSET Gprops) \ {{}}]

Job == [keyword   : Keywords \cup {NULL},
        timeframe : Timeframes,
        gprop     : Gprops,
        status    : ActiveStatus \cup TerminalStatus,
        attempts  : Nat,
        waiting   : BOOLEAN,
        stale     : BOOLEAN]

Enqueuer == [pc     : {"idle", "check", "insert", "readback"},
             todo   : SUBSET Targets,
             target : Targets \cup {NULL},
             job    : 0 .. MaxJobs]

(* Where a worker holds a job, and the only places that write its outcome. *)
Holding == {"fetch", "store", "finish", "settle"}

Worker == [pc       : {"off", "recover", "prune", "select", "claim", "exit"}
                        \cup Holding,
           job      : 0 .. MaxJobs,
           attempts : Nat]

IdleEnqueuer == [pc |-> "idle", todo |-> {}, target |-> NULL, job |-> 0]
OffWorker    == [pc |-> "off", job |-> 0, attempts |-> 0]

(* The type invariant of the tables and of every thread's local state. *)
TypeOK ==
    /\ born \subseteq Keywords
    /\ DOMAIN keywords \subseteq born
    /\ \A k \in DOMAIN keywords : keywords[k] \in Keyword
    /\ lastJob \in 0 .. MaxJobs
    /\ DOMAIN jobs \subseteq 1 .. lastJob
    /\ \A j \in DOMAIN jobs : jobs[j] \in Job
    /\ enq \in [Enqueuers -> Enqueuer]
    /\ workerLock \in BOOLEAN
    /\ worker \in [Workers -> Worker]
    /\ app \in {"down", "booting", "up"}
    /\ interruptions \in 0 .. MaxInterruptions

-----------------------------------------------------------------------------
(* The queries. *)

TargetOf(j) == <<jobs[j].keyword, jobs[j].timeframe, jobs[j].gprop>>

(* The keyword row still exists and lists this timeframe and this gprop. *)
Monitored(t) ==
    /\ t[1] \in DOMAIN keywords
    /\ t[2] \in keywords[t[1]].timeframes
    /\ t[3] \in keywords[t[1]].gprops

Enabled(t) == t[1] \in DOMAIN keywords /\ keywords[t[1]].enabled

Queued == {j \in DOMAIN jobs : jobs[j].status = "queued"}

(* Fault: a running job is overlooked. *)
QueuedOnlyFor(t) == {j \in Queued : TargetOf(j) = t}

(* The rows the SELECT of create_collection_job looks for. *)
ActiveFor(t) ==
    {j \in DOMAIN jobs : jobs[j].status \in ActiveStatus /\ TargetOf(j) = t}

(* The rows the SELECT of claim_next_collection_job may return. *)
Claimable ==
    {j \in Queued : /\ Monitored(TargetOf(j))
                    /\ Enabled(TargetOf(j))
                    /\ ~jobs[j].waiting}

Windows(k, tfs) == {k} \X (tfs \cap keywords[k].timeframes) \X keywords[k].gprops

Without(dropped) == [j \in DOMAIN jobs \ dropped |-> jobs[j]]

-----------------------------------------------------------------------------
(* Keyword handlers: each is one transaction. *)

AddKeyword(k) ==
    /\ app = "up"
    /\ k \notin born
    /\ born' = born \cup {k}
    /\ keywords' = [i \in DOMAIN keywords \cup {k} |->
                      IF i = k THEN [enabled    |-> TRUE,
                                     timeframes |-> DefaultTimeframes,
                                     gprops     |-> DefaultGprops]
                               ELSE keywords[i]]
    /\ UNCHANGED <<jobs, lastJob, enq, workerLock, worker, app, interruptions>>

ToggleKeyword(k) ==
    /\ app = "up"
    /\ k \in DOMAIN keywords
    /\ keywords' = [keywords EXCEPT ![k].enabled = ~@]
    /\ UNCHANGED <<born, jobs, lastJob, enq, workerLock, worker, app, interruptions>>

(* ON DELETE SET NULL: the jobs outlive the keyword and lose its id. *)
DeleteKeyword(k) ==
    /\ app = "up"
    /\ k \in DOMAIN keywords
    /\ keywords' = [i \in DOMAIN keywords \ {k} |-> keywords[i]]
    /\ jobs' = [j \in DOMAIN jobs |->
                  IF jobs[j].keyword = k THEN [jobs[j] EXCEPT !.keyword = NULL]
                                         ELSE jobs[j]]
    /\ UNCHANGED <<born, lastJob, enq, workerLock, worker, app, interruptions>>

(* Fault: the DELETE does not ask for status = 'queued'. *)
WriteTimeframesAnyStatus(tfs) ==
    /\ keywords' = [k \in DOMAIN keywords |->
                      IF k \in DOMAIN tfs
                      THEN [keywords[k] EXCEPT !.timeframes = tfs[k]]
                      ELSE keywords[k]]
    /\ jobs' = Without({j \in DOMAIN jobs :
                          /\ jobs[j].keyword \in DOMAIN tfs
                          /\ jobs[j].timeframe \notin tfs[jobs[j].keyword]})
    /\ UNCHANGED <<born, lastJob, enq, workerLock, worker, app, interruptions>>

(* Fault: dropped timeframes keep their queued jobs. *)
WriteTimeframesOnly(tfs) ==
    /\ keywords' = [k \in DOMAIN keywords |->
                      IF k \in DOMAIN tfs
                      THEN [keywords[k] EXCEPT !.timeframes = tfs[k]]
                      ELSE keywords[k]]
    /\ UNCHANGED <<born, jobs, lastJob, enq, workerLock, worker, app, interruptions>>

(* _write_keyword_timeframes for every keyword k of a set, tfs[k] being its *)
(* new timeframes: queued jobs for dropped timeframes go with it.           *)
WriteTimeframes(tfs) ==
    /\ keywords' = [k \in DOMAIN keywords |->
                      IF k \in DOMAIN tfs
                      THEN [keywords[k] EXCEPT !.timeframes = tfs[k]]
                      ELSE keywords[k]]
    /\ jobs' = Without({j \in Queued : /\ jobs[j].keyword \in DOMAIN tfs
                                       /\ jobs[j].timeframe \notin tfs[jobs[j].keyword]})
    /\ UNCHANGED <<born, lastJob, enq, workerLock, worker, app, interruptions>>

UpdateTimeframes(k, selected) ==
    /\ app = "up"
    /\ k \in DOMAIN keywords
    /\ WriteTimeframes([i \in {k} |-> selected])

(* Fault: nothing stops the last timeframe from being removed. *)
BulkAdjustUnchecked(ks, tfs, adding) ==
    /\ app = "up"
    /\ ks \subseteq DOMAIN keywords
    /\ WriteTimeframes([k \in ks |-> IF adding THEN keywords[k].timeframes \cup tfs
                                              ELSE keywords[k].timeframes \ tfs])

(* Either every addressed keyword is rewritten, or, when one would be left *)
(* without a timeframe, none is (ValueError before the transaction).       *)
BulkAdjustTimeframes(ks, tfs, adding) ==
    LET adjusted == [k \in ks |-> IF adding THEN keywords[k].timeframes \cup tfs
                                            ELSE keywords[k].timeframes \ tfs]
    IN /\ app = "up"
       /\ ks \subseteq DOMAIN keywords
       /\ \A k \in ks : adjusted[k] # {}
       /\ WriteTimeframes(adjusted)

UpdateGprops(k, selected) ==
    /\ app = "up"
    /\ k \in DOMAIN keywords
    /\ keywords' = [keywords EXCEPT ![k].gprops = selected]
    /\ jobs' = Without({j \in Queued : /\ jobs[j].keyword = k
                                       /\ jobs[j].gprop \notin selected})
    /\ UNCHANGED <<born, lastJob, enq, workerLock, worker, app, interruptions>>

-----------------------------------------------------------------------------
(* Fault: the lock is neither asked for nor respected. *)
StartWorkerUnlocked(w) ==
    /\ app = "up"
    /\ worker[w].pc = "off"
    /\ workerLock' = TRUE
    /\ worker' = [worker EXCEPT ![w].pc = "recover"]

(* start_worker: a thread is spawned iff the lock could be taken; that      *)
(* spawning it raises, which would leave the lock held, is assumed away.    *)

StartWorker(w) ==
    /\ app = "up"
    /\ ~workerLock
    /\ worker[w].pc = "off"
    /\ workerLock' = TRUE
    /\ worker' = [worker EXCEPT ![w].pc = "recover"]

(* The scheduler's one-minute job.  With the lock held it returns False. *)
Tick(w) ==
    /\ StartWorker(w)
    /\ UNCHANGED <<db, enq, app, interruptions>>

-----------------------------------------------------------------------------
(* Enqueuing threads.  The keywords are read once, then every target is     *)
(* looked up and inserted in transactions of its own.                       *)

Begin(e, targets) ==
    /\ app = "up"
    /\ enq[e].pc = "idle"
    /\ enq' = [enq EXCEPT ![e] = [IdleEnqueuer EXCEPT !.pc = "check",
                                                      !.todo = targets]]
    /\ UNCHANGED <<db, workerLock, worker, app, interruptions>>

EnabledTargets(tfs) ==
    UNION {Windows(k, tfs) : k \in {i \in DOMAIN keywords : keywords[i].enabled}}

(* The two cron jobs ask for some timeframes, collect_now for all of them. *)
EnqueueScheduled(e) == e \in Cron /\ Begin(e, EnabledTargets(CronTimeframes[e]))

CollectNow(e) == e \in Web /\ Begin(e, EnabledTargets(Timeframes))

(* collect_one does not ask whether the keyword is enabled. *)
CollectOne(e, k) ==
    /\ e \in Web
    /\ k \in DOMAIN keywords
    /\ Begin(e, Windows(k, Timeframes))

Done(e, t) == [enq[e] EXCEPT !.pc = "check", !.todo = @ \ {t},
                             !.target = NULL, !.job = 0]

(* The SELECT of create_collection_job: an active job is returned as is. *)
CheckExisting(e, t) ==
    /\ enq[e].pc = "check"
    /\ t \in enq[e].todo
    /\ enq' = [enq EXCEPT ![e] = IF ActiveFor(t) # {}
                                 THEN Done(e, t)
                                 ELSE [@ EXCEPT !.pc = "insert", !.target = t]]
    /\ UNCHANGED <<db, workerLock, worker, app, interruptions>>

NewJob(t) == [keyword |-> t[1], timeframe |-> t[2], gprop |-> t[3],
              status |-> "queued", attempts |-> 0,
              waiting |-> FALSE, stale |-> FALSE]

(* The INSERT of create_collection_job. *)
InsertJob(e) ==
    /\ enq[e].pc = "insert"
    /\ lastJob < MaxJobs
    /\ enq[e].target[1] \in DOMAIN keywords
    /\ lastJob' = lastJob + 1
    /\ jobs' = [j \in DOMAIN jobs \cup {lastJob + 1} |->
                  IF j = lastJob + 1 THEN NewJob(enq[e].target) ELSE jobs[j]]
    /\ enq' = [enq EXCEPT ![e] = [@ EXCEPT !.pc = "readback", !.job = lastJob + 1]]
    /\ UNCHANGED <<keywords, born, workerLock, worker, app, interruptions>>

(* The foreign key refuses a keyword deleted meanwhile, and the exception   *)
(* ends the whole batch.                                                    *)
InsertRefused(e) ==
    /\ enq[e].pc = "insert"
    /\ enq[e].target[1] \notin DOMAIN keywords
    /\ enq' = [enq EXCEPT ![e] = IdleEnqueuer]
    /\ UNCHANGED <<db, workerLock, worker, app, interruptions>>

(* get_collection_job on the new id: a job that a settings change removed   *)
(* meanwhile is a LookupError, which ends the batch too.                    *)
ReadBack(e) ==
    /\ enq[e].pc = "readback"
    /\ enq' = [enq EXCEPT ![e] = IF enq[e].job \in DOMAIN jobs
                                 THEN Done(e, enq[e].target)
                                 ELSE IdleEnqueuer]
    /\ UNCHANGED <<db, workerLock, worker, app, interruptions>>

(* An exception of the database ends the batch halfway. *)
AbandonBatch(e) ==
    /\ enq[e].pc \in {"check", "insert", "readback"}
    /\ enq' = [enq EXCEPT ![e] = IdleEnqueuer]
    /\ UNCHANGED <<db, workerLock, worker, app, interruptions>>

(* A finished batch.  The web handlers then try to start the worker.        *)
FinishBatch(e) ==
    /\ enq[e].pc = "check"
    /\ enq[e].todo = {}
    /\ enq' = [enq EXCEPT ![e] = IdleEnqueuer]
    /\ IF e \in Web /\ ~workerLock
       THEN \E w \in Workers : StartWorker(w)
       ELSE UNCHANGED <<workerLock, worker>>
    /\ UNCHANGED <<db, app, interruptions>>

-----------------------------------------------------------------------------
(* The worker thread: process_due_jobs, one action per transaction. *)

(* Fault: a requeued job starts to count anew. *)
RequeueForgetful ==
    jobs' = [j \in DOMAIN jobs |->
               IF jobs[j].status = "running" /\ jobs[j].stale
               THEN [jobs[j] EXCEPT !.status = "queued", !.waiting = FALSE,
                                    !.stale = FALSE, !.attempts = 0]
               ELSE jobs[j]]

(* Fault: started_at is compared with the cutoff the wrong way round. *)
RequeueFresh ==
    jobs' = [j \in DOMAIN jobs |->
               IF jobs[j].status = "running" /\ ~jobs[j].stale
               THEN [jobs[j] EXCEPT !.status = "queued", !.waiting = FALSE]
               ELSE jobs[j]]

(* requeue_stale_running_jobs.  attempts are kept. *)
RequeueStale ==
    jobs' = [j \in DOMAIN jobs |->
               IF jobs[j].status = "running" /\ jobs[j].stale
               THEN [jobs[j] EXCEPT !.status = "queued", !.waiting = FALSE,
                                    !.stale = FALSE]
               ELSE jobs[j]]

(* Fault: jobs are deleted whatever their status. *)
DeleteAllUnmonitored == jobs' = Without({j \in DOMAIN jobs : ~Monitored(TargetOf(j))})

(* delete_unmonitored_queued_jobs.  Jobs of paused keywords stay. *)
DeleteUnmonitored == jobs' = Without({j \in Queued : ~Monitored(TargetOf(j))})

Goto(w, pc) == worker' = [worker EXCEPT ![w].pc = pc]

Recover(w) ==
    /\ worker[w].pc = "recover"
    /\ RequeueStale
    /\ Goto(w, "prune")
    /\ UNCHANGED <<keywords, born, lastJob, enq, workerLock, app, interruptions>>

Prune(w) ==
    /\ worker[w].pc = "prune"
    /\ DeleteUnmonitored
    /\ Goto(w, "select")
    /\ UNCHANGED <<keywords, born, lastJob, enq, workerLock, app, interruptions>>

(* The SELECT of claim_next_collection_job: the oldest claimable job. *)
Select(w) ==
    /\ worker[w].pc = "select"
    /\ \E j \in Claimable :
         /\ \A i \in Claimable : j <= i
         /\ worker' = [worker EXCEPT ![w] = [OffWorker EXCEPT !.pc = "claim", !.job = j]]
    /\ UNCHANGED <<db, enq, workerLock, app, interruptions>>

FindNothing(w) ==
    /\ worker[w].pc = "select"
    /\ Claimable = {}
    /\ worker' = [worker EXCEPT ![w] = [OffWorker EXCEPT !.pc = "exit"]]
    /\ UNCHANGED <<db, enq, workerLock, app, interruptions>>

Claimed(j) == [jobs[j] EXCEPT !.status = "running", !.attempts = @ + 1,
                              !.waiting = FALSE, !.stale = FALSE]

(* The UPDATE, guarded by status = 'queued' alone, and the row read back,   *)
(* whether the UPDATE matched it or not.                                    *)
Claim(w) ==
    LET j == worker[w].job IN
    /\ worker[w].pc = "claim"
    /\ j \in DOMAIN jobs
    /\ jobs' = IF jobs[j].status = "queued"
               THEN [jobs EXCEPT ![j] = Claimed(j)]
               ELSE jobs
    /\ worker' = [worker EXCEPT ![w] = [pc |-> "fetch", job |-> j,
                                        attempts |-> jobs'[j].attempts]]
    /\ UNCHANGED <<keywords, born, lastJob, enq, workerLock, app, interruptions>>

(* A job deleted since the SELECT is a LookupError that ends the thread. *)
ClaimGone(w) ==
    /\ worker[w].pc = "claim"
    /\ worker[w].job \notin DOMAIN jobs
    /\ worker' = [worker EXCEPT ![w] = [OffWorker EXCEPT !.pc = "exit"]]
    /\ UNCHANGED <<db, enq, workerLock, app, interruptions>>

(* provider.collect_keyword returns points, or none, or raises (Raise). *)
Fetch(w) ==
    /\ worker[w].pc = "fetch"
    /\ \E pc \in {"store", "finish"} : Goto(w, pc)
    /\ UNCHANGED <<db, enq, workerLock, app, interruptions>>

(* upsert_trend_points: the foreign key refuses points of a keyword that is *)
(* gone, and the job's keyword_id may be NULL by now.                       *)
Store(w) ==
    /\ worker[w].pc = "store"
    /\ LET j == worker[w].job IN
       Goto(w, IF j \in DOMAIN jobs /\ jobs[j].keyword \in DOMAIN keywords
               THEN "finish" ELSE "settle")
    /\ UNCHANGED <<db, enq, workerLock, app, interruptions>>

(* The three outcomes are UPDATEs by id: no row, no effect, and no guard on *)
(* the status they overwrite.                                               *)
WriteOutcome(w, status, waiting) ==
    /\ jobs' = [j \in DOMAIN jobs |->
                  IF j = worker[w].job
                  THEN [jobs[j] EXCEPT !.status = status, !.waiting = waiting,
                                       !.stale = FALSE]
                  ELSE jobs[j]]
    /\ worker' = [worker EXCEPT ![w] = [OffWorker EXCEPT !.pc = "select"]]
    /\ UNCHANGED <<keywords, born, lastJob, enq, workerLock, app, interruptions>>

Succeed(w) ==
    /\ worker[w].pc = "finish"
    /\ WriteOutcome(w, "success", FALSE)

(* Any exception of the try block: rate limit, timeout, database error. *)
Raise(w) ==
    /\ worker[w].pc \in {"fetch", "store", "finish"}
    /\ Goto(w, "settle")
    /\ UNCHANGED <<db, enq, workerLock, app, interruptions>>

(* Fault: off by one. *)
RetryOnceMore(w) ==
    /\ worker[w].pc = "settle"
    /\ worker[w].attempts <= MaxAttempts
    /\ WriteOutcome(w, "queued", TRUE)

Retry(w) ==
    /\ worker[w].pc = "settle"
    /\ worker[w].attempts < MaxAttempts
    /\ WriteOutcome(w, "queued", TRUE)

GiveUp(w) ==
    /\ worker[w].pc = "settle"
    /\ worker[w].attempts >= MaxAttempts
    /\ WriteOutcome(w, "failed", FALSE)

(* An exception no handler catches: the thread ends, its job stays running. *)
Die(w) ==
    /\ worker[w].pc \in {"recover", "prune", "select", "claim", "settle"}
    /\ interruptions < MaxInterruptions
    /\ interruptions' = interruptions + 1
    /\ worker' = [worker EXCEPT ![w] = [OffWorker EXCEPT !.pc = "exit"]]
    /\ UNCHANGED <<db, enq, workerLock, app>>

(* Fault: no finally clause. *)
ReleaseNothing(w) ==
    /\ worker[w].pc = "exit"
    /\ worker' = [worker EXCEPT ![w] = OffWorker]
    /\ UNCHANGED <<db, enq, workerLock, app, interruptions>>

(* The finally clause of run. *)
Release(w) ==
    /\ worker[w].pc = "exit"
    /\ worker' = [worker EXCEPT ![w] = OffWorker]
    /\ workerLock' = FALSE
    /\ UNCHANGED <<db, enq, app, interruptions>>

-----------------------------------------------------------------------------
(* The process and the clock. *)

(* The process stops anywhere.  The tables survive, threads and lock do not.*)
Crash ==
    /\ app # "down"
    /\ interruptions < MaxInterruptions
    /\ interruptions' = interruptions + 1
    /\ app' = "down"
    /\ enq' = [e \in Enqueuers |-> IdleEnqueuer]
    /\ worker' = [w \in Workers |-> OffWorker]
    /\ workerLock' = FALSE
    /\ UNCHANGED db

(* lifespan, before the first request: two transactions. *)
Boot ==
    /\ app = "down"
    /\ RequeueStale
    /\ app' = "booting"
    /\ UNCHANGED <<keywords, born, lastJob, enq, workerLock, worker, interruptions>>

BootPrune ==
    /\ app = "booting"
    /\ DeleteUnmonitored
    /\ app' = "up"
    /\ UNCHANGED <<keywords, born, lastJob, enq, workerLock, worker, interruptions>>

(* 30 minutes pass since started_at, whoever still works on the job. *)
BecomeStale(j) ==
    /\ j \in DOMAIN jobs
    /\ jobs[j].status = "running"
    /\ ~jobs[j].stale
    /\ jobs' = [jobs EXCEPT ![j].stale = TRUE]
    /\ UNCHANGED <<keywords, born, lastJob, enq, workerLock, worker, app, interruptions>>

(* The clock reaches next_attempt_at. *)
RetryDue(j) ==
    /\ j \in DOMAIN jobs
    /\ jobs[j].status = "queued"
    /\ jobs[j].waiting
    /\ jobs' = [jobs EXCEPT ![j].waiting = FALSE]
    /\ UNCHANGED <<keywords, born, lastJob, enq, workerLock, worker, app, interruptions>>

-----------------------------------------------------------------------------

Init ==
    /\ keywords = [k \in {} |-> {}]
    /\ born = {}
    /\ jobs = [j \in {} |-> {}]
    /\ lastJob = 0
    /\ enq = [e \in Enqueuers |-> IdleEnqueuer]
    /\ workerLock = FALSE
    /\ worker = [w \in Workers |-> OffWorker]
    /\ app = "down"
    /\ interruptions = 0

KeywordStep ==
    \/ \E k \in Keywords : AddKeyword(k) \/ ToggleKeyword(k) \/ DeleteKeyword(k)
    \/ \E k \in Keywords, s \in (SUBSET Timeframes) \ {{}} : UpdateTimeframes(k, s)
    \/ \E ks \in (SUBSET Keywords) \ {{}}, s \in (SUBSET Timeframes) \ {{}}, a \in BOOLEAN :
         BulkAdjustTimeframes(ks, s, a)
    \/ \E k \in Keywords, s \in (SUBSET Gprops) \ {{}} : UpdateGprops(k, s)

EnqueueStep(e) ==
    \/ EnqueueScheduled(e) \/ CollectNow(e)
    \/ \E k \in Keywords : CollectOne(e, k)
    \/ \E t \in Targets : CheckExisting(e, t)
    \/ InsertJob(e) \/ InsertRefused(e) \/ ReadBack(e) \/ AbandonBatch(e) \/ FinishBatch(e)

WorkerStep(w) ==
    \/ Recover(w) \/ Prune(w)
    \/ Select(w) \/ FindNothing(w) \/ Claim(w) \/ ClaimGone(w)
    \/ Fetch(w) \/ Store(w) \/ Succeed(w) \/ Raise(w)
    \/ Retry(w) \/ GiveUp(w) \/ Die(w) \/ Release(w)

ClockStep == \E j \in JobIds : BecomeStale(j) \/ RetryDue(j)

ProcessStep == Crash \/ Boot \/ BootPrune

Next ==
    \/ KeywordStep
    \/ \E e \in Enqueuers : EnqueueStep(e)
    \/ \E w \in Workers : Tick(w) \/ WorkerStep(w)
    \/ ClockStep
    \/ ProcessStep

Spec == Init /\ [][Next]_vars

(* What the scheduling provides: worker threads are run and their requests  *)
(* time out, the scheduler keeps ticking, a stopped container is restarted, *)
(* and the clock advances.  Nothing is assumed of users or cron jobs.       *)
Fairness ==
    /\ \A w \in Workers : WF_vars(WorkerStep(w))
    /\ WF_vars(\E w \in Workers : Tick(w))
    /\ WF_vars(Boot \/ BootPrune)
    /\ \A j \in JobIds : WF_vars(BecomeStale(j)) /\ WF_vars(RetryDue(j))

FairSpec == Spec /\ Fairness

-----------------------------------------------------------------------------
(* Safety. *)

(* Whoever is about to write a job's outcome by id still holds that job: it *)
(* is there, running, and the attempts read when it was claimed are the     *)
(* row's.  The UPDATEs check none of this; the lock, the status filters of  *)
(* every DELETE and the moments at which stale jobs are requeued must.      *)
WorkerOwnsJob ==
    \A w \in Workers : worker[w].pc \in Holding =>
        /\ worker[w].job \in DOMAIN jobs
        /\ jobs[worker[w].job].status = "running"
        /\ jobs[worker[w].job].attempts = worker[w].attempts

(* worker_lock admits one thread at a time, from its spawning to the        *)
(* finally clause, across deaths of threads and restarts of the process.    *)
OneWorker ==
    \A v, w \in Workers :
        worker[v].pc # "off" /\ worker[w].pc # "off" => v = w

(* A job is taken more often than max_attempts only as often as a crash or  *)
(* a dead worker wasted one of its attempts.                                *)
AttemptsBounded ==
    \A j \in DOMAIN jobs : jobs[j].attempts <= MaxAttempts + interruptions

(* A collection finished for good is never taken up, overwritten or lost,   *)
(* whatever users, other workers and restarts do.                           *)
TerminalIsFinal ==
    [][\A j \in DOMAIN jobs : jobs[j].status \in TerminalStatus =>
          /\ j \in DOMAIN jobs'
          /\ jobs'[j].status = jobs[j].status
          /\ jobs'[j].attempts = jobs[j].attempts]_vars

(* A job starts only for a window its keyword monitors at that very moment, *)
(* although it was chosen by an earlier SELECT and perhaps created from an  *)
(* older reading of the settings; only a job orphaned by the deletion of    *)
(* its keyword slips through.                                               *)
StartsMonitored ==
    [][\A j \in DOMAIN jobs \cap DOMAIN jobs' :
          jobs[j].status = "queued" /\ jobs'[j].status = "running" =>
             jobs[j].keyword = NULL \/ Monitored(TargetOf(j))]_vars

(* create_collection_job keeps at most one active job per target.  Its      *)
(* check and its insert are two steps, so this needs a single enqueuer.     *)
NoDuplicateJobs ==
    \A i, j \in DOMAIN jobs :
        /\ {jobs[i].status, jobs[j].status} \subseteq ActiveStatus
        /\ TargetOf(i) = TargetOf(j)
        /\ jobs[i].keyword # NULL
        => i = j

(* GOOGLETRENDS_MAX_ATTEMPTS as the documentation describes it: "the most   *)
(* times a single task is tried".                                           *)
AttemptsWithinMax == \A j \in DOMAIN jobs : jobs[j].attempts <= MaxAttempts

-----------------------------------------------------------------------------
(* What makes the safety properties inductive. *)

(* Between its SELECT and its INSERT a thread has a target in hand. *)
HasTarget ==
    \A e \in Enqueuers :
        enq[e].pc \in {"insert", "readback"} => enq[e].target \in Targets

LockGuards == \A w \in Workers : worker[w].pc # "off" => workerLock

OffWhenDown == app # "up" => \A w \in Workers : worker[w].pc = "off"

(* Between the SELECT and the UPDATE of a claim the job can only disappear, *)
(* be paused or lose its keyword: settings changes delete what they drop.   *)
ChosenJob ==
    \A w \in Workers : worker[w].pc = "claim" =>
        /\ worker[w].job \in 1 .. lastJob
        /\ worker[w].job \in DOMAIN jobs =>
              /\ jobs[worker[w].job].status = "queued"
              /\ \/ jobs[worker[w].job].keyword = NULL
                 \/ Monitored(TargetOf(worker[w].job))

Held(j) == \E w \in Workers : worker[w].pc \in Holding /\ worker[w].job = j

(* A job nobody holds has used up max_attempts only by interruptions: the   *)
(* one being held is the only one that may be at its last regular attempt.  *)
AttemptsLeft ==
    \A j \in DOMAIN jobs :
        /\ jobs[j].attempts <= MaxAttempts + interruptions
        /\ jobs[j].status \in ActiveStatus /\ ~Held(j) =>
              jobs[j].attempts < MaxAttempts + interruptions

(* What an INSERT about to happen relies on, when nobody else inserts. *)
NothingActive ==
    \A e \in Enqueuers :
        enq[e].pc = "insert" => ActiveFor(enq[e].target) = {}

SingleEnqueuer == \A d, e \in Enqueuers : d = e

IInv == /\ TypeOK /\ HasTarget
        /\ LockGuards /\ OneWorker /\ OffWhenDown
        /\ ChosenJob /\ WorkerOwnsJob
        /\ AttemptsLeft

-----------------------------------------------------------------------------
(* Liveness, under FairSpec. *)

Running(j) == j \in DOMAIN jobs /\ jobs[j].status = "running"

(* Nothing stays "running" for ever, not even when its worker died: such a  *)
(* job would keep every later job for its target from being created.        *)
RunningEnds == \A j \in JobIds : Running(j) ~> ~Running(j)

(* A queued job is finished, dropped, or parked by a paused keyword, though *)
(* a start_worker call that meets a worker about to end starts nothing.     *)
QueuedSettles ==
    \A j \in JobIds :
        (j \in DOMAIN jobs /\ jobs[j].status \in ActiveStatus) ~>
            \/ j \notin DOMAIN jobs
            \/ jobs[j].status \in TerminalStatus
            \/ Monitored(TargetOf(j)) /\ ~Enabled(TargetOf(j))

=============================================================================
