# Google Trends Monitor: a verification project

TLA+ modules for the program in `src/googletrends_app`: a FastAPI application
that keeps keywords in SQLite, collects their Google Trends series through a
queue of jobs, derives alerts from the series and sends some of them to Feishu.
Paths below are relative to `src/googletrends_app/` unless they start with `src/`.

## The system

One process hosts everything: the web handlers (synchronous ones in a thread
pool, asynchronous ones on the event loop), an APScheduler with three jobs, and
at most one collection worker thread. They meet in the SQLite file and in
`app.state`. Every repository function opens a transaction with its first write
and commits before it returns; SQLite admits one writer at a time.

| Component | State | Operations | What makes it correct |
|---|---|---|---|
| Keyword settings (`repository.py`, `main.py`) | `keywords` | add, toggle, delete, set or bulk-adjust windows, set sources | a keyword never loses its last window; a settings change removes the queued jobs it makes pointless, and no others |
| Job queue (`repository.py`, `collector.py`) | `collection_jobs`, `collection_job_attempts` | create, claim, succeed, retry, fail, requeue stale, prune | an outcome is written by the owner of the job; finished jobs stay finished; attempts are bounded; nothing is stuck |
| Scheduler and collection routes (`main.py`) | none | hourly and daily cron job, `/collect`, `/collect/run-now`, one-minute worker job | one active job per keyword, window and source |
| Worker (`worker.py`) | `worker_lock` | start, run, release | one worker at a time; the lock is always given back |
| Lifecycle (`main.py`) | `app.state` | start-up recovery, stop | interrupted jobs are found again |
| Alert evaluation (`collector.py`) | `alerts` | cooldown query, `INSERT OR IGNORE`, notify | one alert per cooldown; each notification follows its alert |
| Alert rules (`collector.py`) | none (pure) | short, mid and long windows | thresholds and window sizes at the boundaries |
| Backtest (`backtest.py`) | none (pure) | replay | agrees with the live rules and cooldown |
| Trends provider (`trends.py`) | `last_proxy_name`, `last_proxy_url`, `last_profile_key` | collect, retry after a rate limit | what is recorded is what was used |
| Proxy pool, request profiles (`proxy_pool.py`, `request_profiles.py`) | list and cursor, under a lock | next, refresh | every proxy gets its turn; the cursor stays in range |
| Clash controller (`clash.py`) | the node selected in Clash, which its user may change too | rotate | a switch goes to the next allowed node that passed its test, and to nothing else |
| Proxy check page (`proxy_check.py`) | shares pool and controller | check, rotate | does not disturb the worker |
| Notifier (`notifier.py`) | none | send | a failed request never raises |
| Database initialisation (`database.py`) | the file | check, set aside, create, migrate | committed rows survive whatever is set aside; a damaged database is replaced; no query meets a missing column |
| Settings, timestamps, pages, charts, bridge, container | configuration or rendering | | not modelled |

What is hard here: threads that interleave between transactions (two
check-then-act pairs, `create_collection_job` and `claim_next_collection_job`);
UPDATEs by id without a guard; settings changed under a running worker; crashes
that leave rows behind; a timeout (30 minutes) that takes jobs back from a
worker that may only be slow; a wake-up that can be lost; a proxy pool and a Clash
controller used by the worker and the proxy-check page at once, with HTTP requests
inside their locks; a database file that is renamed while connections to it are
open. `PROJECT.json` lists
each of these hazards at its line.

## Modules

| Module | What it is |
|---|---|
| `JobQueue` | the tables, threads, lock, restarts and clock of the queue; its properties; the strengthening used by the proofs |
| `JobService` | the abstract promise: tasks issued, served one at a time, tried a bounded number of times, never touched once finished |
| `JobQueueService` | the refinement mapping from the first to the second |
| `JobQueue_proofs` | safety proofs about `JobQueue`, for all constants, and that the mapping is a refinement |
| `Alerts` | cooldown, insertion and notification of alerts, and what the proofs need |
| `Alerts_proofs` | safety proofs about `Alerts` |
| `Subscription` | what the answer of a proxy subscription becomes |
| `Subscription_proofs` | that it becomes a list as `ProxyPool` assumes it |
| `ProxyPool` | round robin, refresh and lock of the pool; its inductive invariant |
| `ClashController` | a rotation, request by request, and the user of Clash |
| `Provider` | the worker's provider and the page threads, on a `ProxyPool` and a `ClashController` they share |
| `Provider_proofs` | safety proofs about `Provider`; that it implements its two parts |
| `Subsequence` | a list comprehension with a condition, as a recursive function |
| `Recursion` | lemmas on induction and recursive functions, for the proofs |
| `AlertRules` | the rules as functions of a series |
| `AlertRules_proofs` | lemmas: what the rules report of series of every length |
| `Backtest` | the replay of a series, compared with the live program |
| `Backtest_proofs` | safety proofs about `Backtest` |
| `DatabaseInit` | `initialize_database` in several threads, with other connections, damage and crashes |
| `DatabaseInit_proofs` | safety proofs about `DatabaseInit` |
| `MCJobQueue`, `MCAlerts`, `MCProvider`, `MCBacktest`, `MCDatabase` | the instances for TLC |

### How `JobQueue` corresponds to the code

*Granularity.* A step is one committed transaction or one SELECT. This is
where threads can interleave: in between, SQLite serialises writers. The
asynchronous handlers (`timeframes`, `timeframes/bulk`, `gprops`) do not await
between reading the settings they rewrite and their commit, so the reads of
`bulk_adjust_keyword_timeframes` cannot be outdated by another change of windows, and the
handler is one step. A keyword deleted in between makes its UPDATE match
no row, which is the same as the handler never having named it.

| Code | Model |
|---|---|
| a row of `keywords`, of `collection_jobs` | a record in `keywords`, `jobs`; `geo` is always `""` and left out |
| `AUTOINCREMENT` | `born`, `lastJob`: ids are never handed out twice |
| `ON DELETE SET NULL` | `DeleteKeyword` sets `keyword` to `NULL` |
| `max_attempts` of a row | `MaxAttempts`: one setting, fixed while the process runs |
| `next_attempt_at > now` | `waiting`, cleared by `RetryDue`; every delay, a rate limit's included, is "some time" |
| `started_at <= now - 30 min` | `stale`, set by `BecomeStale`, also while a worker is still at it |
| `create_collection_jobs_for_enabled`, `enqueue_keyword_jobs` | `EnqueueScheduled`, `CollectNow`, `CollectOne` read the keywords once; then `CheckExisting`, `InsertJob` / `InsertRefused`, `ReadBack` per target, `FinishBatch` at the end, `AbandonBatch` for a database exception |
| order of the targets in a batch | any order; the properties do not depend on it |
| `start_worker` | `StartWorker`, by `Tick` or by a web thread's `FinishBatch`; with the lock held nothing is started. `lock.acquire` and `thread.start` are one step: see below |
| `process_due_jobs` | `Recover`, `Prune`, then `Select` / `FindNothing`, `Claim` / `ClaimGone` |
| `process_collection_job` | `Fetch`, `Store`, `Succeed`, or `Raise` and then `Retry` / `GiveUp` |
| the `finally` of `start_worker.run` | `Release`, after `FindNothing`, `ClaimGone` or `Die` |
| `lifespan` | `Boot`, `BootPrune`, before any request |
| daemon threads, in-memory lock | both vanish in `Crash`, the tables stay |

`StartWorker` takes the lock and has the thread running in one step: nobody else can
take the lock in between, and a crash loses both. If `thread.start` itself raised (no
more threads to be had) the lock would stay held and nothing but a restart would help; this
the model leaves out, with the assumption that the operating system runs the worker's thread.

An evaluation of alerts that fails is a `Raise` at `"finish"`. After
`finish_collection_job_success` only the notifier runs: it builds a text from
values it has just stored and swallows `requests.RequestException`, so the model
lets nothing be raised there. An exception of another kind would send
a finished job back to the queue: this is an assumption of `TerminalIsFinal`.
`record_collection_job_attempt` writes a log that no operation reads, and its
exception is caught: it is not a step.

`run_worker_once`, `collect_keyword` and `collect_all_enabled` have no caller in
the program and would bypass the lock; they are not modelled. `initialize_database`
is a component of its own, `DatabaseInit`.

Operators marked "Fault" are distorted versions of the operator after them (a
dropped guard, an inverted comparison, an off-by-one). With one of them in the
place of its neighbour some property must fail:

| Property | Fault |
|---|---|
| `TypeOK` | `BulkAdjustUnchecked`: a keyword can lose its last window |
| `WorkerOwnsJob` | `WriteTimeframesAnyStatus`: running jobs are deleted with their window |
| `OneWorker` | `StartWorkerUnlocked` |
| `AttemptsBounded` | `RetryOnceMore` |
| `TerminalIsFinal` | `DeleteAllUnmonitored`: history is pruned |
| `StartsMonitored` | `WriteTimeframesOnly`: a job chosen by the SELECT of a claim outlives its window |
| `NoDuplicateJobs` | `QueuedOnlyFor`: running jobs are overlooked |
| `ImplementsService` | `RequeueForgetful`: a requeued job starts to count anew |
| `RunningEnds` | `RequeueFresh`: the cutoff is compared the wrong way round |
| `QueuedSettles` | `ReleaseNothing`: the lock is not given back |

### How `Alerts` corresponds to the code

| Code | Model |
|---|---|
| `upsert_trend_points`, `list_trend_points`, `build_alert_candidates` | `Evaluate`: the series ends at some date, never an earlier one, and the rules report one of `Reports`; only the worker writes points, so these are one step |
| `is_alert_in_cooldown` | `Cooled` / `Due`, one SELECT |
| `insert_alert` | `Insert`, or `InsertRefused` by the foreign key |
| `finish_collection_job_success` | `Finish` |
| the loop over `alerts` with `should_notify_alert` | `Notify`, one alert at a time, then `Return` |
| an exception in the `try` block, a crash | `Interrupt`; what was committed stays, the list of created alerts is lost |
| `UNIQUE (keyword_id, rule, point_date)` | `SameRule` |
| `ON DELETE CASCADE` | `DeleteKeyword` |

There is one job at a time, which is `JobQueue`'s `OneWorker`. Any series may be
evaluated next, so retries of a failed job are included. `created_at`
is set by SQLite and the cutoff computed in Python; both are UTC seconds, and the
model's hours are any unit. Adding keywords is left to `JobQueue`: an
id is never used again, so a new keyword starts without alerts, as all do here.
`sent` and `interrupted` are history: the calls of `send_text`, and whether some
evaluation was cut short.

| Property | Fault |
|---|---|
| `TypeOK` (with the foreign key) | `DeleteKeywordOnly`: no cascade |
| `CooldownRespected` | `InCooldownExclusive`: `>` for `>=` |
| `NotifiedOnce` | `InsertAlways`: an ignored row counts as created |
| `NotifiedUnlessInterrupted` | `FinishWithLast`: only the last alert of a report is announced |

### How `Provider` and its parts correspond to the code

`ProxyPool` and `ClashController` are specifications with actions parameterised by
the calling thread. `Provider` instantiates both with one set of threads, the
worker's and those of the page, and joins each of their actions with what its
caller does next.

| Code | Model |
|---|---|
| `parse_proxy_subscription` and its helpers | `Subscription`: tokens and nodes in, endpoints with distinct URLs out, or the `ValueError` of a token that `urlsplit` refuses, which ends the whole parse; base64 and YAML are left out, what they contain is not |
| that exception inside `_refresh_if_needed` | `RefreshFails`, like a request that fails or a list without entries |
| `next_proxy_url`, with `_lock` held throughout | `NextProxy`, one step; with a fetch two: `FetchList`, then `Refresh` or `RefreshFails`; `holder` is the lock |
| `monotonic() - _last_refresh` | `age`; `Expire` makes it old |
| `_build_trend_req` | `TakeProxy` (line 210), `BuildRequest` (line 211 on): the name is read from the pool again, outside its lock |
| `profile_for` | `Assign`, `ProfileOf`: `assigned` lists the keys in the order they came |
| the requests of pytrends | `Answered`, `RequestFails`, the latter with or without the signs of a rate limit |
| `collect_keyword` | `StartCollection`, `AfterException`, `StartRotation`, `RotateClash`, `AfterRotation`; `attempt` 2 is the retry |
| `rotate_proxy_with_group` | `Rotate`, `ReadMode`, `ReadGroup` / `NoCandidates`, `TestPasses` / `TestFails` / `LastTestFails`, `SelectProxy` / `AnswerLost`; `RequestFails` in between; `lock` is its lock |
| `available_candidates`, the order from `candidates.index(current) + 1` | `Candidates`, `Place`, `Ordered` |
| `run_proxy_check`, `rotate_clash_proxy` on `app.state` | `CheckProxy`, `CheckFetches`, `CheckFails`; `PageStartsRotation`, `PageRotates` |
| Clash itself | `mode`, `layout`, `now`, changed by `UserSelects`, `UserChangesMode`, `UserReloads` and by selections |

A retry after a rotation has `attempt` 2 in `AfterException`, so that its exception
goes to the caller and there is no second rotation. An exception of the pool
(`SubscriptionFails`) starts a rotation like any other. Whatever the page asks of the
proxy it took (`fetch_ip`) changes nothing and is left out. History variables:
`round` (the latest proxies handed out), `meddled` and `switchedBy` (who touched
Clash), `sent`, `seen` and `overtaken`.

| Property | Fault |
|---|---|
| `TypeOK` (with the locks) | `RefreshFailsLocked`: no `finally` |
| `RoundRobin` | `RefreshRestarting`: the cursor starts anew with each list |
| `RotationFromCurrent` | `RotateUnlocked` |
| `NextCandidate` | `FromCurrent`: `index(current)` without `+ 1`; `AfterFirst`: a current node that is no candidate counts as the first |
| `RequestRecorded` | `BuildRequestFromPool`: the URL too is read from the pool |
| `RetryMatchesNode` | `ReadModeIgnored`: always the configured group |
| `CollectionEnds` | `RequestFailsLocked`: an exception leaves the controller locked |

### How `AlertRules` and `Backtest` correspond to the code

The rules are operators on a sequence of points. Averages are pairs of a sum and a
count and every comparison is multiplied out; the code's floats can differ from
that only where a decimal multiple is met exactly. `Backtest` is `simulate_events`:
`Slice` is one round of the outer loop, `Skip` and `Emit` one of the inner. A rule
name holds the timeframe and the category, so both keys of the replay reduce to
the category. `Admit` is what the live program would do with the same candidate:
the query of `has_recent_alert` and the unique key; `LiveLog` is the table had each
point been evaluated once, when it came. The replay and the live query differ exactly at the boundary,
`<` at `backtest.py:100` and `>=` at `repository.py:798`: `ReplayAgrees` says that
this is the only difference.

| Property | Fault |
|---|---|
| `TypeOK` (the three records of one log) | `EmitUnseen`: `seen_rules` is not updated |
| `ReplayAgrees` | `SkipSliding`: a suppressed candidate restarts the cooldown |
| `FlatIsQuiet` | `NormalizedNever`: partial points count everywhere |
| `JumpReported` | `ShortWindowOverlapping`: the baseline includes what it is compared with |
| `NoContradiction` | `MidWindowLastValue`: one value confirms a breakout |

### How `DatabaseInit` corresponds to the code

A file is an inode: `path` says which one has the configured name, `aside` which
have the name of a backup, and a connection keeps its file when it is renamed.

| Code | Model |
|---|---|
| `connect` | `Connect`: the file of that name, or a new and empty one |
| `path.exists()`, `PRAGMA integrity_check` | `CheckPasses`; `CheckFails` on a damaged file; `CheckErrs` on a sound one, for any other `DatabaseError` (locked, cannot be opened, disk I/O error), which has the same consequence |
| `path.replace(backup_path)` | `SetAside`, on whatever file has the name now; `AlreadyAside` is the `FileNotFoundError` |
| the second in the backup's name | `clock`: a backup falls into the second of the one before or a later one, and in the same one replaces it |
| `executescript(SCHEMA)` | `Open`, then `CreateTable` per table, `SchemaComplete` |
| `run_migrations` | `Inspect`, then `AddColumn` per column: outside a transaction of its own every `ALTER TABLE` is committed by itself |
| `lifespan` going on | `Initialized` sets `up`; jobs and requests run only then |
| any other exception | `Broken` (damage, a column there already) and `Raises` (all the rest, at any statement): the job ends, or the application does not start and is started again |
| `get_db`, the jobs' own connections | `OpenWriter`, `Write`, `Commit`, `CloseWriter` |

Not in the model: SQLite's journals (a renamed file keeps its journal's name, and
what a crash then leaves is SQLite's business), damage that goes away, and
statements interrupted in the middle. `Inspect` reads the columns of all tables at
once; the comment there says why that is enough.

| Property | Fault |
|---|---|
| `TypeOK` (no file has two names) | `SetAsideCopied` |
| `RowsKept` | `SetAsideRemoved` |
| `NoHalfMigrated` | `InitializedEarly`: requests are served before the columns are there |
| `Recovers` | `CheckFailsUncaught`: the exception of the check goes to the caller; `InspectNothing`: columns are added whether they are there or not |

A sound file may be set aside, for a `DatabaseError` of its check or because another job
has just replaced a damaged one (hazards at `database.py:155` and `159`). No property denies it:
the code does not promise otherwise. What it may not lead to is the loss of a committed row
(`RowsKept`) or an application that stays down or without a usable database (`Recovers`).

## Runs

| Run | Instance | Shows |
|---|---|---|
| `queue_safety` | 1 keyword, 2 windows, 1 source, one cron and one web thread, 2 worker threads, `MaxAttempts` 1, 2 jobs, 1 interruption | `TypeOK`, `WorkerOwnsJob`, `OneWorker`, `AttemptsBounded`, `TerminalIsFinal`, `StartsMonitored` |
| `queue_single` | 1 keyword, 1 window, 2 sources, one web thread, 2 worker threads, `MaxAttempts` 2, 2 jobs, 2 interruptions | `NoDuplicateJobs` for a single enqueuer; `ImplementsService` |
| `queue_liveness` | 2 keywords, 1 window, 1 source, one web thread, 1 worker thread, 2 jobs, 1 interruption | `RunningEnds`, `QueuedSettles` under `FairSpec` |
| `queue_duplicates` | 1 target, one cron and one web thread | `NoDuplicateJobs` is violated: see Findings |
| `queue_attempts` | 1 target, 1 job, 1 interruption | `AttemptsWithinMax` is violated: see Findings |
| `alerts_cooldown` | 1 keyword, 1 long window, 2 sources, 2 dates, 3 hours, P1 cooldown 1, P2 cooldown 0 (none) | `TypeOK`, `CooldownRespected`, `NotifiedOnce`, `NotifiedUnlessInterrupted` |
| `alerts_unsent` | the same | `UpwardAlertsSent` is violated: see Findings |
| `alerts_sources` | the same | `NotificationsCooled` is violated: see Findings |
| `provider_safety` | 1 collection, 1 page thread with 1 click, 1 step of Clash's user, 4 subscription answers, 2 profiles of Clash with 5 nodes | `TypeOK`, `RoundRobin`, `RotationFromCurrent`, `NextCandidate`, `RequestRecorded`, `RetryMatchesNode`; `CollectionEnds` under `FairSpec` |
| `provider_profiles` | 2 collections through Clash's port alone, nobody interferes | `StableProfiles` is violated: see Findings |
| `backtest_replay` | 3,750 series in each of the 3 kinds of timeframe | `TypeOK`, `ReplayAgrees`, `FlatIsQuiet`, `JumpReported`, `NoContradiction` |
| `database_init` | start-up and 2 jobs, 1 writer, 1 table with 2 added columns, 4 files, 2 seconds, 2 faults | `TypeOK`, `RowsKept`, `NoHalfMigrated`; `Recovers` under `FairSpec` |

*Bounds.* `MaxJobs` caps the rows ever inserted, `MaxInterruptions` the crashes
and worker deaths together; nothing else is bounded. Two jobs are enough for a
queue with an order, for a duplicate, and for a job created while another is
finished. One keyword suffices for safety because no statement relates jobs of
different keywords except the choice of the oldest; the liveness run has two, so
that one can be paused or deleted while the other waits. Two workers are one
more than the lock admits. One interruption is a crash or a dead worker at every
point of every behaviour; `queue_single` has two, so that recovery itself is
interrupted. The proofs below remove all these bounds for safety. The runs of the
queue check deadlock too: users can always act. In the alert runs three hours and a cooldown of
one allow an alert, one suppressed at the boundary and one after it; two
sources and two dates separate the unique key from the cooldown key. They do not
check deadlock, because with its last keyword deleted the system has nothing left to do.
Long windows are used because only they can report two alerts at once.

`provider_safety`: one collection has two attempts and a rotation in it, one click is
a second caller of the pool or a second rotation at every point of it, and one step
of the user suffices to invalidate what a rotation has read. The subscription's
answers are a list without usable proxies, one with a duplicate, one that raises and one of URLs and
nodes, of different lengths, so a refresh shrinks and grows the list. Clash's groups
have skipped nodes, nodes without an allowed keyword, and none that is allowed. The
proofs remove these bounds for all safety properties. The instance stops when it is used up, hence no check for deadlock;
that nobody waits for ever is `CollectionEnds`.

`backtest_replay`: series are flat up to lengths of 8, 10, 15, 24 and 25, at 0, 10 or 60,
and then have three points of any of five values, the last one perhaps partial:
they end just below and above the window sizes 10, 12, 17 and 27, and every one of the
ten categories is reported by some of them. The cooldowns of 2 and 30 hours against points
an hour or a day apart give a suppressed candidate, one at the boundary and one
after it. The proofs hold for every set of series, whatever their lengths and values.

`database_init`: two faults are two crashes, two damages, a sound file set aside twice,
an exception while a damaged file is replaced, and so on; two jobs and start-up are the most threads that can matter at once
(start-up excludes the jobs). Four files are one in use, two set aside and one
that only a connection still has. Every initial file is tried: none, an empty one,
an older or an interrupted version with or without rows, a damaged one. `MaxClock`
confines backups to two seconds, so that collisions happen; the proofs remove it.

Symmetry is used in the safety runs only, over workers, web threads, keywords and
(in `MCAlerts`) sources, none of which is distinguished or ordered by the
specifications.

*Fairness* (`FairSpec`). Weak fairness of
- every worker thread's steps: the operating system runs the thread, and a
  request of pytrends has a timeout, so `Fetch` returns or raises;
- `Tick`: the one-minute interval job of the scheduler (so the liveness
  properties speak of a deployment with the scheduler enabled);
- `Boot` and `BootPrune`: `restart: unless-stopped` in `src/docker-compose.yml`;
- the clock, for each job.

Nothing is assumed of users, of the enqueuing threads or of the cron jobs, and
nothing makes a fetch succeed. A job requeued by `Retry` therefore waits,
is due, and is tried until `MaxAttempts`. Deaths are bounded by
`MaxInterruptions`: a worker that dies every time would serve nobody.

`Provider!FairSpec`: the worker and each page thread go on, because every HTTP request
(`fetch_subscription_text`, the controller's, those of pytrends and `fetch_ip`) has a
timeout. No request need succeed, and a thread waiting for a lock is not helped
otherwise. `DatabaseInit!FairSpec`: `Start` of `Boot` is docker's restart policy, `Start` of
a job the scheduler; a thread within `initialize_database` goes on; and requests end,
by a commit or without one. Damage, crashes and exceptions on sound files are bounded by `MaxFaults`: a file system
that fails at every start is not recovered from.

## Findings

All are differences between the code and its documentation.

- *Duplicate jobs* (`queue_duplicates`). `src/docs/runtime_flow_zh.md:75` says that
  no job is created while one is queued or running for the same keyword,
  window and region. `create_collection_job` checks with a SELECT and inserts in a
  transaction that begins after it; two threads can both see nothing. With
  one enqueuer (`queue_single`, theorem `NoDuplicates`) the sentence is true.
- *Attempts beyond the maximum* (`queue_attempts`).
  `src/docs/runtime_flow_zh.md:316` calls `GOOGLETRENDS_MAX_ATTEMPTS` the most times
  a job is tried. A job whose worker died in its last attempt is requeued by
  `requeue_stale_running_jobs` and claimed again. What holds is `AttemptsBounded`:
  one more attempt for each interruption, and no more.
- *Lost notifications* (`alerts_unsent`). `src/README.md:140` says that upward and
  breakout alerts are sent to Feishu. Alerts are committed one by one during the
  evaluation and sent after the job is a success, from a list in memory. An
  exception or a crash in between loses the list, and the next attempt finds the
  alerts in their cooldown or already in the table. What holds is `NotifiedUnlessInterrupted`.
- *The cooldown key* (`alerts_sources`). `src/README.md:140` and
  `src/docs/runtime_flow_zh.md:232` name keyword, severity, category and timeframe. The
  query also compares the source, so a keyword with two sources announces
  the same category twice within the cooldown (on different dates: the unique key
  of the table, without the source, stops the second alert of one date).
- *Request profiles* (`provider_profiles`). `src/README.md:60` says that each proxy or
  Clash node is bound to a stable request profile. The profile is bound to a key, and
  the key is the node only in the retry after a rotation; the first attempt of the
  next collection leaves by the same node under the key of Clash's port. So
  Google meets one node with two profiles, without anybody interfering.

## Proofs

For all values of the constants that satisfy the named assumptions
(`WindowsAssumption`, `ThreadsAssumption`, `NumbersAssumption`,
`NullAssumption`), TLAPS checks that `Spec` implies:

| Theorem | States |
|---|---|
| `TypeCorrect` | `[]TypeOK` |
| `OneWorkerAtATime` | `[]OneWorker` |
| `WorkerOwnsItsJob` | `[]WorkerOwnsJob` |
| `AttemptsAreBounded` | `[]AttemptsBounded` |
| `TerminalStaysFinal` | `TerminalIsFinal` |
| `StartsAreMonitored` | `StartsMonitored` |
| `NoDuplicates` | `[]NoDuplicateJobs`, assuming `SingleEnqueuer` |
| `QueueImplementsService` | `ImplementsService` |

and, from `ReportsAssumption` and `BoundsAssumption`, that `Alerts!Spec` implies

| Theorem | States |
|---|---|
| `AlertsTypeCorrect` | `[]TypeOK` |
| `CooldownIsRespected` | `[]CooldownRespected` |
| `NotifiedAtMostOnce` | `[]NotifiedOnce` |
| `NotifiedUnlessInterruptedHolds` | `[]NotifiedUnlessInterrupted` |

*The argument for the queue.* No single UPDATE of the code protects a job; the inductive
invariant `IInv` says what does.

1. `LockGuards` and `OffWhenDown`: a live worker implies that the lock is held
   and that the process is up. A worker starts only with the lock free, so `OneWorker`
   is inductive with these two, and start-up recovery meets no worker.
2. `WorkerOwnsJob`: stale jobs are requeued by `Boot`, when no worker lives, and by
   `Recover`, when the only worker holds nothing yet. Every other statement on
   running rows is the owner's own.
3. `ChosenJob`: between the two statements of a claim, a settings change deletes
   the queued jobs it makes pointless; the job chosen is gone, still
   monitored, or an orphan. Hence the UPDATE, though it checks the status
   only, starts a monitored job, and the row is queued whenever it exists.
4. `AttemptsLeft`: an active job that nobody holds has used fewer than
   `MaxAttempts + interruptions` attempts. The claim uses one of them; `Retry`
   hands it back only below `MaxAttempts`; a death, which leaves the job unheld,
   raises the bound by one.
5. `NoDuplicateJobs` needs `NothingActive` between the check and the insert, which
   only another enqueuer can falsify.
6. The refinement follows from `IInv`: whoever finishes a job is its one server at
   the row's attempts, so `Retry` and `GiveUp` decide as the service does, and
   whatever requeues stale jobs does so while nothing is served.

*The argument for the alerts.* `StillDue`: from the cooldown query to the INSERT
every alert with the candidate's key stays older than the cooldown, because
the worker is the only one to insert, deletions only remove and the clock only
adds. `Backed` and `NotYetSent`: whatever was sent or waits to be sent is in the table
while its keyword is, so a row that is really new has a rule and a date that
were never announced; once the keyword is gone, nothing is inserted for it.

`Accounted`: an alert to be announced has been sent or is still in the job's hands, and
the job holds alerts of its own series only; so when the foreign key ends a job
because its keyword is gone, whatever the job had in hand is gone from the table too.

From `ProviderAssumption`, `PoolAssumption` and `ClashAssumption`, for any number of page
threads, clicks, collections and user steps, `Provider!Spec` implies

| Theorem | States |
|---|---|
| `PartsImplemented` | `Pool!PoolSpec /\ Clash!ClashSpec`: the composition adds no behaviour to its parts |
| `RoundRobinHolds` | `[]RoundRobin` |
| `RotationFromCurrentHolds` | `[]RotationFromCurrent` |
| `RequestRecordedHolds` | `[]RequestRecorded` |
| `RetryMatchesNodeHolds` | `[]RetryMatchesNode` |
| `TypeOKHolds` | `[]TypeOK` |
| `NextCandidateHolds` | `[]NextCandidate` |

*The argument for the provider.* Because of `PartsImplemented` the invariants of the parts
are proved of the parts alone. `PoolInv` places every entry of a round in the list
(`RoundPlaced`): the k-th last is the one k places before the cursor. A refresh with
the same list reduces the cursor modulo its length, which moves nothing; so
distinct entries of a round are at distinct places, and lists from a subscription
have distinct URLs. This needs a few lemmas on `%`. `ClashInv`: a rotation that
goes on holds the lock, its group is the one of Clash's mode and its `current` that
group's node, unless the user has touched Clash since it began; other threads
cannot, for want of the lock. `WorkerInv`: between its two reads of the pool the worker
has the pool's last proxy or has been overtaken by a page, and from then on what is
recorded is what the request is built from, except the name. `RetryInv`: if nobody else
has switched since, the node the worker retries with is the one of the effective
group; `WorkerInv` adds that the retry has that node's key, and a request through Clash's port
comes out at the effective group's node. Nothing is said of a retry for which the
pool has handed out another proxy: it has the node's profile and does not go through Clash.
For the types, `Served` (without a subscription the list never is empty and nobody
holds the pool's lock) says that the pool always returns a proxy, `ClashTyped` that a
rotation that tests or selects has a candidate left, and `Threads` which call a thread is in
that holds a lock.

`NextCandidate` is about an order that exists in no variable any more when a node is
selected. `Progress` keeps it: while the user keeps away, the order made of the group's
members and its node is still the same, what is left to test is the end of it, and all
before has failed. Two facts about lists do the rest. The candidates
stand at increasing places among the members, which are the places of all eligible ones
(`KeptPlaced`); and a place met on the way round from `p` to `q` is between the two if `q` is
later, and after `p` or before `q` if it is not (`RoundFrom`). So whichever of the two parts of the order
the selected node is in, an eligible member between is in the order before it, and has failed (`MetBefore`). If the
group's node is no candidate the order is the candidates as they stand, and `FirstBefore` says the same.

`PoolAssumption` says of the subscription's lists that they have no URL twice. `ParsedIsList`
(of `Subscription_proofs`) shows that of every document of which no token raises, and more: the
list has the supported URLs of the document, all of them and no others, and one that is among the
tokens goes by the name `proxy-i` even if a node has the same URL. Of a document with a token
that raises it shows that nothing is left. `IsJoined` is the invariant of the loop: each URL
once, with the first endpoint that brought it.

From `DatabaseAssumption`, for any number of jobs, writers, tables, columns, files,
seconds and faults, `DatabaseInit!Spec` implies

| Theorem | States |
|---|---|
| `TypeCorrect` | `[]TypeOK` |
| `RowsKeptHolds` | `[]RowsKept` |
| `NoHalfMigratedHolds` | `[]NoHalfMigrated` |

*The argument for the database.* `RowsInv`: as long as no backup replaced another, every file
somebody writes to has a name, and renaming keeps it; so a row committed after
the rename is in the backup. `MigrationInv`: only start-up ever finds a column
missing. While it is at work no other thread can take the file's name away; once
it is through, the file of that name is complete or is empty and has no tables yet,
and tables are created with all their columns. Hence no two threads ever add the
same column.

From `BacktestAssumption` (`SeriesSet` is any set of sequences of points, values from 0 to
100; the cooldowns are any numbers), `Backtest!Spec` implies

| Theorem | States |
|---|---|
| `TypeOKHolds` | `[]TypeOK` |
| `ReplayAgreesHolds` | `[]ReplayAgrees` |
| `FlatIsQuietHolds` | `[]FlatIsQuiet` |
| `JumpReportedHolds` | `[]JumpReported` |
| `NoContradictionHolds` | `[]NoContradiction` |

*The argument for recursive functions.* The rules sum windows and drop points, the live log
is built candidate by candidate, and the candidates of Clash are a list comprehension.
`Kept`, `Total`, `Joined`, `Candidates` and `LiveLog` are recursive functions for that reason: the
provers know nothing of folds and of `SelectSeq`. The library's induction theorems take an
operator, which the provers cannot instantiate; `WFMin` (a non-empty set has a minimal
element) takes a set. `Recursion` derives from it that a set with 0 and all
successors has every number (`Induction`), that a step function has a run and that a recursive
definition is one (`RunExists`, `RunTyped`), that runs which agree on their steps are equal
(`RunsAgree`), and what a list comprehension keeps (`KeptPlaced`).

*The argument for the rules.* `AlertRules_proofs` has no behaviour to speak of; it says what a
report is for a series of any length, first that it is a sequence of the categories of its
timeframe (`ReportTyped`), which is what `Alerts` assumes of `Reports`. An average is a sum and a count, so all
comparisons are between products; the lemmas on products (`ProductPositive`, `Associates`,
`Monotone`) are all the arithmetic that is not linear. The sum of a window is at most 100 times its count, and
the count times the value if the window is flat. From these it follows
that a flat window raises nothing, that a rise and a fall exclude each other, and that a lasting
jump is a `sudden_spike` at one of its first three points, on either side of the 27 points
at which the rule changes its windows (`JumpReportedAtOnce`).

*The argument for the replay.* `ReplayInv`: nothing is considered but what the rules report for
the prefix of its date, and what they report for a prefix that is done with has an event of
its category, of that date or earlier. With the rules' lemmas this gives all but `ReplayAgrees`.
For that `AgreeInv` adds that `considered` followed by `todo` is the
sequence of candidates, with dates that never decrease, and that the log is the live log of
what has been considered. One more candidate is admitted by both or by neither: the replay
asks for the last event of the category and the live query for any, and the last is the
nearest; they differ only at equality, which the property excludes. `Candidates` is defined by
the length of the prefix and `considered` grows by one: that the two recursions give the
same sequence is `RunsAgree`.

*Only model-checked*: liveness (`RunningEnds`, `QueuedSettles`, `CollectionEnds`, `Recovers`), which
is beyond this prover, and the violations. Every safety property of the passing runs is a theorem.

## Not modelled

- *Settings, timestamps, pages and charts*: configuration read once, and rendering
  without state.
- *Container set-up and `clash_verge_controller_bridge.py`*: configuration, and a relay of
  bytes.
- *Finding the Clash controller* (`discover_clash_controller_urls`, `build_clash_controller`,
  reading Clash's configuration): done once at start-up, with the answer in
  `app.state`. If there is none, the page builds a controller for each click; its lock
  excludes nobody, but the worker then has no controller to race with.
- *A provider without a proxy pool*: `_build_trend_req` then uses "direct" throughout and
  nothing is shared.
- *Text*: splitting a subscription, base64 and YAML, and the comma-separated lists of
  windows and sources of a keyword, which `JobQueue` treats as sets.
- *Values*: the points pytrends returns and how they become rows; messages and
  percentages of alerts.
- *Without a caller*: `rotate_profile_for`, `run_worker_once`, `collect_keyword` and
  `collect_all_enabled` of `collector.py` with `collection_runs`.
- *The delay before a retry* (`next_retry_delay_seconds`): a formula without state; `JobQueue`
  takes every delay as "some time".
- *One composition of everything.* `Provider` stands in `JobQueue` for a `Fetch` that returns
  or raises, which is what `CollectionEnds` grants; `Alerts` for the steps between `Store` and
  `Succeed`, under `OneWorker`; `AlertRules` in `Alerts` for one of `Reports`; `DatabaseInit` for tables
  that exist. The product of their states is beyond TLC, and each of these
  interfaces is a property shown of the other module. One interaction is left
  out by this: a database set aside under the queue leaves the queue with
  empty tables.
