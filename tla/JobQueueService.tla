--------------------------- MODULE JobQueueService --------------------------
(***************************************************************************)
(* The queue implements JobService: a task is served while some worker     *)
(* holds its job, and a row that does not exist is an absent task.         *)
(***************************************************************************)
EXTENDS JobQueue

TaskStatus ==
    [j \in JobIds |-> IF j \in DOMAIN jobs THEN jobs[j].status ELSE "absent"]

TaskAttempts ==
    [j \in JobIds |-> IF j \in DOMAIN jobs THEN jobs[j].attempts ELSE 0]

Serving == {worker[w].job : w \in {v \in Workers : worker[v].pc \in Holding}}

Service == INSTANCE JobService WITH
    Tasks     <- JobIds,
    issued    <- lastJob,
    status    <- TaskStatus,
    attempts  <- TaskAttempts,
    inService <- Serving

(* Every behaviour of the queue is one of the service: outcomes are written *)
(* only by the one worker that serves the job, retries stop at max_attempts *)
(* of the row, stale jobs come back only once nobody serves them, and       *)
(* settings changes remove queued jobs only.                                *)
ImplementsService == Service!Spec
=============================================================================
