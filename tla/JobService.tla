----------------------------- MODULE JobService -----------------------------
(***************************************************************************)
(* What the collection queue promises, with neither threads nor database:  *)
(* tasks are issued, served one at a time, tried again a bounded number of *)
(* times, and a finished task is never touched again.  A server may vanish *)
(* at any moment; the task it served can then be put back, and no task can *)
(* be put back under a server that still serves it.                        *)
(***************************************************************************)
EXTENDS Naturals

CONSTANTS
    Tasks,          \* task numbers, issued in order
    MaxAttempts

VARIABLES
    issued,     \* the last number issued
    status,     \* of every task; "absent" before it is issued or once withdrawn
    attempts,   \* how often each task was taken
    inService   \* the tasks being served

svars == <<issued, status, attempts, inService>>

Init ==
    /\ issued = 0
    /\ status = [t \in Tasks |-> "absent"]
    /\ attempts = [t \in Tasks |-> 0]
    /\ inService = {}

(* A task number is never issued twice. *)
Submit ==
    /\ issued + 1 \in Tasks
    /\ issued' = issued + 1
    /\ status' = [status EXCEPT ![issued + 1] = "queued"]
    /\ UNCHANGED <<attempts, inService>>

(* Only queued tasks can be withdrawn. *)
Withdraw(S) ==
    /\ \A t \in S : status[t] = "queued"
    /\ status' = [t \in Tasks |-> IF t \in S THEN "absent" ELSE status[t]]
    /\ attempts' = [t \in Tasks |-> IF t \in S THEN 0 ELSE attempts[t]]
    /\ UNCHANGED <<issued, inService>>

(* One task is served at a time. *)
Take(t) ==
    /\ inService = {}
    /\ status[t] = "queued"
    /\ inService' = {t}
    /\ status' = [status EXCEPT ![t] = "running"]
    /\ attempts' = [attempts EXCEPT ![t] = @ + 1]
    /\ UNCHANGED issued

Leave(t, outcome) ==
    /\ t \in inService
    /\ status[t] = "running"
    /\ inService' = {}
    /\ status' = [status EXCEPT ![t] = outcome]
    /\ UNCHANGED <<issued, attempts>>

Succeed(t) == Leave(t, "success")
Retry(t)   == attempts[t] < MaxAttempts /\ Leave(t, "queued")
GiveUp(t)  == attempts[t] >= MaxAttempts /\ Leave(t, "failed")

(* The server vanishes and leaves its task behind as it was. *)
Vanish ==
    /\ inService' = {}
    /\ UNCHANGED <<issued, status, attempts>>

(* Tasks left behind are put back; their attempts are not forgotten. *)
PutBack(S) ==
    /\ S \cap inService = {}
    /\ \A t \in S : status[t] = "running"
    /\ status' = [t \in Tasks |-> IF t \in S THEN "queued" ELSE status[t]]
    /\ UNCHANGED <<issued, attempts, inService>>

Next ==
    \/ Submit
    \/ \E S \in SUBSET Tasks : Withdraw(S) \/ PutBack(S)
    \/ \E t \in Tasks : Take(t) \/ Succeed(t) \/ Retry(t) \/ GiveUp(t)
    \/ Vanish

Spec == Init /\ [][Next]_svars
=============================================================================
