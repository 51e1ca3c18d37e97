------------------------------- MODULE Alerts -------------------------------
(***************************************************************************)
(* From collected points to a Feishu message: what process_collection_job  *)
(* does between storing the points of a job and returning.  The rules      *)
(* report some alerts; each one is checked against the cooldown, inserted  *)
(* with INSERT OR IGNORE, and, once the job is a success, the new ones are *)
(* handed to the notifier.  Each of these is a transaction or a request of *)
(* its own; an exception or a crash may come between any two, and the next *)
(* attempt then starts afresh.                                             *)
(*                                                                         *)
(* There is one worker (JobQueue's OneWorker).  Which alerts the rules     *)
(* report depends on the points; here it is any of a set of reports.       *)
(*                                                                         *)
(* As in JobQueue, an operator marked "Fault" distorts the one after it.   *)
(***************************************************************************)
EXTENDS Naturals, Sequences

CONSTANTS
    Keywords,
    Timeframes,
    Gprops,
    Reports,    \* the reports of the rules on each timeframe: category sequences
    P1Hours,    \* p1_alert_cooldown_hours
    P2Hours,    \* p2_alert_cooldown_hours
    MaxDate,    \* BOUND: the last date of a point
    MaxTime     \* BOUND: hours that pass

Categories == {"sudden_spike", "warming_up", "sudden_drop", "cooling_down",
               "window_breakout", "steady_rise", "steady_decline",
               "historical_hot", "long_rise", "long_decline"}

ASSUME ReportsAssumption == Reports \in [Timeframes -> SUBSET Seq(Categories)]

ASSUME BoundsAssumption ==
    P1Hours \in Nat /\ P2Hours \in Nat /\ MaxDate \in Nat /\ MaxTime \in Nat

VARIABLES
    live,       \* the ids in the keywords table
    latest,     \* the date of the last point stored of each series, 0 for none
    alerts,     \* the alerts table
    job,        \* the local state of process_collection_job
    sent,       \* the calls of notifier.send_text, in order (history)
    interrupted,\* did an exception or a crash end an evaluation? (history)
    now         \* the clock, in hours

vars == <<live, latest, alerts, job, sent, interrupted, now>>

-----------------------------------------------------------------------------

Series == Keywords \X Timeframes \X Gprops

Severity(category) ==
    IF category \in {"sudden_spike", "sudden_drop", "window_breakout", "historical_hot"}
    THEN "P1" ELSE "P2"

CooldownHours(category) == IF Severity(category) = "P1" THEN P1Hours ELSE P2Hours

ShouldNotify(category) ==
    category \notin {"sudden_drop", "cooling_down", "steady_decline", "long_decline"}

Alert == [series : Series, category : Categories, date : Nat, created : Nat]

Job == [pc      : {"idle", "check", "insert", "notify"},
        series  : Series,
        todo    : Seq(Categories),   \* candidates still to be looked at
        date    : Nat,               \* their point_date
        created : Seq(Alert)]        \* created_alerts

(* Types, and the foreign key: alerts of existing keywords only. *)
TypeOK ==
    /\ live \subseteq Keywords
    /\ latest \in [Series -> 0 .. MaxDate]
    /\ alerts \subseteq Alert
    /\ \A a \in alerts : a.series[1] \in live
    /\ job \in Job
    /\ sent \in Seq(Alert)
    /\ interrupted \in BOOLEAN
    /\ now \in 0 .. MaxTime

(* UNIQUE (keyword_id, rule, point_date), the rule naming the timeframe and *)
(* the category: the source is not part of it.                              *)
SameRule(a, b) ==
    /\ a.series[1] = b.series[1]
    /\ a.series[2] = b.series[2]
    /\ a.category = b.category
    /\ a.date = b.date

(* What has_recent_alert compares; the severity follows from the category. *)
SameKey(a, b) == a.series = b.series /\ a.category = b.category

(* The alert being dealt with, as it would be inserted now. *)
Candidate == [series |-> job.series, category |-> Head(job.todo),
              date |-> job.date, created |-> now]

(* Fault: created_at > cutoff leaves the boundary out. *)
InCooldownExclusive(c) ==
    /\ CooldownHours(c.category) > 0
    /\ \E a \in alerts : SameKey(a, c) /\ a.created + CooldownHours(c.category) > now

(* is_alert_in_cooldown: created_at >= now - cooldown. *)
InCooldown(c) ==
    /\ CooldownHours(c.category) > 0
    /\ \E a \in alerts : SameKey(a, c) /\ a.created + CooldownHours(c.category) >= now

-----------------------------------------------------------------------------
(* The worker. *)

Idle == [job EXCEPT !.pc = "idle", !.todo = << >>, !.date = 0, !.created = << >>]

(* The points of a job are stored and its series is evaluated. *)
Evaluate(s) ==
    /\ job.pc = "idle"
    /\ s[1] \in live
    /\ \E date \in 1 .. MaxDate, report \in Reports[s[2]] :
         /\ date >= latest[s]
         /\ latest' = [latest EXCEPT ![s] = date]
         /\ job' = [pc |-> "check", series |-> s, todo |-> report,
                    date |-> date, created |-> << >>]
    /\ UNCHANGED <<live, alerts, sent, interrupted, now>>

Cooled ==
    /\ job.pc = "check"
    /\ job.todo # << >>
    /\ InCooldown(Candidate)
    /\ job' = [job EXCEPT !.todo = Tail(@)]
    /\ UNCHANGED <<live, latest, alerts, sent, interrupted, now>>

Due ==
    /\ job.pc = "check"
    /\ job.todo # << >>
    /\ ~InCooldown(Candidate)
    /\ job' = [job EXCEPT !.pc = "insert"]
    /\ UNCHANGED <<live, latest, alerts, sent, interrupted, now>>

(* Fault: a row that was ignored counts as created. *)
InsertAlways ==
    /\ job.pc = "insert"
    /\ job.series[1] \in live
    /\ alerts' = IF \E a \in alerts : SameRule(a, Candidate)
                 THEN alerts ELSE alerts \cup {Candidate}
    /\ job' = [job EXCEPT !.pc = "check", !.todo = Tail(@),
                          !.created = Append(@, Candidate)]
    /\ UNCHANGED <<live, latest, sent, interrupted, now>>

(* insert_alert reports by the row count whether there is a new row. *)
Insert ==
    /\ job.pc = "insert"
    /\ job.series[1] \in live
    /\ IF \E a \in alerts : SameRule(a, Candidate)
       THEN /\ job' = [job EXCEPT !.pc = "check", !.todo = Tail(@)]
            /\ UNCHANGED alerts
       ELSE /\ job' = [job EXCEPT !.pc = "check", !.todo = Tail(@),
                                  !.created = Append(@, Candidate)]
            /\ alerts' = alerts \cup {Candidate}
    /\ UNCHANGED <<live, latest, sent, interrupted, now>>

(* Fault: only the last alert created is considered. *)
FinishWithLast ==
    /\ job.pc = "check"
    /\ job.todo = << >>
    /\ job' = [job EXCEPT !.pc = "notify",
                          !.created = IF @ = << >> THEN @ ELSE <<@[Len(@)]>>]
    /\ UNCHANGED <<live, latest, alerts, sent, interrupted, now>>

(* finish_collection_job_success. *)
Finish ==
    /\ job.pc = "check"
    /\ job.todo = << >>
    /\ job' = [job EXCEPT !.pc = "notify"]
    /\ UNCHANGED <<live, latest, alerts, sent, interrupted, now>>

(* The webhook may refuse the message or time out: the call returns anyway. *)
Notify ==
    /\ job.pc = "notify"
    /\ job.created # << >>
    /\ sent' = IF ShouldNotify(Head(job.created).category)
               THEN Append(sent, Head(job.created)) ELSE sent
    /\ job' = [job EXCEPT !.created = Tail(@)]
    /\ UNCHANGED <<live, latest, alerts, interrupted, now>>

Return ==
    /\ job.pc = "notify"
    /\ job.created = << >>
    /\ job' = Idle
    /\ UNCHANGED <<live, latest, alerts, sent, interrupted, now>>

(* The foreign key refuses an alert of a keyword deleted meanwhile. *)
InsertRefused ==
    /\ job.pc = "insert"
    /\ job.series[1] \notin live
    /\ job' = Idle
    /\ UNCHANGED <<live, latest, alerts, sent, interrupted, now>>

(* A database exception before the job is a success, or a crash anywhere:   *)
(* whatever was created is forgotten, whatever was committed stays.         *)
Interrupt ==
    /\ job.pc # "idle"
    /\ job' = Idle
    /\ interrupted' = TRUE
    /\ UNCHANGED <<live, latest, alerts, sent, now>>

-----------------------------------------------------------------------------
(* Everybody else. *)

(* Fault: alerts have no ON DELETE CASCADE. *)
DeleteKeywordOnly(k) ==
    /\ k \in live
    /\ live' = live \ {k}
    /\ latest' = [s \in Series |-> IF s[1] = k THEN 0 ELSE latest[s]]
    /\ UNCHANGED <<alerts, job, sent, interrupted, now>>

(* ON DELETE CASCADE takes the points and the alerts along. *)
DeleteKeyword(k) ==
    /\ k \in live
    /\ live' = live \ {k}
    /\ latest' = [s \in Series |-> IF s[1] = k THEN 0 ELSE latest[s]]
    /\ alerts' = {a \in alerts : a.series[1] # k}
    /\ UNCHANGED <<job, sent, interrupted, now>>

Hour ==
    /\ now < MaxTime
    /\ now' = now + 1
    /\ UNCHANGED <<live, latest, alerts, job, sent, interrupted>>

Init ==
    /\ live = Keywords
    /\ latest = [s \in Series |-> 0]
    /\ alerts = {}
    /\ \E s \in Series : job = [pc |-> "idle", series |-> s, todo |-> << >>,
                              date |-> 0, created |-> << >>]
    /\ sent = << >>
    /\ interrupted = FALSE
    /\ now = 0

Next ==
    \/ \E s \in Series : Evaluate(s)
    \/ Cooled \/ Due \/ Insert \/ InsertRefused
    \/ Finish \/ Notify \/ Return
    \/ Interrupt
    \/ \E k \in Keywords : DeleteKeyword(k)
    \/ Hour

Spec == Init /\ [][Next]_vars

-----------------------------------------------------------------------------

(* No two alerts of one series, severity and category are created within    *)
(* the cooldown, boundary included, although the query and the INSERT are   *)
(* two transactions and failed jobs are evaluated again.                    *)
CooldownRespected ==
    \A a, b \in alerts :
        /\ SameKey(a, b) /\ a # b
        /\ a.created <= b.created
        /\ CooldownHours(a.category) > 0
        => b.created > a.created + CooldownHours(a.category)

(* No rule and point date is notified twice, however often a job is tried   *)
(* again, whatever the cooldowns are and however many sources report it.    *)
NotifiedOnce ==
    \A i, j \in DOMAIN sent : SameRule(sent[i], sent[j]) => i = j

(* Between jobs every stored alert of a kind that is announced has been     *)
(* handed to the notifier, as long as no evaluation was interrupted.        *)
NotifiedUnlessInterrupted ==
    job.pc = "idle" /\ ~interrupted =>
        \A a \in alerts : ShouldNotify(a.category) => \E i \in DOMAIN sent : sent[i] = a

(* README: "Upward and breakout alerts are sent to Feishu". *)
UpwardAlertsSent ==
    job.pc = "idle" =>
        \A a \in alerts : ShouldNotify(a.category) => \E i \in DOMAIN sent : sent[i] = a

(* README: "The same keyword, severity, category, and timeframe are cooled  *)
(* down before another notification is created".                            *)
NotificationsCooled ==
    \A i, j \in DOMAIN sent :
        /\ i < j
        /\ sent[i].series[1] = sent[j].series[1]
        /\ sent[i].series[2] = sent[j].series[2]
        /\ sent[i].category = sent[j].category
        /\ CooldownHours(sent[i].category) > 0
        => sent[j].created > sent[i].created + CooldownHours(sent[i].category)

-----------------------------------------------------------------------------
(* What makes the safety properties inductive. *)

(* The past, the date of an evaluation, and a candidate wherever one is needed. *)
Placed ==
    /\ \A a \in alerts : a.created <= now
    /\ job.pc = "insert" => job.todo # << >>

(* Between the query and the INSERT nobody inserts and the clock only helps. *)
StillDue ==
    job.pc = "insert" /\ CooldownHours(Head(job.todo)) > 0 =>
        \A a \in alerts :
            SameKey(a, Candidate) => a.created + CooldownHours(a.category) < now

(* What was sent, or is about to be, is in the table while its keyword is.  *)
Backed ==
    /\ \A i \in DOMAIN sent : sent[i].series[1] \in live => sent[i] \in alerts
    /\ \A i \in DOMAIN job.created :
          job.created[i].series[1] \in live => job.created[i] \in alerts

(* No alert waits twice, or waits after having been sent. *)
NotYetSent ==
    /\ \A i, j \in DOMAIN job.created :
          SameRule(job.created[i], job.created[j]) => i = j
    /\ \A i \in DOMAIN sent, j \in DOMAIN job.created :
          ~SameRule(sent[i], job.created[j])

IInv == /\ TypeOK /\ Placed
        /\ StillDue /\ CooldownRespected
        /\ Backed /\ NotYetSent /\ NotifiedOnce
=============================================================================
