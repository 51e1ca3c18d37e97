---------------------------- MODULE Alerts_proofs ---------------------------
(***************************************************************************)
(* The safety properties of Alerts, for all values of its constants.       *)
(***************************************************************************)
EXTENDS Alerts, TLAPS

(* The first rule of a non-empty todo list, and what is left after it. *)
LEMMA HeadTailFacts ==
  ASSUME NEW S, NEW s \in Seq(S), s # << >>
  PROVE  /\ Head(s) = s[1] /\ Head(s) \in S /\ 1 \in DOMAIN s
         /\ Tail(s) \in Seq(S)
         /\ \A i \in DOMAIN Tail(s) :
               i + 1 \in DOMAIN s /\ i + 1 # 1 /\ Tail(s)[i] = s[i + 1]
         /\ \A i, j \in DOMAIN Tail(s) : i + 1 = j + 1 => i = j
  OBVIOUS

(* An element of a lengthened list is an old one, in place, or the new one. *)
LEMMA AppendFacts ==
  ASSUME NEW S, NEW s \in Seq(S), NEW e \in S
  PROVE  /\ Append(s, e) \in Seq(S)
         /\ \A i \in DOMAIN Append(s, e) :
               \/ i \in DOMAIN s /\ Append(s, e)[i] = s[i]
               \/ i = Len(s) + 1 /\ Append(s, e)[i] = e
  OBVIOUS

(* Every evaluation ends, and starts, without an alert in hand. *)
LEMMA IdleTyped ==
  ASSUME TypeOK
  PROVE  Idle \in Job /\ Idle.pc = "idle" /\ Idle.created = << >>
<1>1. job \in Job
  BY DEF TypeOK
<1>2. << >> \in Seq(Categories) /\ << >> \in Seq(Alert)
  OBVIOUS
<1> QED BY <1>1, <1>2 DEF Idle, Job

(* While rules are left, the alert built for the first of them is an alert. *)
LEMMA CandidateTyped ==
  ASSUME TypeOK, job.todo # << >>
  PROVE  Candidate \in Alert
<1>1. job.todo \in Seq(Categories) /\ job.series \in Series /\ job.date \in Nat
  BY DEF TypeOK, Job
<1>2. Head(job.todo) \in Categories
  BY <1>1, HeadTailFacts
<1>3. now \in Nat
  BY BoundsAssumption DEF TypeOK
<1> QED BY <1>1, <1>2, <1>3 DEF Candidate, Alert

(* Every step of the alert job keeps the types. *)
LEMMA TypeStep ==
  ASSUME TypeOK, job.pc = "insert" => job.todo # << >>, [Next]_vars
  PROVE  TypeOK'
<1> USE BoundsAssumption
<1>1. ASSUME NEW s \in Series, Evaluate(s) PROVE TypeOK'
  <2>1. PICK date \in 1 .. MaxDate, report \in Reports[s[2]] :
          /\ latest' = [latest EXCEPT ![s] = date]
          /\ job' = [pc |-> "check", series |-> s, todo |-> report,
                     date |-> date, created |-> << >>]
    BY <1>1 DEF Evaluate
  <2>2. report \in Seq(Categories)
    BY ReportsAssumption DEF Series
  <2>3. job' \in Job
    BY <2>1, <2>2 DEF Job
  <2>4. latest' \in [Series -> 0 .. MaxDate]
    BY <2>1 DEF TypeOK
  <2> QED BY <1>1, <2>3, <2>4 DEF Evaluate, TypeOK
<1>2. ASSUME job.todo # << >> PROVE [job EXCEPT !.pc = "insert"] \in Job
                                    /\ [job EXCEPT !.todo = Tail(@)] \in Job
  <2>1. Tail(job.todo) \in Seq(Categories)
    BY <1>2, HeadTailFacts DEF TypeOK, Job
  <2> QED BY <2>1 DEF TypeOK, Job
<1>3. CASE Cooled
  BY <1>2, <1>3 DEF Cooled, TypeOK
<1>4. CASE Due
  BY <1>2, <1>4 DEF Due, TypeOK
<1>5. CASE Insert
  <2>1. Candidate \in Alert
    BY <1>5, CandidateTyped DEF Insert
  <2>2. Tail(job.todo) \in Seq(Categories)
    BY <1>5, HeadTailFacts DEF Insert, TypeOK, Job
  <2>3. Append(job.created, Candidate) \in Seq(Alert)
    BY <2>1, AppendFacts DEF TypeOK, Job
  <2>4. job' \in Job
    BY <1>5, <2>2, <2>3 DEF Insert, TypeOK, Job
  <2>5. Candidate.series[1] \in live
    BY <1>5 DEF Insert, Candidate
  <2>6. alerts' \subseteq Alert /\ \A a \in alerts' : a.series[1] \in live'
    BY <1>5, <2>1, <2>5 DEF Insert, TypeOK
  <2> QED BY <1>5, <2>4, <2>6 DEF Insert, TypeOK
<1>6. CASE InsertRefused
  BY <1>6, IdleTyped DEF InsertRefused, TypeOK
<1>7. CASE Finish
  BY <1>7 DEF Finish, TypeOK, Job
<1>8. CASE Notify
  <2>1. Head(job.created) \in Alert /\ Tail(job.created) \in Seq(Alert)
    BY <1>8, HeadTailFacts DEF Notify, TypeOK, Job
  <2>2. sent' \in Seq(Alert)
    BY <1>8, <2>1, AppendFacts DEF Notify, TypeOK
  <2>3. job' \in Job
    BY <1>8, <2>1 DEF Notify, TypeOK, Job
  <2> QED BY <1>8, <2>2, <2>3 DEF Notify, TypeOK
<1>9. CASE Return
  BY <1>9, IdleTyped DEF Return, TypeOK
<1>10. CASE Interrupt
  BY <1>10, IdleTyped DEF Interrupt, TypeOK
<1>11. ASSUME NEW k \in Keywords, DeleteKeyword(k) PROVE TypeOK'
  <2>1. latest' \in [Series -> 0 .. MaxDate]
    BY <1>11 DEF DeleteKeyword, TypeOK
  <2> QED BY <1>11, <2>1 DEF DeleteKeyword, TypeOK
<1>12. CASE Hour
  BY <1>12 DEF Hour, TypeOK
<1>13. CASE UNCHANGED vars
  BY <1>13 DEF vars, TypeOK
<1> QED BY <1>1, <1>3, <1>4, <1>5, <1>6, <1>7, <1>8, <1>9, <1>10, <1>11, <1>12,
          <1>13 DEF Next

(* A rule's cooldown is a number of hours. *)
LEMMA HoursTyped == \A c : CooldownHours(c) \in Nat
  BY BoundsAssumption DEF CooldownHours

(* Times are numbers. *)
LEMMA TimesTyped ==
  ASSUME TypeOK
  PROVE  now \in Nat /\ \A a \in alerts : a.created \in Nat
  BY BoundsAssumption DEF TypeOK, Alert

-----------------------------------------------------------------------------
(* The cooldown. *)

(* Every step keeps alerts in the past and a candidate where one is needed. *)
LEMMA PlacedStep ==
  ASSUME TypeOK, Placed, [Next]_vars
  PROVE  Placed'
<1> USE TimesTyped DEF Placed
<1>1. ASSUME NEW s \in Series, Evaluate(s) PROVE Placed'
  BY <1>1 DEF Evaluate
<1>2. CASE Cooled
  BY <1>2 DEF Cooled, TypeOK, Job
<1>3. CASE Due
  BY <1>3 DEF Due, TypeOK, Job
<1>4. CASE Insert
  <2>1. Candidate.created = now
    BY DEF Candidate
  <2>2. alerts' \subseteq alerts \cup {Candidate} /\ now' = now /\ job'.pc = "check"
    BY <1>4 DEF Insert, TypeOK, Job
  <2> QED BY <2>1, <2>2
<1>5. CASE InsertRefused \/ Return \/ Interrupt
  BY <1>5, IdleTyped DEF InsertRefused, Return, Interrupt
<1>6. CASE Finish \/ Notify
  BY <1>6 DEF Finish, Notify, TypeOK, Job
<1>7. ASSUME NEW k \in Keywords, DeleteKeyword(k) PROVE Placed'
  BY <1>7 DEF DeleteKeyword
<1>8. CASE Hour
  BY <1>8 DEF Hour
<1>9. CASE UNCHANGED vars
  BY <1>9 DEF vars
<1> QED BY <1>1, <1>2, <1>3, <1>4, <1>5, <1>6, <1>7, <1>8, <1>9 DEF Next

(* From its query to its insertion a candidate stays out of every cooldown. *)
LEMMA StillDueStep ==
  ASSUME TypeOK, StillDue, [Next]_vars
  PROVE  StillDue'
<1> USE TimesTyped, HoursTyped DEF StillDue, SameKey, Candidate
<1>1. ASSUME NEW s \in Series, Evaluate(s) PROVE StillDue'
  BY <1>1 DEF Evaluate
<1>2. CASE Cooled \/ Insert \/ Finish \/ Notify
  BY <1>2 DEF Cooled, Insert, Finish, Notify, TypeOK, Job
<1>3. CASE Due
  <2>1. job'.todo = job.todo /\ job'.series = job.series /\ job'.pc = "insert"
    BY <1>3 DEF Due, TypeOK, Job
  <2>2. alerts' = alerts /\ now' = now
    BY <1>3 DEF Due
  <2>3. ~InCooldown(Candidate)
    BY <1>3 DEF Due
  <2> QED BY <2>1, <2>2, <2>3 DEF InCooldown
<1>4. CASE InsertRefused \/ Return \/ Interrupt
  BY <1>4, IdleTyped DEF InsertRefused, Return, Interrupt
<1>5. ASSUME NEW k \in Keywords, DeleteKeyword(k) PROVE StillDue'
  BY <1>5 DEF DeleteKeyword
<1>6. CASE Hour
  <2>1. job' = job /\ alerts' = alerts /\ now' = now + 1
    BY <1>6 DEF Hour
  <2> QED BY <2>1
<1>7. CASE UNCHANGED vars
  BY <1>7 DEF vars
<1> QED BY <1>1, <1>2, <1>3, <1>4, <1>5, <1>6, <1>7 DEF Next

(* A step inserts no alert within the cooldown of an earlier one. *)
LEMMA CooldownStep ==
  ASSUME TypeOK, Placed, StillDue, CooldownRespected, [Next]_vars
  PROVE  CooldownRespected'
<1> USE TimesTyped, HoursTyped DEF CooldownRespected
<1>1. CASE Insert
  <2>1. job.pc = "insert" /\ alerts' \subseteq alerts \cup {Candidate}
    BY <1>1 DEF Insert
  <2>2. Candidate.created = now /\ Candidate.category = Head(job.todo)
    BY DEF Candidate
  <2>3. ASSUME NEW a \in alerts, SameKey(a, Candidate),
               CooldownHours(a.category) > 0
        PROVE  a.created + CooldownHours(a.category) < now
    BY <2>1, <2>2, <2>3 DEF StillDue, SameKey
  <2>4. SUFFICES ASSUME NEW a \in alerts', NEW b \in alerts',
                        SameKey(a, b), a # b, a.created <= b.created,
                        CooldownHours(a.category) > 0
                 PROVE  b.created > a.created + CooldownHours(a.category)
    BY DEF SameKey
  <2>5. CASE a \in alerts /\ b \in alerts
    BY <2>4, <2>5
  <2>6. CASE a \in alerts /\ b = Candidate
    BY <2>2, <2>3, <2>4, <2>6
  <2>7. CASE a = Candidate /\ b \in alerts
    <3>1. SameKey(b, Candidate) /\ CooldownHours(b.category) > 0
      BY <2>4, <2>7 DEF SameKey
    <3>2. b.created + CooldownHours(b.category) < now
      BY <2>3, <2>7, <3>1
    <3> QED BY <2>2, <2>4, <2>7, <3>2
  <2> QED BY <2>1, <2>4, <2>5, <2>6, <2>7
<1>2. ASSUME NEW k \in Keywords, DeleteKeyword(k) PROVE CooldownRespected'
  BY <1>2 DEF DeleteKeyword, SameKey
<1>3. CASE UNCHANGED alerts
  BY <1>3 DEF SameKey
<1>4. ASSUME NEW s \in Series, Evaluate(s) PROVE UNCHANGED alerts
  BY <1>4 DEF Evaluate
<1>5. CASE Cooled \/ Due \/ InsertRefused \/ Finish \/ Notify \/ Return \/ Interrupt \/ Hour
  BY <1>3, <1>5 DEF Cooled, Due, InsertRefused, Finish, Notify, Return, Interrupt, Hour
<1> QED BY <1>1, <1>2, <1>3, <1>4, <1>5 DEF Next, vars

-----------------------------------------------------------------------------
(* The notifications. *)

(* What was or is about to be reported stays stored while its keyword is live. *)
LEMMA BackedStep ==
  ASSUME TypeOK, Placed, Backed, [Next]_vars
  PROVE  Backed'
<1> USE DEF Backed
<1>1. ASSUME NEW s \in Series, Evaluate(s) PROVE Backed'
  BY <1>1 DEF Evaluate
<1>2. CASE Cooled \/ Due \/ Finish
  BY <1>2 DEF Cooled, Due, Finish, TypeOK, Job
<1>3. CASE Insert
  <2>1. job.created \in Seq(Alert) /\ Candidate \in Alert
    BY <1>3, CandidateTyped DEF Insert, Placed, TypeOK, Job
  <2>2. live' = live /\ sent' = sent /\ alerts \subseteq alerts'
    BY <1>3 DEF Insert
  <2>3. \/ job'.created = job.created
        \/ job'.created = Append(job.created, Candidate) /\ Candidate \in alerts'
    BY <1>3 DEF Insert, TypeOK, Job
  <2> QED BY <2>1, <2>2, <2>3, AppendFacts
<1>4. CASE InsertRefused \/ Return \/ Interrupt
  BY <1>4, IdleTyped DEF InsertRefused, Return, Interrupt
<1>5. CASE Notify
  <2>1. job.created \in Seq(Alert) /\ job.created # << >> /\ sent \in Seq(Alert)
    BY <1>5 DEF Notify, TypeOK, Job
  <2>2. job'.created = Tail(job.created) /\ UNCHANGED <<live, alerts>>
    BY <1>5 DEF Notify, TypeOK, Job
  <2>3. sent' = sent \/ sent' = Append(sent, Head(job.created))
    BY <1>5 DEF Notify
  <2>4. \A i \in DOMAIN sent' : sent'[i].series[1] \in live => sent'[i] \in alerts
    BY <2>1, <2>3, HeadTailFacts, AppendFacts
  <2> QED BY <2>1, <2>2, <2>4, HeadTailFacts
<1>6. ASSUME NEW k \in Keywords, DeleteKeyword(k) PROVE Backed'
  BY <1>6 DEF DeleteKeyword
<1>7. CASE Hour
  BY <1>7 DEF Hour
<1>8. CASE UNCHANGED vars
  BY <1>8 DEF vars
<1> QED BY <1>1, <1>2, <1>3, <1>4, <1>5, <1>6, <1>7, <1>8 DEF Next

(* A step reports no alert that an earlier step reported. *)
LEMMA NotifiedStep ==
  ASSUME TypeOK, Placed, Backed, NotYetSent, NotifiedOnce, [Next]_vars
  PROVE  NotYetSent' /\ NotifiedOnce'
<1> USE DEF NotYetSent, NotifiedOnce
<1>1. ASSUME NEW s \in Series, Evaluate(s) PROVE NotYetSent' /\ NotifiedOnce'
  BY <1>1 DEF Evaluate
<1>2. CASE Cooled \/ Due \/ Finish
  BY <1>2 DEF Cooled, Due, Finish, TypeOK, Job
<1>3. CASE Insert
  <2>1. job.created \in Seq(Alert) /\ Candidate \in Alert
    BY <1>3, CandidateTyped DEF Insert, Placed, TypeOK, Job
  <2>2. CASE \E a \in alerts : SameRule(a, Candidate)
    BY <1>3, <2>2 DEF Insert, TypeOK, Job
  <2>3. CASE ~\E a \in alerts : SameRule(a, Candidate)
    <3>1. job'.created = Append(job.created, Candidate) /\ sent' = sent
      BY <1>3, <2>3 DEF Insert, TypeOK, Job
    <3>2. Candidate.series[1] \in live
      BY <1>3 DEF Insert, Candidate
    <3>3. \A i \in DOMAIN job.created :
            ~SameRule(job.created[i], Candidate) /\ ~SameRule(Candidate, job.created[i])
      BY <2>3, <3>2 DEF Backed, SameRule
    <3>4. \A i \in DOMAIN sent : ~SameRule(sent[i], Candidate)
      BY <2>3, <3>2 DEF Backed, SameRule
    <3>5. \A i, j \in DOMAIN job'.created :
            SameRule(job'.created[i], job'.created[j]) => i = j
      BY <2>1, <3>1, <3>3, AppendFacts
    <3>6. \A i \in DOMAIN sent, j \in DOMAIN job'.created :
            ~SameRule(sent[i], job'.created[j])
      BY <2>1, <3>1, <3>4, AppendFacts
    <3> QED BY <3>1, <3>5, <3>6 DEF SameRule
  <2> QED BY <2>2, <2>3
<1>4. CASE InsertRefused \/ Return \/ Interrupt
  BY <1>4, IdleTyped DEF InsertRefused, Return, Interrupt
<1>5. CASE Notify
  <2>1. job.created \in Seq(Alert) /\ job.created # << >> /\ sent \in Seq(Alert)
    BY <1>5 DEF Notify, TypeOK, Job
  <2>2. job'.created = Tail(job.created)
    BY <1>5 DEF Notify, TypeOK, Job
  <2>3. sent' = sent \/ sent' = Append(sent, Head(job.created))
    BY <1>5 DEF Notify
  <2>4. /\ Head(job.created) = job.created[1] /\ Head(job.created) \in Alert
        /\ 1 \in DOMAIN job.created
    BY <2>1, HeadTailFacts
  <2>5. \A i, j \in DOMAIN job'.created :
          SameRule(job'.created[i], job'.created[j]) => i = j
    BY <2>1, <2>2, HeadTailFacts
  <2>6. \A j \in DOMAIN job'.created : ~SameRule(Head(job.created), job'.created[j])
    BY <2>1, <2>2, <2>4, HeadTailFacts
  <2>7. \A i \in DOMAIN sent, j \in DOMAIN job'.created : ~SameRule(sent[i], job'.created[j])
    BY <2>1, <2>2, HeadTailFacts
  <2>8. \A i \in DOMAIN sent', j \in DOMAIN job'.created : ~SameRule(sent'[i], job'.created[j])
    <3>1. \A i \in DOMAIN sent' :
            (i \in DOMAIN sent /\ sent'[i] = sent[i]) \/ sent'[i] = Head(job.created)
      BY <2>1, <2>3, <2>4, AppendFacts
    <3> QED BY <2>6, <2>7, <3>1
  <2>9. \A i \in DOMAIN sent :
          /\ ~SameRule(sent[i], Head(job.created))
          /\ ~SameRule(Head(job.created), sent[i])
    BY <2>4 DEF SameRule
  <2>10. \A i, j \in DOMAIN sent' : SameRule(sent'[i], sent'[j]) => i = j
    BY <2>1, <2>3, <2>4, <2>9, AppendFacts
  <2> QED BY <2>5, <2>8, <2>10 DEF SameRule
<1>6. ASSUME NEW k \in Keywords, DeleteKeyword(k) PROVE NotYetSent' /\ NotifiedOnce'
  BY <1>6 DEF DeleteKeyword, SameRule
<1>7. CASE Hour
  BY <1>7 DEF Hour, SameRule
<1>8. CASE UNCHANGED vars
  BY <1>8 DEF vars, SameRule
<1> QED BY <1>1, <1>2, <1>3, <1>4, <1>5, <1>6, <1>7, <1>8 DEF Next

-----------------------------------------------------------------------------

(* The inductive invariant holds of an empty alerts table. *)
LEMMA InitInvariant == Init => IInv
<1> SUFFICES ASSUME Init PROVE IInv
  OBVIOUS
<1> USE BoundsAssumption DEF Init
<1>0. /\ << >> \in Seq(Categories) /\ << >> \in Seq(Alert)
      /\ [s \in Series |-> 0] \in [Series -> 0 .. MaxDate]
      /\ 0 \in 0 .. MaxTime
  OBVIOUS
<1>1. job \in Job /\ job.pc = "idle" /\ job.created = << >>
  BY <1>0 DEF Job
<1>2. TypeOK
  BY <1>0, <1>1 DEF TypeOK
<1> QED BY <1>1, <1>2 DEF IInv, Placed, StillDue, CooldownRespected, Backed,
                          NotYetSent, NotifiedOnce

(* The inductive invariant of the alerts. *)
THEOREM AlertsInvariance == Spec => []IInv
<1>1. IInv /\ [Next]_vars => IInv'
  <2> SUFFICES ASSUME IInv, [Next]_vars PROVE IInv'
    OBVIOUS
  <2> USE DEF IInv
  <2>1. TypeOK'
    BY TypeStep DEF Placed
  <2>2. Placed' /\ StillDue' /\ CooldownRespected'
    BY PlacedStep, StillDueStep, CooldownStep
  <2>3. Backed' /\ NotYetSent' /\ NotifiedOnce'
    BY BackedStep, NotifiedStep
  <2> QED BY <2>1, <2>2, <2>3
<1> QED BY InitInvariant, <1>1, PTL DEF Spec

(* Tables, job and log keep their types. *)
THEOREM AlertsTypeCorrect == Spec => []TypeOK
<1>1. IInv => TypeOK
  BY DEF IInv
<1> QED BY <1>1, AlertsInvariance, PTL

(* Whatever the cooldowns and the reports of the rules: nobody inserts      *)
(* between the query and the INSERT of the one worker, and the clock only   *)
(* moves away from older alerts.                                            *)
THEOREM CooldownIsRespected == Spec => []CooldownRespected
<1>1. IInv => CooldownRespected
  BY DEF IInv
<1> QED BY <1>1, AlertsInvariance, PTL

(* The notification of an alert follows from its being a new row, and rows  *)
(* outlive every failed attempt; a deleted keyword takes its rows along,    *)
(* but nothing is inserted for it any more.                                 *)
THEOREM NotifiedAtMostOnce == Spec => []NotifiedOnce
<1>1. IInv => NotifiedOnce
  BY DEF IInv
<1> QED BY <1>1, AlertsInvariance, PTL

-----------------------------------------------------------------------------
(* Nothing that should be announced is forgotten. *)

(* Unless something was interrupted, an alert to be announced has been sent *)
(* or waits in the hands of the job, and the job holds only its own.        *)
Accounted ==
    /\ job.pc = "idle" => job.created = << >>
    /\ \A i \in DOMAIN job.created : job.created[i].series = job.series
    /\ ~interrupted =>
          \A a \in alerts : ShouldNotify(a.category) =>
              \/ \E i \in DOMAIN sent : sent[i] = a
              \/ \E i \in DOMAIN job.created : job.created[i] = a

(* A lengthened list keeps its elements and has the new one.                *)
LEMMA AppendKeeps ==
  ASSUME NEW S, NEW s \in Seq(S), NEW e \in S
  PROVE  /\ \A i \in DOMAIN s : i \in DOMAIN Append(s, e) /\ Append(s, e)[i] = s[i]
         /\ \E i \in DOMAIN Append(s, e) : Append(s, e)[i] = e
<1>1. Len(s) + 1 \in DOMAIN Append(s, e) /\ Append(s, e)[Len(s) + 1] = e
  OBVIOUS
<1> QED BY <1>1

(* An element of a list is its head or in its tail.                         *)
LEMMA HeadOrTail ==
  ASSUME NEW S, NEW s \in Seq(S), s # << >>, NEW i \in DOMAIN s
  PROVE  s[i] = Head(s) \/ \E j \in DOMAIN Tail(s) : Tail(s)[j] = s[i]
<1>1. CASE i = 1
  BY <1>1
<1>2. CASE i # 1
  <2>1. i - 1 \in DOMAIN Tail(s) /\ Tail(s)[i - 1] = s[i]
    BY <1>2
  <2> QED BY <2>1
<1> QED BY <1>1, <1>2

(* A step sends or keeps what is to be announced, or interrupts.            *)
LEMMA AccountedStep ==
  ASSUME TypeOK, Placed, Accounted, [Next]_vars
  PROVE  Accounted'
<1> USE DEF Accounted
<1>1. ASSUME NEW s \in Series, Evaluate(s) PROVE Accounted'
  <2>1. /\ job.pc = "idle" /\ job'.pc = "check" /\ job'.created = << >>
        /\ UNCHANGED <<alerts, sent, interrupted>>
    BY <1>1 DEF Evaluate
  <2> QED BY <2>1
<1>2. CASE Cooled \/ Due \/ Finish
  BY <1>2 DEF Cooled, Due, Finish, TypeOK, Job
<1>3. CASE Insert
  <2>1. job.created \in Seq(Alert) /\ Candidate \in Alert
    BY <1>3, CandidateTyped DEF Insert, Placed, TypeOK, Job
  <2>2. /\ job'.pc = "check" /\ job'.series = job.series
        /\ UNCHANGED <<sent, interrupted>>
    BY <1>3 DEF Insert, TypeOK, Job
  <2>3. CASE UNCHANGED alerts /\ job'.created = job.created
    BY <2>2, <2>3
  <2>4. CASE /\ alerts' = alerts \cup {Candidate}
             /\ job'.created = Append(job.created, Candidate)
    <3>1. Candidate.series = job.series
      BY DEF Candidate
    <3>2. \A i \in DOMAIN job'.created : job'.created[i].series = job'.series
      BY <2>1, <2>2, <2>4, <3>1, AppendFacts
    <3>3. /\ \A i \in DOMAIN job.created :
                i \in DOMAIN job'.created /\ job'.created[i] = job.created[i]
          /\ \E i \in DOMAIN job'.created : job'.created[i] = Candidate
      BY <2>1, <2>4, AppendKeeps
    <3> QED BY <2>2, <2>4, <3>2, <3>3
  <2> QED BY <1>3, <2>3, <2>4 DEF Insert, TypeOK, Job
<1>4. CASE InsertRefused
  <2>1. \A a \in alerts : a.series[1] \in live
    BY DEF TypeOK
  <2>2. \A a \in alerts, i \in DOMAIN job.created : job.created[i] # a
    BY <1>4, <2>1 DEF InsertRefused
  <2>3. /\ job'.pc = "idle" /\ job'.created = << >>
        /\ UNCHANGED <<alerts, sent, interrupted>>
    BY <1>4, IdleTyped DEF InsertRefused
  <2> QED BY <2>2, <2>3
<1>5. CASE Notify
  <2>1. /\ job.created \in Seq(Alert) /\ job.created # << >> /\ sent \in Seq(Alert)
        /\ job'.created = Tail(job.created) /\ job'.series = job.series
        /\ job'.pc = "notify" /\ UNCHANGED <<alerts, interrupted>>
    BY <1>5 DEF Notify, TypeOK, Job
  <2>2. Head(job.created) \in Alert
    BY <2>1, HeadTailFacts
  <2>3. \A i \in DOMAIN job'.created : job'.created[i].series = job'.series
    BY <2>1, HeadTailFacts
  <2>4. /\ \A i \in DOMAIN sent : \E j \in DOMAIN sent' : sent'[j] = sent[i]
        /\ ShouldNotify(Head(job.created).category) =>
              \E j \in DOMAIN sent' : sent'[j] = Head(job.created)
    <3>1. CASE ShouldNotify(Head(job.created).category)
      <4> DEFINE h == Head(job.created)
      <4>1. sent' = Append(sent, h) /\ sent \in Seq(Alert) /\ h \in Alert
        BY <1>5, <2>1, <2>2, <3>1 DEF Notify
      <4> HIDE DEF h
      <4>2. /\ \A i \in DOMAIN sent : i \in DOMAIN sent' /\ sent'[i] = sent[i]
            /\ \E j \in DOMAIN sent' : sent'[j] = h
        BY <4>1, AppendKeeps
      <4> QED BY <4>2 DEF h
    <3>2. CASE ~ShouldNotify(Head(job.created).category)
      BY <1>5, <3>2 DEF Notify
    <3> QED BY <3>1, <3>2
  <2>5. \A i \in DOMAIN job.created :
          \/ job.created[i] = Head(job.created)
          \/ \E j \in DOMAIN job'.created : job'.created[j] = job.created[i]
    BY <2>1, HeadOrTail
  <2> QED BY <2>1, <2>3, <2>4, <2>5
<1>6. CASE Return
  BY <1>6, IdleTyped DEF Return
<1>7. CASE Interrupt
  BY <1>7, IdleTyped DEF Interrupt
<1>8. ASSUME NEW k \in Keywords, DeleteKeyword(k) PROVE Accounted'
  BY <1>8 DEF DeleteKeyword
<1>9. CASE Hour
  BY <1>9 DEF Hour
<1>10. CASE UNCHANGED vars
  BY <1>10 DEF vars
<1> QED BY <1>1, <1>2, <1>3, <1>4, <1>5, <1>6, <1>7, <1>8, <1>9, <1>10 DEF Next

(* Whatever is reported and however many alerts a series brings: of what    *)
(* the worker inserts it forgets nothing by itself; an alert refused for    *)
(* want of its keyword ends the job, and with the keyword all the job's     *)
(* earlier alerts are gone.                                                 *)
THEOREM NotifiedUnlessInterruptedHolds == Spec => []NotifiedUnlessInterrupted
<1>1. Init => Accounted
  BY DEF Init, Accounted
<1>2. IInv /\ Accounted /\ [Next]_vars => Accounted'
  BY AccountedStep DEF IInv
<1>3. Accounted => NotifiedUnlessInterrupted
  BY DEF Accounted, NotifiedUnlessInterrupted
<1> QED BY <1>1, <1>2, <1>3, AlertsInvariance, PTL DEF Spec
=============================================================================
