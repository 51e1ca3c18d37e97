------------------------------ MODULE Backtest ------------------------------
(***************************************************************************)
(* The replay of a series: the rules are applied to every prefix that is   *)
(* long enough, and each candidate passes the replay's own cooldown, kept  *)
(* in memory and measured in point dates.  The log it makes is compared    *)
(* with the alerts the live program would have created had it evaluated    *)
(* each point when it came, once.                                          *)
(*                                                                         *)
(* An operator marked "Fault" distorts the one after it.                   *)
(***************************************************************************)
EXTENDS AlertRules

CONSTANTS
    SeriesSet,      \* the series to replay
    Hours,          \* the hours between two points, per timeframe
    P1Hours,        \* p1_alert_cooldown_hours
    P2Hours         \* p2_alert_cooldown_hours

ASSUME BacktestAssumption ==
    /\ SeriesSet \subseteq Seq(Point)
    /\ Hours \in [Timeframes -> Nat \ {0}]
    /\ P1Hours \in Nat /\ P2Hours \in Nat

VARIABLES
    timeframe,
    series,         \* the stored points, dated by their places
    end,            \* end_index: the length of the prefix looked at
    todo,           \* its candidates not yet considered
    seen,           \* seen_rules
    lastAt,         \* last_event_at
    events,         \* the log
    considered      \* all candidates so far, in order (history)

vars == <<timeframe, series, end, todo, seen, lastAt, events, considered>>

CooldownHours(category) == IF category \in P1Categories THEN P1Hours ELSE P2Hours

(* Fault: one point more than the rule asks for. *)
MinimumPointsPlusOne ==
    CASE timeframe = "now" -> 13 [] timeframe = "mid" -> 18 [] timeframe = "long" -> 11

(* minimum_points_for_timeframe. *)
MinimumPoints ==
    CASE timeframe = "now" -> 12 [] timeframe = "mid" -> 17 [] timeframe = "long" -> 10

Points == Normalized(series, timeframe)

(* A rule names its timeframe and category; a date is the place of a point. *)
Event(category) == [category |-> category, date |-> end]

Elapsed(from) == (end - from) * Hours[timeframe]

(* Fault: the time of a suppressed candidate restarts the cooldown. *)
SkipSliding ==
    /\ todo # << >>
    /\ LET category == Head(todo)
       IN  /\ category \in DOMAIN lastAt
           /\ Elapsed(lastAt[category]) < CooldownHours(category)
           /\ lastAt' = [lastAt EXCEPT ![category] = end]
           /\ considered' = Append(considered, Event(category))
    /\ todo' = Tail(todo)
    /\ UNCHANGED <<timeframe, series, end, seen, events>>

InReplay(category) ==
    \/ Event(category) \in seen
    \/ /\ category \in DOMAIN lastAt
       /\ Elapsed(lastAt[category]) < CooldownHours(category)

(* continue. *)
Skip ==
    /\ todo # << >>
    /\ InReplay(Head(todo))
    /\ considered' = Append(considered, Event(Head(todo)))
    /\ todo' = Tail(todo)
    /\ UNCHANGED <<timeframe, series, end, seen, lastAt, events>>

(* Fault: seen_rules is forgotten. *)
EmitUnseen ==
    /\ todo # << >>
    /\ ~InReplay(Head(todo))
    /\ events' = Append(events, Event(Head(todo)))
    /\ lastAt' = [c \in DOMAIN lastAt \cup {Head(todo)} |->
                    IF c = Head(todo) THEN end ELSE lastAt[c]]
    /\ considered' = Append(considered, Event(Head(todo)))
    /\ todo' = Tail(todo)
    /\ UNCHANGED <<timeframe, series, end, seen>>

Emit ==
    /\ todo # << >>
    /\ ~InReplay(Head(todo))
    /\ events' = Append(events, Event(Head(todo)))
    /\ seen' = seen \cup {Event(Head(todo))}
    /\ lastAt' = [c \in DOMAIN lastAt \cup {Head(todo)} |->
                    IF c = Head(todo) THEN end ELSE lastAt[c]]
    /\ considered' = Append(considered, Event(Head(todo)))
    /\ todo' = Tail(todo)
    /\ UNCHANGED <<timeframe, series, end>>

(* The next prefix of at least MinimumPoints. *)
Slice ==
    /\ todo = << >>
    /\ end < Len(Points)
    /\ end' = end + 1
    /\ todo' = Report(SubSeq(Points, 1, end + 1), timeframe)
    /\ UNCHANGED <<timeframe, series, seen, lastAt, events, considered>>

Init ==
    /\ timeframe \in Timeframes
    /\ series \in SeriesSet
    /\ end = MinimumPoints - 1
    /\ todo = << >>
    /\ seen = {}
    /\ lastAt = << >>
    /\ events = << >>
    /\ considered = << >>

Next == Slice \/ Skip \/ Emit

Spec == Init /\ [][Next]_vars

-----------------------------------------------------------------------------

Events == [category : Categories(timeframe), date : 1 .. Len(series)]

(* Types, and the three records the replay keeps of one log.                *)
TypeOK ==
    /\ timeframe \in Timeframes
    /\ end \in Nat
    /\ todo \in Seq(Categories(timeframe))
    /\ events \in Seq(Events)
    /\ considered \in Seq(Events)
    /\ seen = {events[i] : i \in DOMAIN events}
    /\ DOMAIN lastAt = {events[i].category : i \in DOMAIN events}
    /\ \A c \in DOMAIN lastAt : [category |-> c, date |-> lastAt[c]] \in seen

(* The live program: is_alert_in_cooldown, boundary included, and the       *)
(* unique key of the table.                                                 *)
Admit(log, event) ==
    IF \E i \in DOMAIN log :
         /\ log[i].category = event.category
         /\ \/ log[i].date = event.date
            \/ /\ CooldownHours(event.category) > 0
               /\ (event.date - log[i].date) * Hours[timeframe]
                      <= CooldownHours(event.category)
    THEN log ELSE Append(log, event)

(* The rules on all the prefixes of the points seen so far, in order. *)
Candidates ==
    LET Dated(n) == LET report == Report(SubSeq(Points, 1, n), timeframe)
                    IN  [i \in DOMAIN report |-> [category |-> report[i], date |-> n]]
        all[n \in 0 .. Len(Points)] ==
            IF n = 0 THEN << >> ELSE all[n - 1] \o Dated(n)
    IN  all[IF end > Len(Points) THEN Len(Points) ELSE end]

LiveLog(candidates) ==
    LET log[n \in 0 .. Len(candidates)] ==
            IF n = 0 THEN << >> ELSE Admit(log[n - 1], candidates[n])
    IN  log[Len(candidates)]

(* docs: the replay applies "the same cooldown logic".  After every prefix  *)
(* its log is that of the live program, unless two candidates of a category *)
(* are exactly the cooldown apart: the replay lets the second through, the  *)
(* live query does not.                                                     *)
ReplayAgrees ==
    /\ todo = << >>
    /\ \A i, j \in DOMAIN considered :
          /\ considered[i].category = considered[j].category
          /\ considered[i].date < considered[j].date
          => (considered[j].date - considered[i].date) * Hours[timeframe]
                # CooldownHours(considered[i].category)
    => events = LiveLog(Candidates)

(* A series whose points that count are all the same, below the absolute    *)
(* threshold of 85, raises nothing: in no window is the baseline biased.    *)
FlatIsQuiet ==
    /\ \A i, j \in DOMAIN series :
          /\ Complete(series[i]) \/ timeframe = "now"
          /\ Complete(series[j]) \/ timeframe = "now"
          => series[i].value = series[j].value
    /\ \A i \in DOMAIN Points : Points[i].value < 85
    => events = << >>

(* A jump that lasts is not missed in a short window, whichever side of 27  *)
(* points it falls on: after ten flat points or more, by its third point a  *)
(* sudden_spike has been reported since it began.                           *)
JumpReported ==
    \A start \in 11 .. Len(Points) - 2 :
        /\ timeframe = "now"
        /\ todo = << >>
        /\ end >= start + 2
        /\ \A i \in 1 .. start - 1 : Points[i].value = Points[1].value
        /\ \A i \in start .. start + 2 :
              /\ Points[i].value = Points[start].value
              /\ 2 * Points[i].value >= 5 * Points[1].value
              /\ Points[i].value - Points[1].value >= 15
        => \E i \in DOMAIN events :
              /\ events[i].category = "sudden_spike"
              /\ events[i].date \in start .. start + 2

(* A report never holds a rise and a fall at once, with one exception: in a *)
(* long window the last value may be historically hot although the average  *)
(* has fallen.  Values being at most 100, a window_breakout excludes a      *)
(* steady_decline.                                                          *)
NoContradiction ==
    \A i, j \in DOMAIN considered :
        /\ considered[i].date = considered[j].date
        /\ considered[i].category \notin Falling
        /\ considered[j].category \in Falling
        => considered[i].category = "historical_hot"
=============================================================================
