--------------------------- MODULE Backtest_proofs --------------------------
(***************************************************************************)
(* The replay, for every set of series, cooldown and length.  Its          *)
(* invariant, ReplayInv, says where the log comes from (nothing is         *)
(* considered but what the rules report for the prefix of its date) and    *)
(* that nothing is missed (what they report has an event of its category   *)
(* by then).  AgreeInv adds that the candidates are considered in order    *)
(* and that the log is the live program's log of them.                     *)
(***************************************************************************)
EXTENDS Backtest, AlertRules_proofs

Prefix(n) == SubSeq(Points, 1, n)

Reported(n) == ToSet(Report(Prefix(n), timeframe))

(* The points that count are points of the series.                           *)
LEMMA PointsOfSeries ==
    ASSUME timeframe \in Timeframes, series \in Seq(Point)
    PROVE  /\ Points \in Seq(Point)
           /\ Len(Points) <= Len(series)
           /\ \A i \in DOMAIN Points : \E j \in DOMAIN series :
                 /\ Points[i] = series[j]
                 /\ Complete(series[j]) \/ timeframe = "now"
<1>1. CASE timeframe = "now"
  <2>1. Points = series
    BY <1>1 DEF Points, Normalized
  <2> QED
    BY <1>1, <2>1
<1>2. CASE timeframe # "now"
  <2> DEFINE keep == {point \in ToSet(series) : Complete(point)}
  <2>1. Points = Kept(series, keep)
    BY <1>2 DEF Points, Normalized
  <2>2. \A point \in keep : Complete(point)
    OBVIOUS
  <2> HIDE DEF keep
  <2>3. Points \in Seq(Point) /\ Len(Points) <= Len(series)
    BY <2>1, KeptPlaced, KeptShorter
  <2>4. PICK place : IsPlacing(place, Points, series, keep, Len(series))
    BY <2>1, KeptPlaced
  <2>5. \A i \in 1 .. Len(Points) :
           /\ place[i] \in 1 .. Len(series)
           /\ Points[i] = series[place[i]]
           /\ Complete(series[place[i]])
    BY <2>2, <2>4 DEF IsPlacing
  <2>6. DOMAIN Points = 1 .. Len(Points) /\ DOMAIN series = 1 .. Len(series)
    BY <2>3
  <2> QED
    BY <2>3, <2>5, <2>6
<1> QED
  BY <1>1, <1>2

LEMMA PrefixOfPoints ==
    ASSUME Points \in Seq(Point), NEW n \in 0 .. Len(Points)
    PROVE  /\ Prefix(n) \in Seq(Point)
           /\ Len(Prefix(n)) = n
           /\ \A i \in 1 .. n : Prefix(n)[i] = Points[i]
<1> DEFINE one == 1
<1>1. /\ n \in Int /\ one \in Int
      /\ (IF one <= n THEN n - one + 1 ELSE 0) = n
      /\ n - one + 1 = n
      /\ \A i \in 1 .. n : one + i - 1 = i
  OBVIOUS
<1>2. \A i \in one .. n : Points[i] \in Point
  <2>1. \A i \in one .. n : i \in 1 .. Len(Points)
    OBVIOUS
  <2> QED
    BY <2>1, ElementOfSeq
<1>3. Prefix(n) = SubSeq(Points, one, n)
  BY DEF Prefix
<1> HIDE DEF one
<1>4. /\ SubSeq(Points, one, n) \in Seq(Point)
      /\ Len(SubSeq(Points, one, n)) = IF one <= n THEN n - one + 1 ELSE 0
      /\ \A i \in 1 .. n - one + 1 : SubSeq(Points, one, n)[i] = Points[one + i - 1]
  BY <1>1, <1>2, SubSeqProperties
<1> QED
  BY <1>1, <1>3, <1>4

LEMMA ReportedTyped ==
    ASSUME timeframe \in Timeframes, Points \in Seq(Point), NEW n \in 0 .. Len(Points)
    PROVE  /\ Report(Prefix(n), timeframe) \in Seq(Categories(timeframe))
           /\ n < MinimumPoints => Report(Prefix(n), timeframe) = << >>
<1>1. Prefix(n) \in Seq(Point) /\ Len(Prefix(n)) = n
  BY PrefixOfPoints
<1>2. Minimum(timeframe) = MinimumPoints
  BY DEF Minimum, MinimumPoints
<1> QED
  BY <1>1, <1>2, ReportTyped

(* The replay's bookkeeping.  Nothing is considered but what the rules       *)
(* report for the prefix of that date, and what they report for a prefix     *)
(* that is done with has an event of its category, of that date or before.   *)
Typed ==
    /\ timeframe \in Timeframes
    /\ series \in Seq(Point)
    /\ end \in Nat
    /\ MinimumPoints - 1 <= end
    /\ todo \in Seq(Categories(timeframe))
    /\ todo # << >> => MinimumPoints <= end /\ end <= Len(Points)
    /\ events \in Seq(Events)
    /\ considered \in Seq(Events)

Recorded ==
    /\ seen = {events[i] : i \in DOMAIN events}
    /\ DOMAIN lastAt = {events[i].category : i \in DOMAIN events}
    /\ \A c \in DOMAIN lastAt : [category |-> c, date |-> lastAt[c]] \in seen
    /\ \A i \in DOMAIN events : events[i].date <= lastAt[events[i].category]

Sourced ==
    /\ \A i \in DOMAIN todo : todo[i] \in Reported(end)
    /\ \A i \in DOMAIN considered :
          /\ considered[i].date \in 1 .. end
          /\ considered[i].date <= Len(Points)
          /\ considered[i].category \in Reported(considered[i].date)
    /\ \A i \in DOMAIN events : \E j \in DOMAIN considered : events[i] = considered[j]

Answered ==
    \A n \in 1 .. Len(Points) : \A c \in Reported(n) :
        \/ n > end
        \/ n = end /\ \E i \in DOMAIN todo : todo[i] = c
        \/ \E i \in DOMAIN events : events[i].category = c /\ events[i].date <= n

ReplayInv == Typed /\ Recorded /\ Sourced /\ Answered

LEMMA Appended ==
    ASSUME NEW S, NEW s \in Seq(S), NEW e \in S
    PROVE  /\ Append(s, e) \in Seq(S)
           /\ \A i \in DOMAIN s : i \in DOMAIN Append(s, e) /\ Append(s, e)[i] = s[i]
           /\ Len(s) + 1 \in DOMAIN Append(s, e)
           /\ Append(s, e)[Len(s) + 1] = e
           /\ \A i \in DOMAIN Append(s, e) : i \in DOMAIN s \/ i = Len(s) + 1
  OBVIOUS

LEMMA HeadAndTail ==
    ASSUME NEW S, NEW s \in Seq(S), s # << >>
    PROVE  /\ Head(s) \in S
           /\ Tail(s) \in Seq(S)
           /\ \E i \in DOMAIN s : s[i] = Head(s)
           /\ \A i \in DOMAIN Tail(s) : \E j \in DOMAIN s : Tail(s)[i] = s[j]
           /\ \A j \in DOMAIN s : \/ s[j] = Head(s)
                                  \/ \E i \in DOMAIN Tail(s) : Tail(s)[i] = s[j]
<1>1. /\ Head(s) \in S /\ Tail(s) \in Seq(S)
      /\ Len(Tail(s)) = Len(s) - 1
      /\ \A i \in 1 .. Len(Tail(s)) : Tail(s)[i] = s[i + 1]
  BY HeadTailProperties
<1>2. /\ Len(s) \in Nat \ {0} /\ DOMAIN s = 1 .. Len(s)
      /\ DOMAIN Tail(s) = 1 .. Len(s) - 1 /\ Head(s) = s[1]
  BY <1>1
<1>3. \A i \in 1 .. Len(s) - 1 : i + 1 \in 1 .. Len(s) /\ Tail(s)[i] = s[i + 1]
  BY <1>1, <1>2
<1>4. ASSUME NEW j \in 1 .. Len(s)
      PROVE  s[j] = Head(s) \/ \E i \in DOMAIN Tail(s) : Tail(s)[i] = s[j]
  <2>1. CASE j = 1
    BY <1>2, <2>1
  <2>2. CASE j # 1
    <3>1. j - 1 \in 1 .. Len(s) - 1 /\ (j - 1) + 1 = j
      BY <1>2, <2>2
    <3> QED
      BY <1>2, <1>3, <3>1
  <2> QED
    BY <2>1, <2>2
<1>5. 1 \in DOMAIN s
  BY <1>2
<1> QED
  BY <1>1, <1>2, <1>3, <1>4, <1>5

LEMMA InitReplay ==
    ASSUME Init, BacktestAssumption PROVE ReplayInv
<1>1. timeframe \in Timeframes /\ series \in Seq(Point)
  BY DEF Init, BacktestAssumption
<1>2. Points \in Seq(Point)
  BY <1>1, PointsOfSeries
<1>3. MinimumPoints \in Nat \ {0}
  BY <1>1 DEF MinimumPoints, Timeframes
<1>4. Typed
  BY <1>1, <1>3 DEF Init, Typed
<1>5. Recorded /\ Sourced
  BY DEF Init, Recorded, Sourced
<1>6. Answered
  <2> SUFFICES ASSUME NEW n \in 1 .. Len(Points), NEW c \in Reported(n) PROVE n > end
    BY DEF Answered
  <2>1. n \in 0 .. Len(Points)
    OBVIOUS
  <2>2. n < MinimumPoints => Reported(n) = {}
    BY <1>1, <1>2, <2>1, ReportedTyped, OneReported DEF Reported
  <2> QED
    BY <1>3, <2>2 DEF Init
<1> QED
  BY <1>4, <1>5, <1>6 DEF ReplayInv

(* The points and what is reported for them stay.                            *)
LEMMA PointsStay ==
    ASSUME UNCHANGED <<timeframe, series>>
    PROVE  /\ Points' = Points /\ MinimumPoints' = MinimumPoints /\ Events' = Events
           /\ \A n : Reported(n)' = Reported(n) /\ Prefix(n)' = Prefix(n)
<1>1. Points' = Points
  BY DEF Points
<1> QED
  BY <1>1 DEF MinimumPoints, Events, Reported, Prefix

LEMMA SliceKeeps ==
    ASSUME ReplayInv, Slice PROVE ReplayInv'
<1> USE DEF ReplayInv
<1>1. /\ Points' = Points /\ MinimumPoints' = MinimumPoints /\ Events' = Events
      /\ \A n : Reported(n)' = Reported(n)
  BY PointsStay DEF Slice
<1>2. Points \in Seq(Point) /\ Len(Points) \in Nat
  BY PointsOfSeries DEF Typed
<1>3. /\ end \in Nat /\ end' = end + 1 /\ end' \in 0 .. Len(Points)
      /\ MinimumPoints <= end' /\ MinimumPoints \in Nat
  BY <1>2 DEF Slice, Typed, MinimumPoints, Timeframes
<1>4. todo' = Report(Prefix(end'), timeframe) /\ Reported(end') = ToSet(todo')
  BY DEF Slice, Prefix, Reported
<1>5. todo' \in Seq(Categories(timeframe))
  BY <1>2, <1>3, <1>4, ReportedTyped DEF Typed
<1>6. Typed'
  BY <1>1, <1>3, <1>5 DEF Typed, Slice
<1>7. Recorded'
  BY DEF Recorded, Slice
<1>8. Sourced'
  <2>1. \A i \in DOMAIN todo' : todo'[i] \in Reported(end')
    BY <1>4 DEF ToSet
  <2>2. 1 .. end \subseteq 1 .. end'
    BY <1>3
  <2> QED
    BY <1>1, <2>1, <2>2 DEF Sourced, Slice
<1>9. Answered'
  <2> SUFFICES ASSUME NEW n \in 1 .. Len(Points), NEW c \in Reported(n)
               PROVE  \/ n > end'
                      \/ n = end' /\ \E i \in DOMAIN todo' : todo'[i] = c
                      \/ \E i \in DOMAIN events : events[i].category = c /\ events[i].date <= n
    BY <1>1 DEF Answered, Slice
  <2>1. CASE n <= end
    <3>1. DOMAIN todo = {}
      BY DEF Slice
    <3> QED
      BY <1>3, <2>1, <3>1 DEF Answered
  <2>2. CASE n = end'
    BY <1>4, <2>2 DEF ToSet
  <2> QED
    BY <1>3, <2>1, <2>2
<1> QED
  BY <1>6, <1>7, <1>8, <1>9

(* A candidate is considered: what Skip and Emit have in common.             *)
Consider ==
    /\ todo # << >>
    /\ considered' = Append(considered, Event(Head(todo)))
    /\ todo' = Tail(todo)
    /\ UNCHANGED <<timeframe, series, end>>

LEMMA EventTyped ==
    ASSUME Typed, todo # << >>
    PROVE  /\ Event(Head(todo)) \in Events
           /\ Event(Head(todo)).category = Head(todo)
           /\ Event(Head(todo)).date = end
           /\ end \in 1 .. Len(Points) /\ end \in 1 .. Len(series)
<1>1. Head(todo) \in Categories(timeframe)
  BY HeadAndTail DEF Typed
<1>2. Points \in Seq(Point) /\ Len(Points) <= Len(series) /\ Len(Points) \in Nat
  BY PointsOfSeries DEF Typed
<1>3. MinimumPoints \in Nat \ {0}
  BY DEF Typed, MinimumPoints, Timeframes
<1>4. end \in 1 .. Len(Points) /\ end \in 1 .. Len(series)
  BY <1>2, <1>3 DEF Typed
<1> QED
  BY <1>1, <1>4 DEF Event, Events

LEMMA ConsiderKeeps ==
    ASSUME ReplayInv, Consider, events' \in Seq(Events),
           \A i \in DOMAIN events' :
              \/ events'[i] = Event(Head(todo))
              \/ \E j \in DOMAIN events : events'[i] = events[j],
           \A j \in DOMAIN events : \E i \in DOMAIN events' : events'[i] = events[j],
           \E i \in DOMAIN events' : /\ events'[i].category = Head(todo)
                                     /\ events'[i].date <= end
    PROVE  Typed' /\ Sourced' /\ Answered'
<1> DEFINE e == Event(Head(todo))
<1>1. /\ Points' = Points /\ MinimumPoints' = MinimumPoints /\ Events' = Events
      /\ \A n : Reported(n)' = Reported(n)
  BY PointsStay DEF Consider
<1>2. /\ e \in Events /\ e.category = Head(todo) /\ e.date = end
      /\ end \in 1 .. Len(Points)
  BY EventTyped DEF Consider, ReplayInv
<1>3. /\ todo \in Seq(Categories(timeframe)) /\ todo # << >>
      /\ todo' \in Seq(Categories(timeframe))
      /\ \E i \in DOMAIN todo : todo[i] = Head(todo)
      /\ \A i \in DOMAIN todo' : \E j \in DOMAIN todo : todo'[i] = todo[j]
      /\ \A j \in DOMAIN todo : \/ todo[j] = Head(todo)
                                \/ \E i \in DOMAIN todo' : todo'[i] = todo[j]
  BY HeadAndTail DEF Consider, ReplayInv, Typed
<1>4. /\ considered' \in Seq(Events)
      /\ \A i \in DOMAIN considered : i \in DOMAIN considered' /\ considered'[i] = considered[i]
      /\ \E i \in DOMAIN considered' : considered'[i] = e
      /\ \A i \in DOMAIN considered' : i \in DOMAIN considered \/ considered'[i] = e
  <2> DEFINE new == Append(considered, e)
  <2>1. considered \in Seq(Events)
    BY DEF ReplayInv, Typed
  <2>2. /\ new \in Seq(Events)
        /\ \A i \in DOMAIN considered : i \in DOMAIN new /\ new[i] = considered[i]
        /\ Len(considered) + 1 \in DOMAIN new
        /\ new[Len(considered) + 1] = e
        /\ \A i \in DOMAIN new : i \in DOMAIN considered \/ i = Len(considered) + 1
    BY <1>2, <2>1, Appended
  <2>3. considered' = new
    BY DEF Consider
  <2> HIDE DEF new, e
  <2> QED
    BY <2>2, <2>3
<1> HIDE DEF e
<1>5. Typed'
  BY <1>1, <1>3, <1>4 DEF Consider, ReplayInv, Typed
<1>6. Sourced'
  <2>1. Head(todo) \in Reported(end)
    BY <1>3 DEF ReplayInv, Sourced
  <2>2. \A i \in DOMAIN todo' : todo'[i] \in Reported(end)
    BY <1>3 DEF ReplayInv, Sourced
  <2>3. ASSUME NEW i \in DOMAIN considered'
        PROVE  /\ considered'[i].date \in 1 .. end
               /\ considered'[i].date <= Len(Points)
               /\ considered'[i].category \in Reported(considered'[i].date)
    BY <1>2, <1>4, <2>1 DEF ReplayInv, Sourced
  <2>4. ASSUME NEW i \in DOMAIN events'
        PROVE  \E j \in DOMAIN considered' : events'[i] = considered'[j]
    <3>1. CASE events'[i] = e
      BY <1>4, <3>1
    <3>2. CASE \E j \in DOMAIN events : events'[i] = events[j]
      <4>1. PICK j \in DOMAIN considered : events'[i] = considered[j]
        BY <3>2 DEF ReplayInv, Sourced
      <4> QED
        BY <1>4, <4>1
    <3> QED
      BY <3>1, <3>2 DEF e
  <2> QED
    BY <1>1, <2>2, <2>3, <2>4 DEF Consider, Sourced
<1>7. Answered'
  <2> SUFFICES ASSUME NEW n \in 1 .. Len(Points), NEW c \in Reported(n)
               PROVE  \/ n > end
                      \/ n = end /\ \E i \in DOMAIN todo' : todo'[i] = c
                      \/ \E i \in DOMAIN events' : /\ events'[i].category = c
                                                   /\ events'[i].date <= n
    BY <1>1 DEF Answered, Consider
  <2>1. \/ n > end
        \/ n = end /\ \E i \in DOMAIN todo : todo[i] = c
        \/ \E i \in DOMAIN events : events[i].category = c /\ events[i].date <= n
    BY DEF ReplayInv, Answered
  <2>2. CASE n = end /\ \E i \in DOMAIN todo : todo[i] = c
    BY <1>3, <2>2
  <2>3. CASE \E i \in DOMAIN events : events[i].category = c /\ events[i].date <= n
    BY <2>3
  <2> QED
    BY <2>1, <2>2, <2>3
<1> QED
  BY <1>5, <1>6, <1>7

LEMMA SkipKeeps ==
    ASSUME ReplayInv, Skip, BacktestAssumption PROVE ReplayInv'
<1>1. Consider /\ events' = events /\ Events' = Events /\ todo # << >>
  BY PointsStay DEF Skip, Consider
<1>2. \E i \in DOMAIN events : events[i].category = Head(todo) /\ events[i].date <= end
  <2>1. Event(Head(todo)).category = Head(todo) /\ Event(Head(todo)).date = end /\ end \in Nat
    BY <1>1, EventTyped DEF ReplayInv, Typed
  <2>2. CASE Event(Head(todo)) \in seen
    BY <2>1, <2>2 DEF ReplayInv, Recorded
  <2>3. CASE Head(todo) \in DOMAIN lastAt
    <3>1. PICK i \in DOMAIN events : events[i].category = Head(todo)
      BY <2>3 DEF ReplayInv, Recorded
    <3>2. PICK j \in DOMAIN considered : events[i] = considered[j]
      BY DEF ReplayInv, Sourced
    <3>3. events[i].date <= end
      BY <2>1, <3>2 DEF ReplayInv, Sourced
    <3> QED
      BY <3>1, <3>3
  <2> QED
    BY <2>2, <2>3 DEF Skip, InReplay
<1>3. events' \in Seq(Events)
  BY <1>1 DEF ReplayInv, Typed
<1>4. Typed' /\ Sourced' /\ Answered'
  BY <1>1, <1>2, <1>3, ConsiderKeeps
<1>5. Recorded'
  BY DEF Skip, ReplayInv, Recorded
<1> QED
  BY <1>4, <1>5 DEF ReplayInv

LEMMA EmitKeeps ==
    ASSUME ReplayInv, Emit PROVE ReplayInv'
<1> DEFINE h == Head(todo)
           e == Event(h)
<1>1. Consider /\ events' = Append(events, e) /\ todo # << >>
  BY DEF Emit, Consider
<1>2. /\ e \in Events /\ e.category = h /\ e.date = end
      /\ end \in 1 .. Len(Points)
      /\ e = [category |-> h, date |-> end]
  BY <1>1, EventTyped DEF ReplayInv, Event
<1>3. events \in Seq(Events) /\ end \in Nat
  BY DEF ReplayInv, Typed
<1>4. /\ events' \in Seq(Events)
      /\ \A i \in DOMAIN events : i \in DOMAIN events' /\ events'[i] = events[i]
      /\ \E i \in DOMAIN events' : events'[i] = e
      /\ \A i \in DOMAIN events' : i \in DOMAIN events \/ events'[i] = e
  <2> DEFINE new == Append(events, e)
  <2>1. /\ new \in Seq(Events)
        /\ \A i \in DOMAIN events : i \in DOMAIN new /\ new[i] = events[i]
        /\ Len(events) + 1 \in DOMAIN new
        /\ new[Len(events) + 1] = e
        /\ \A i \in DOMAIN new : i \in DOMAIN events \/ i = Len(events) + 1
    BY <1>2, <1>3, Appended
  <2>2. events' = new
    BY <1>1
  <2> HIDE DEF new, e
  <2> QED
    BY <2>1, <2>2
<1>5. Typed' /\ Sourced' /\ Answered'
  <2>1. \A i \in DOMAIN events' : \/ events'[i] = e
                                  \/ \E j \in DOMAIN events : events'[i] = events[j]
    BY <1>4
  <2>2. \A j \in DOMAIN events : \E i \in DOMAIN events' : events'[i] = events[j]
    BY <1>4
  <2>3. \E i \in DOMAIN events' : events'[i].category = h /\ events'[i].date <= end
    BY <1>2, <1>3, <1>4
  <2> QED
    BY <1>1, <1>4, <2>1, <2>2, <2>3, ConsiderKeeps
<1>6. /\ seen' = seen \cup {e}
      /\ lastAt' = [c \in DOMAIN lastAt \cup {h} |-> IF c = h THEN end ELSE lastAt[c]]
  BY DEF Emit
<1>7. \A i \in DOMAIN events : events[i].date <= end /\ events[i].date \in Nat
  <2> SUFFICES ASSUME NEW i \in DOMAIN events
               PROVE  events[i].date <= end /\ events[i].date \in Nat
    OBVIOUS
  <2>1. PICK j \in DOMAIN considered : events[i] = considered[j]
    BY DEF ReplayInv, Sourced
  <2> QED
    BY <1>3, <2>1 DEF ReplayInv, Sourced
<1> HIDE DEF h, e
<1>8. Recorded'
  <2>1. seen' = {events'[i] : i \in DOMAIN events'}
    <3>1. seen' \subseteq {events'[i] : i \in DOMAIN events'}
      BY <1>4, <1>6 DEF ReplayInv, Recorded
    <3>2. {events'[i] : i \in DOMAIN events'} \subseteq seen'
      BY <1>4, <1>6 DEF ReplayInv, Recorded
    <3> QED
      BY <3>1, <3>2
  <2>2. DOMAIN lastAt' = {events'[i].category : i \in DOMAIN events'}
    <3>1. DOMAIN lastAt' = DOMAIN lastAt \cup {h}
      BY <1>6
    <3>2. DOMAIN lastAt' \subseteq {events'[i].category : i \in DOMAIN events'}
      BY <1>2, <1>4, <3>1 DEF ReplayInv, Recorded
    <3>3. {events'[i].category : i \in DOMAIN events'} \subseteq DOMAIN lastAt'
      BY <1>2, <1>4, <3>1 DEF ReplayInv, Recorded
    <3> QED
      BY <3>2, <3>3
  <2>3. \A c \in DOMAIN lastAt' : [category |-> c, date |-> lastAt'[c]] \in seen'
    <3> SUFFICES ASSUME NEW c \in DOMAIN lastAt'
                 PROVE  [category |-> c, date |-> lastAt'[c]] \in seen'
      OBVIOUS
    <3>1. CASE c = h
      BY <1>2, <1>6, <3>1
    <3>2. CASE c # h
      <4>1. c \in DOMAIN lastAt /\ lastAt'[c] = lastAt[c]
        BY <1>6, <3>2
      <4> QED
        BY <1>6, <4>1 DEF ReplayInv, Recorded
    <3> QED
      BY <3>1, <3>2
  <2>4. \A i \in DOMAIN events' : events'[i].date <= lastAt'[events'[i].category]
    <3> SUFFICES ASSUME NEW i \in DOMAIN events'
                 PROVE  events'[i].date <= lastAt'[events'[i].category]
      OBVIOUS
    <3>1. CASE events'[i] = e
      BY <1>2, <1>3, <1>6, <3>1
    <3>2. CASE i \in DOMAIN events
      <4> DEFINE c == events[i].category
      <4>1. events'[i] = events[i] /\ c \in DOMAIN lastAt
        BY <1>4, <3>2 DEF ReplayInv, Recorded
      <4>2. lastAt'[c] = IF c = h THEN end ELSE lastAt[c]
        BY <1>6, <4>1
      <4>3. events[i].date <= lastAt[c]
        BY <3>2 DEF ReplayInv, Recorded
      <4> QED
        BY <1>7, <3>2, <4>1, <4>2, <4>3
    <3> QED
      BY <1>4, <3>1, <3>2
  <2> QED
    BY <2>1, <2>2, <2>3, <2>4 DEF Recorded
<1> QED
  BY <1>5, <1>8 DEF ReplayInv

LEMMA ReplayInvariant == Spec => []ReplayInv
<1>1. Init => ReplayInv
  BY InitReplay, BacktestAssumption
<1>2. ReplayInv /\ [Next]_vars => ReplayInv'
  <2> SUFFICES ASSUME ReplayInv, [Next]_vars PROVE ReplayInv'
    OBVIOUS
  <2>1. CASE Slice
    BY <2>1, SliceKeeps
  <2>2. CASE Skip
    BY <2>2, SkipKeeps, BacktestAssumption
  <2>3. CASE Emit
    BY <2>3, EmitKeeps
  <2>4. CASE UNCHANGED vars
    <3>1. /\ Points' = Points /\ MinimumPoints' = MinimumPoints /\ Events' = Events
          /\ \A n : Reported(n)' = Reported(n)
      BY <2>4, PointsStay DEF vars
    <3>2. Typed'
      BY <2>4, <3>1 DEF vars, ReplayInv, Typed
    <3>3. Recorded'
      BY <2>4 DEF vars, ReplayInv, Recorded
    <3>4. Sourced'
      BY <2>4, <3>1 DEF vars, ReplayInv, Sourced
    <3>5. Answered'
      BY <2>4, <3>1 DEF vars, ReplayInv, Answered
    <3> QED
      BY <3>2, <3>3, <3>4, <3>5 DEF ReplayInv
  <2> QED
    BY <2>1, <2>2, <2>3, <2>4 DEF Next
<1> QED
  BY <1>1, <1>2, PTL DEF Spec

(* Types, and the three records of one log.                                  *)
THEOREM TypeOKHolds == Spec => []TypeOK
<1>1. ReplayInv => TypeOK
  BY DEF ReplayInv, Typed, Recorded, TypeOK
<1> QED
  BY <1>1, ReplayInvariant, PTL

(* No report, for any series and any prefix of it, holds a rise and a fall,  *)
(* but for a long window whose last value is hot.                            *)
THEOREM NoContradictionHolds == Spec => []NoContradiction
<1>1. ReplayInv => NoContradiction
  <2> SUFFICES ASSUME ReplayInv,
                      NEW i \in DOMAIN considered, NEW j \in DOMAIN considered,
                      considered[i].date = considered[j].date,
                      considered[i].category \notin Falling,
                      considered[j].category \in Falling
               PROVE  considered[i].category = "historical_hot"
    BY DEF NoContradiction
  <2> DEFINE n == considered[i].date
  <2>1. timeframe \in Timeframes /\ Points \in Seq(Point) /\ end \in Nat
    BY PointsOfSeries DEF ReplayInv, Typed
  <2>2. /\ n \in 1 .. end /\ n <= Len(Points)
        /\ considered[i].category \in Reported(n)
        /\ considered[j].category \in Reported(n)
    BY DEF ReplayInv, Sourced
  <2>3. n \in 0 .. Len(Points)
    BY <2>1, <2>2
  <2> HIDE DEF n
  <2>4. Prefix(n) \in Seq(Point)
    BY <2>1, <2>3, PrefixOfPoints
  <2> QED
    BY <2>1, <2>2, <2>4, ReportCoherent DEF Reported
<1> QED
  BY <1>1, ReplayInvariant, PTL

(* A flat series below 85, of whatever length, has an empty log.             *)
THEOREM FlatIsQuietHolds == Spec => []FlatIsQuiet
<1>1. ReplayInv => FlatIsQuiet
  <2> SUFFICES ASSUME ReplayInv,
                      \A i, j \in DOMAIN series :
                         /\ Complete(series[i]) \/ timeframe = "now"
                         /\ Complete(series[j]) \/ timeframe = "now"
                         => series[i].value = series[j].value,
                      \A i \in DOMAIN Points : Points[i].value < 85,
                      events # << >>
               PROVE  FALSE
    BY DEF FlatIsQuiet
  <2>1. timeframe \in Timeframes /\ series \in Seq(Point) /\ end \in Nat
    BY DEF ReplayInv, Typed
  <2>2. /\ Points \in Seq(Point) /\ Len(Points) \in Nat /\ DOMAIN Points = 1 .. Len(Points)
        /\ \A i \in DOMAIN Points : \E j \in DOMAIN series :
              Points[i] = series[j] /\ (Complete(series[j]) \/ timeframe = "now")
    BY <2>1, PointsOfSeries
  <2>3. \A i, j \in 1 .. Len(Points) : Points[i].value = Points[j].value
    BY <2>2
  <2>4. 1 \in DOMAIN events
    BY DEF ReplayInv, Typed
  <2>5. PICK k \in DOMAIN considered : events[1] = considered[k]
    BY <2>4 DEF ReplayInv, Sourced
  <2> DEFINE n == considered[k].date
             v == Points[1].value
  <2>6. n \in 1 .. end /\ n <= Len(Points) /\ Reported(n) # {}
    BY DEF ReplayInv, Sourced
  <2>7. n \in 0 .. Len(Points) /\ 1 \in 1 .. Len(Points)
    BY <2>1, <2>2, <2>6
  <2>8. v \in Nat /\ v < 85
    BY <2>2, <2>7, Values
  <2> HIDE DEF n, v
  <2>9. /\ Prefix(n) \in Seq(Point) /\ Len(Prefix(n)) = n
        /\ \A i \in 1 .. n : Prefix(n)[i] = Points[i]
    BY <2>2, <2>7, PrefixOfPoints
  <2>10. \A i \in 1 .. Len(Prefix(n)) : Prefix(n)[i].value = v
    BY <2>2, <2>3, <2>7, <2>9 DEF v
  <2>11. Reported(n) = {}
    BY <2>1, <2>8, <2>9, <2>10, FlatReport DEF Reported
  <2> QED
    BY <2>6, <2>11
<1> QED
  BY <1>1, ReplayInvariant, PTL

(* A lasting jump is reported by its third point at the latest, wherever in  *)
(* a series of whatever length it begins.                                    *)
THEOREM JumpReportedHolds == Spec => []JumpReported
<1>1. ReplayInv => JumpReported
  <2> SUFFICES ASSUME ReplayInv,
                      NEW start \in 11 .. Len(Points) - 2,
                      timeframe = "now", todo = << >>, end >= start + 2,
                      \A i \in 1 .. start - 1 : Points[i].value = Points[1].value,
                      \A i \in start .. start + 2 :
                         /\ Points[i].value = Points[start].value
                         /\ 2 * Points[i].value >= 5 * Points[1].value
                         /\ Points[i].value - Points[1].value >= 15
               PROVE  \E i \in DOMAIN events :
                         /\ events[i].category = "sudden_spike"
                         /\ events[i].date \in start .. start + 2
    BY DEF JumpReported
  <2> DEFINE old == Points[1].value
             new == Points[start].value
             last == IF start + 1 < 27 THEN start + 1 ELSE start + 2
  <2>1. /\ Points \in Seq(Point) /\ Len(Points) \in Nat /\ end \in Nat
        /\ timeframe \in Timeframes
    BY PointsOfSeries DEF ReplayInv, Typed
  <2>2. /\ start \in Nat /\ start >= 11
        /\ last \in 1 .. Len(Points) /\ last \in 0 .. Len(Points)
        /\ last <= start + 2 /\ last <= end /\ start <= last
        /\ 1 \in 1 .. Len(Points) /\ start \in 1 .. Len(Points)
        /\ \/ last = start + 1 /\ last < 27
           \/ last = start + 2 /\ last >= 27
    BY <2>1
  <2>3. old \in Nat /\ new \in Nat
    BY <2>1, <2>2, Values
  <2>4. 2 * new >= 5 * old /\ new - old >= 15
    <3>1. start \in start .. start + 2
      BY <2>2
    <3> QED
      BY <3>1
  <2>5. \A i \in 1 .. start - 1 : Points[i].value = old
    OBVIOUS
  <2>6. \A i \in start .. last : Points[i].value = new
    <3>1. \A i \in start .. last : i \in start .. start + 2
      BY <2>2
    <3> QED
      BY <3>1
  <2> HIDE DEF old, new, last
  <2>7. "sudden_spike" \in Reported(last)
    <3> DEFINE points == Prefix(last)
    <3>1. /\ points \in Seq(Point) /\ Len(points) = last
          /\ \A i \in 1 .. last : points[i] = Points[i]
      BY <2>1, <2>2, PrefixOfPoints
    <3> HIDE DEF points
    <3>2. \A i \in 1 .. start - 1 : points[i].value = old
      BY <2>2, <2>5, <3>1
    <3>3. \A i \in start .. Len(points) : points[i].value = new
      BY <2>2, <2>6, <3>1
    <3>4. \/ Len(points) = start + 1 /\ Len(points) < 27
          \/ Len(points) = start + 2 /\ Len(points) >= 27
      BY <2>2, <3>1
    <3>5. "sudden_spike" \in ToSet(Report(points, "now"))
      <4>1. JumpsAt(points, start, old, new)
        BY <2>2, <2>3, <2>4, <3>1, <3>2, <3>3, <3>4 DEF JumpsAt
      <4> QED
        BY <4>1, JumpReportedAtOnce
    <3> QED
      BY <3>5 DEF Reported, points
  <2>8. PICK i \in DOMAIN events : events[i].category = "sudden_spike" /\ events[i].date <= last
    <3>1. ~(last > end) /\ DOMAIN todo = {}
      BY <2>1, <2>2
    <3> QED
      BY <2>2, <2>7, <3>1 DEF ReplayInv, Answered
  <2> DEFINE n == events[i].date
  <2>9. n \in 1 .. end /\ n <= Len(Points) /\ "sudden_spike" \in Reported(n)
    <3>1. PICK k \in DOMAIN considered : events[i] = considered[k]
      BY DEF ReplayInv, Sourced
    <3> QED
      BY <2>8, <3>1 DEF ReplayInv, Sourced
  <2>10. n <= last
    BY <2>8
  <2> HIDE DEF n
  <2>11. n >= start
    <3> SUFFICES ASSUME n < start PROVE FALSE
      BY <2>1, <2>2, <2>9
    <3>1. n \in 0 .. Len(Points) /\ \A k \in 1 .. n : k \in 1 .. start - 1
      BY <2>1, <2>2, <2>9
    <3>2. /\ Prefix(n) \in Seq(Point) /\ Len(Prefix(n)) = n
          /\ \A k \in 1 .. n : Prefix(n)[k] = Points[k]
      BY <2>1, <3>1, PrefixOfPoints
    <3>3. \A k \in 1 .. Len(Prefix(n)) : Prefix(n)[k].value = old
      BY <2>5, <3>1, <3>2
    <3>4. Reported(n) \subseteq {"window_breakout", "historical_hot"}
      BY <2>1, <2>3, <3>2, <3>3, FlatReport DEF Reported
    <3> QED
      BY <2>9, <3>4
  <2>12. n \in start .. start + 2
    BY <2>1, <2>2, <2>9, <2>10, <2>11
  <2> QED
    BY <2>8, <2>12 DEF n
<1> QED
  BY <1>1, ReplayInvariant, PTL

-----------------------------------------------------------------------------
(* The log of the live program. *)

(* Admit and LiveLog with the timeframe for a parameter.                     *)
Blocked(tf, log, event) ==
    \E i \in DOMAIN log :
       /\ log[i].category = event.category
       /\ \/ log[i].date = event.date
          \/ /\ CooldownHours(event.category) > 0
             /\ (event.date - log[i].date) * Hours[tf]
                    <= CooldownHours(event.category)

AdmitTo(tf, log, event) == IF Blocked(tf, log, event) THEN log ELSE Append(log, event)

IsLog(log, tf, candidates, S) ==
    /\ log \in [0 .. Len(candidates) -> Seq(S)]
    /\ log[0] = << >>
    /\ \A n \in 1 .. Len(candidates) : log[n] = AdmitTo(tf, log[n - 1], candidates[n])

LogOf(tf, candidates) ==
    LET log[n \in 0 .. Len(candidates)] ==
            IF n = 0 THEN << >> ELSE AdmitTo(tf, log[n - 1], candidates[n])
    IN  log[Len(candidates)]

LEMMA LiveLogIs ==
    ASSUME NEW candidates PROVE LiveLog(candidates) = LogOf(timeframe, candidates)
  BY DEF LiveLog, LogOf, Admit, AdmitTo, Blocked

StepOf(tf, candidates, S) ==
    [p \in (1 .. Len(candidates)) \X Seq(S) |-> AdmitTo(tf, p[2], candidates[p[1]])]

LEMMA LogRuns ==
    ASSUME NEW tf, NEW S, NEW candidates \in Seq(S)
    PROVE  \E log : /\ IsRun(log, Len(candidates), Seq(S), << >>, StepOf(tf, candidates, S))
                    /\ LogOf(tf, candidates) = log[Len(candidates)]
<1> DEFINE N == Len(candidates)
           X == Seq(S)
           base == << >>
           Step(f, n) == AdmitTo(tf, f[n - 1], candidates[n])
           Rec(f) == f = [n \in 0 .. N |-> IF n = 0 THEN base ELSE Step(f, n)]
           log == CHOOSE f : Rec(f)
           step == StepOf(tf, candidates, S)
<1>1. N \in Nat /\ base \in X /\ \A n \in 1 .. N : candidates[n] \in S
  OBVIOUS
<1>2. IsStep(step, N, X)
  <2>1. \A n \in 1 .. N : \A x \in X : AdmitTo(tf, x, candidates[n]) \in X
    BY <1>1 DEF AdmitTo
  <2> QED
    BY <2>1 DEF IsStep, StepOf
<1>3. \A f : \A n \in 1 .. N : f[n - 1] \in X => step[<<n, f[n - 1]>>] = Step(f, n)
  BY DEF StepOf
<1>4. LogOf(tf, candidates) = log[N]
  BY DEF LogOf
<1> HIDE DEF step, N, X, base, Step
<1>5. PICK f : IsRun(f, N, X, base, step)
  BY <1>1, <1>2, RunExists
<1>6. \A n \in 1 .. N : f[n] = Step(f, n)
  <2> SUFFICES ASSUME NEW n \in 1 .. N PROVE f[n] = Step(f, n)
    OBVIOUS
  <2>1. n - 1 \in 0 .. N
    BY <1>1
  <2>2. f[n - 1] \in X
    BY <1>5, <2>1 DEF IsRun
  <2> QED
    BY <1>3, <1>5, <2>2 DEF IsRun
<1>7. Rec(f)
  BY <1>1, <1>5, <1>6 DEF IsRun
<1>8. Rec(log)
  BY <1>7
<1> HIDE DEF log
<1>9. IsRun(log, N, X, base, step)
  <2>1. log[0] = base /\ \A n \in 1 .. N : log[n] = Step(log, n)
    BY <1>1, <1>8
  <2>2. log = [n \in 0 .. N |-> log[n]]
    BY <1>8
  <2>3. \A n \in 1 .. N : log[n - 1] \in X => log[n] = step[<<n, log[n - 1]>>]
    BY <1>3, <2>1
  <2> QED
    BY <1>1, <1>2, <2>1, <2>2, <2>3, RunTyped
<1> QED
  BY <1>4, <1>9 DEF N, X, base, step

(* One more candidate goes to the log as it was.                             *)
LEMMA LogGrows ==
    ASSUME NEW tf, NEW S, NEW candidates \in Seq(S), NEW e \in S
    PROVE  LogOf(tf, Append(candidates, e)) = AdmitTo(tf, LogOf(tf, candidates), e)
<1> DEFINE more == Append(candidates, e)
           N == Len(candidates)
           X == Seq(S)
           base == << >>
           step == StepOf(tf, candidates, S)
           other == StepOf(tf, more, S)
<1>1. /\ N \in Nat /\ more \in Seq(S) /\ Len(more) = N + 1
      /\ \A n \in 1 .. N : more[n] = candidates[n]
      /\ more[N + 1] = e
  OBVIOUS
<1> HIDE DEF more
<1>2. PICK f : IsRun(f, N, X, base, step) /\ LogOf(tf, candidates) = f[N]
  BY LogRuns
<1>3. PICK g : IsRun(g, N + 1, X, base, other) /\ LogOf(tf, more) = g[N + 1]
  BY <1>1, LogRuns
<1>4. \A n \in 1 .. N : \A x \in X : step[<<n, x>>] = other[<<n, x>>]
  BY <1>1 DEF StepOf
<1>5. \A x \in X : other[<<N + 1, x>>] = AdmitTo(tf, x, e)
  BY <1>1 DEF StepOf
<1> HIDE DEF N, X, base, step, other
<1>6. f[N] = g[N]
  BY <1>1, <1>2, <1>3, <1>4, RunsAgree
<1>7. N + 1 \in 1 .. N + 1 /\ (N + 1) - 1 = N /\ N \in 0 .. N + 1
  BY <1>1
<1>8. g[N + 1] = other[<<N + 1, g[N]>>] /\ g[N] \in X
  BY <1>3, <1>7 DEF IsRun
<1> QED
  BY <1>2, <1>3, <1>5, <1>6, <1>8 DEF more

LEMMA LogOfNone == ASSUME NEW tf PROVE LogOf(tf, << >>) = << >>
<1> DEFINE none == << >>
<1>1. none \in Seq({}) /\ Len(none) = 0
  OBVIOUS
<1> HIDE DEF none
<1>2. PICK f : /\ IsRun(f, Len(none), Seq({}), << >>, StepOf(tf, none, {}))
               /\ LogOf(tf, none) = f[Len(none)]
  BY <1>1, LogRuns
<1>3. LogOf(tf, none) = << >>
  BY <1>1, <1>2 DEF IsRun
<1> QED
  BY <1>3 DEF none

-----------------------------------------------------------------------------
(* The rules on all the prefixes. *)

(* What the rules report for the first n points, dated.                      *)
Dated(points, tf, n) ==
    LET report == Report(SubSeq(points, 1, n), tf)
    IN  [i \in DOMAIN report |-> [category |-> report[i], date |-> n]]

(* The function that Candidates defines, and its last value.                 *)
AllDated(points, tf) ==
    LET all[n \in 0 .. Len(points)] ==
            IF n = 0 THEN << >> ELSE all[n - 1] \o Dated(points, tf, n)
    IN  all

LEMMA CandidatesAre ==
    Candidates = AllDated(Points, timeframe)[IF end > Len(Points) THEN Len(Points) ELSE end]
  BY DEF Candidates, AllDated, Dated

LEMMA AllDatedRuns ==
    ASSUME NEW points, NEW tf, NEW S, Len(points) \in Nat,
           \A n \in 1 .. Len(points) : Dated(points, tf, n) \in Seq(S)
    PROVE  /\ AllDated(points, tf) \in [0 .. Len(points) -> Seq(S)]
           /\ AllDated(points, tf)[0] = << >>
           /\ \A n \in 1 .. Len(points) :
                 AllDated(points, tf)[n] = AllDated(points, tf)[n - 1] \o Dated(points, tf, n)
<1> DEFINE N == Len(points)
           X == Seq(S)
           base == << >>
           Step(f, n) == f[n - 1] \o Dated(points, tf, n)
           Rec(f) == f = [n \in 0 .. N |-> IF n = 0 THEN base ELSE Step(f, n)]
           all == CHOOSE f : Rec(f)
           step == [p \in (1 .. N) \X X |-> p[2] \o Dated(points, tf, p[1])]
<1>1. N \in Nat /\ base \in X
  OBVIOUS
<1>2. IsStep(step, N, X)
  <2>1. \A n \in 1 .. N : \A x \in X : x \o Dated(points, tf, n) \in X
    OBVIOUS
  <2> QED
    BY <2>1 DEF IsStep
<1>3. \A f : \A n \in 1 .. N : f[n - 1] \in X => step[<<n, f[n - 1]>>] = Step(f, n)
  OBVIOUS
<1>4. AllDated(points, tf) = all
  BY DEF AllDated
<1> HIDE DEF step, N, X, base, Step
<1>5. PICK f : IsRun(f, N, X, base, step)
  BY <1>1, <1>2, RunExists
<1>6. \A n \in 1 .. N : f[n] = Step(f, n)
  <2> SUFFICES ASSUME NEW n \in 1 .. N PROVE f[n] = Step(f, n)
    OBVIOUS
  <2>1. n - 1 \in 0 .. N
    BY <1>1
  <2>2. f[n - 1] \in X
    BY <1>5, <2>1 DEF IsRun
  <2> QED
    BY <1>3, <1>5, <2>2 DEF IsRun
<1>7. Rec(f)
  BY <1>1, <1>5, <1>6 DEF IsRun
<1>8. Rec(all)
  BY <1>7
<1> HIDE DEF all
<1>9. all[0] = base /\ \A n \in 1 .. N : all[n] = Step(all, n)
  BY <1>1, <1>8
<1>10. IsRun(all, N, X, base, step)
  <2>1. all = [n \in 0 .. N |-> all[n]]
    BY <1>8
  <2>2. \A n \in 1 .. N : all[n - 1] \in X => all[n] = step[<<n, all[n - 1]>>]
    BY <1>3, <1>9
  <2> QED
    BY <1>1, <1>2, <1>9, <2>1, <2>2, RunTyped
<1> QED
  BY <1>4, <1>9, <1>10 DEF IsRun, N, X, base, Step

Occurrence == [category : Categories(timeframe), date : Nat]

(* Prefixes that are too short add nothing.                                  *)
LEMMA DatedTyped ==
    ASSUME timeframe \in Timeframes, Points \in Seq(Point), NEW n \in 0 .. Len(Points)
    PROVE  /\ Dated(Points, timeframe, n) \in Seq(Occurrence)
           /\ n < MinimumPoints => Dated(Points, timeframe, n) = << >>
<1> DEFINE report == Report(Prefix(n), timeframe)
<1>1. /\ report \in Seq(Categories(timeframe))
      /\ n < MinimumPoints => report = << >>
  BY ReportedTyped
<1>2. Dated(Points, timeframe, n) = [i \in DOMAIN report |-> [category |-> report[i], date |-> n]]
  BY DEF Dated, Prefix
<1> HIDE DEF report
<1>3. \A i \in DOMAIN report : [category |-> report[i], date |-> n] \in Occurrence
  BY <1>1 DEF Occurrence
<1> QED
  BY <1>1, <1>2, <1>3

LEMMA AllDatedGrows ==
    ASSUME timeframe \in Timeframes, Points \in Seq(Point)
    PROVE  LET all == AllDated(Points, timeframe)
           IN  /\ all \in [0 .. Len(Points) -> Seq(Occurrence)]
               /\ \A n \in 1 .. Len(Points) : all[n] = all[n - 1] \o Dated(Points, timeframe, n)
               /\ \A n \in 0 .. Len(Points) : n < MinimumPoints => all[n] = << >>
<1> DEFINE all == AllDated(Points, timeframe)
           none == << >>
<1>1. Len(Points) \in Nat /\ MinimumPoints \in Nat \ {0}
  BY DEF MinimumPoints, Timeframes
<1>2. \A n \in 1 .. Len(Points) :
         /\ Dated(Points, timeframe, n) \in Seq(Occurrence)
         /\ n < MinimumPoints => Dated(Points, timeframe, n) = none
  BY DatedTyped
<1>3. /\ all \in [0 .. Len(Points) -> Seq(Occurrence)]
      /\ all[0] = none
      /\ \A n \in 1 .. Len(Points) : all[n] = all[n - 1] \o Dated(Points, timeframe, n)
  BY <1>1, <1>2, AllDatedRuns
<1>4. none \o none = none
  OBVIOUS
<1> HIDE DEF all, none
<1> DEFINE S == {n \in Nat : n <= Len(Points) /\ n < MinimumPoints => all[n] = none}
<1>5. 0 \in S
  BY <1>3
<1>6. ASSUME NEW n \in Nat, n \in S PROVE n + 1 \in S
  <2> SUFFICES ASSUME n + 1 <= Len(Points), n + 1 < MinimumPoints PROVE all[n + 1] = none
    OBVIOUS
  <2> DEFINE m == n + 1
  <2>1. m \in 1 .. Len(Points) /\ m < MinimumPoints /\ m - 1 = n /\ all[n] = none
    BY <1>1, <1>6
  <2> HIDE DEF m
  <2>2. all[m] = none \o none
    BY <1>2, <1>3, <2>1
  <2> QED
    BY <1>4, <2>2 DEF m
<1>7. Nat \subseteq S
  <2> HIDE DEF S
  <2> QED
    BY <1>5, <1>6, Induction
<1>8. \A n \in 0 .. Len(Points) : n < MinimumPoints => all[n] = none
  BY <1>7
<1> QED
  BY <1>3, <1>8 DEF all, none

-----------------------------------------------------------------------------
(* The replay keeps up with them: what it has considered and what it has yet *)
(* to consider are the candidates, and its log is the live program's.        *)
Coming == [i \in DOMAIN todo |-> Event(todo[i])]

Reach == IF end > Len(Points) THEN Len(Points) ELSE end

Listed == considered \o Coming = AllDated(Points, timeframe)[Reach]

Apart ==
    \A i, j \in DOMAIN considered :
       /\ considered[i].category = considered[j].category
       /\ considered[i].date < considered[j].date
       => (considered[j].date - considered[i].date) * Hours[timeframe]
             # CooldownHours(considered[i].category)

Logged == Apart => events = LogOf(timeframe, considered)

AgreeInv == ReplayInv /\ Listed /\ Logged

LEMMA MovedOver ==
    ASSUME NEW S, NEW s \in Seq(S), NEW t \in Seq(S), t # << >>
    PROVE  Append(s, Head(t)) \o Tail(t) = s \o t
<1> DEFINE l == Append(s, Head(t)) \o Tail(t)
           r == s \o t
<1>1. /\ Head(t) \in S /\ Tail(t) \in Seq(S) /\ Len(Tail(t)) = Len(t) - 1
      /\ Head(t) = t[1] /\ Len(t) \in Nat \ {0} /\ Len(s) \in Nat
      /\ \A i \in 1 .. Len(Tail(t)) : Tail(t)[i] = t[i + 1]
  BY HeadTailProperties
<1>2. l \in Seq(S) /\ r \in Seq(S) /\ Len(l) = Len(s) + Len(t) /\ Len(r) = Len(s) + Len(t)
  BY <1>1
<1>3. ASSUME NEW i \in 1 .. Len(s) + Len(t) PROVE l[i] = r[i]
  <2>1. CASE i <= Len(s)
    BY <1>1, <2>1
  <2>2. CASE i = Len(s) + 1
    BY <1>1, <2>2
  <2>3. CASE i > Len(s) + 1
    <3> DEFINE k == i - (Len(s) + 1)
    <3>1. k \in 1 .. Len(Tail(t)) /\ i = Len(s) + 1 + k /\ k + 1 = i - Len(s)
      BY <1>1, <2>3
    <3>2. l[i] = Tail(t)[k]
      BY <1>1, <2>3, <3>1
    <3>3. r[i] = t[k + 1]
      BY <1>1, <2>3, <3>1
    <3> QED
      BY <1>1, <3>1, <3>2, <3>3
  <2> QED
    BY <1>1, <2>1, <2>2, <2>3
<1> HIDE DEF l, r
<1>4. l = r
  BY <1>1, <1>2, <1>3, SeqEqual
<1> QED
  BY <1>4 DEF l, r

LEMMA ComingTyped ==
    ASSUME Typed
    PROVE  /\ Coming \in Seq(Occurrence)
           /\ todo = << >> => Coming = << >>
           /\ todo # << >> => /\ Coming # << >>
                              /\ Head(Coming) = Event(Head(todo))
                              /\ Tail(Coming) = [i \in DOMAIN Tail(todo) |-> Event(Tail(todo)[i])]
<1>1. /\ todo \in Seq(Categories(timeframe)) /\ end \in Nat
      /\ DOMAIN todo = 1 .. Len(todo) /\ Len(todo) \in Nat
  BY DEF Typed
<1>2. \A c \in Categories(timeframe) : Event(c) \in Occurrence
  BY <1>1 DEF Event, Occurrence
<1>3. Coming \in Seq(Occurrence) /\ Len(Coming) = Len(todo)
  BY <1>1, <1>2 DEF Coming
<1>4. todo = << >> => Coming = << >>
  BY DEF Coming
<1>5. ASSUME todo # << >>
      PROVE  /\ Coming # << >>
             /\ Head(Coming) = Event(Head(todo))
             /\ Tail(Coming) = [i \in DOMAIN Tail(todo) |-> Event(Tail(todo)[i])]
  <2> DEFINE rest == [i \in DOMAIN Tail(todo) |-> Event(Tail(todo)[i])]
  <2>1. /\ Len(todo) # 0 /\ Head(todo) = todo[1] /\ 1 \in DOMAIN todo
        /\ Len(Tail(todo)) = Len(todo) - 1
        /\ DOMAIN Tail(todo) = 1 .. Len(todo) - 1
        /\ \A i \in 1 .. Len(todo) - 1 : Tail(todo)[i] = todo[i + 1] /\ i + 1 \in DOMAIN todo
    <3>1. Tail(todo) \in Seq(Categories(timeframe)) /\ Len(Tail(todo)) = Len(todo) - 1
      BY <1>1, <1>5, HeadTailProperties
    <3> QED
      BY <1>1, <1>5, <3>1
  <2>2. /\ Coming # << >> /\ Len(Tail(Coming)) = Len(todo) - 1
        /\ Tail(Coming) \in Seq(Occurrence) /\ Head(Coming) = Coming[1]
        /\ \A i \in 1 .. Len(todo) - 1 : Tail(Coming)[i] = Coming[i + 1]
    BY <1>1, <1>3, <2>1, HeadTailProperties
  <2>3. Head(Coming) = Event(Head(todo))
    BY <2>1, <2>2 DEF Coming
  <2>4. \A i \in 1 .. Len(todo) - 1 : Tail(Coming)[i] = rest[i]
    BY <2>1, <2>2 DEF Coming
  <2>5. Tail(Coming) = rest
    <3> DEFINE tail == Tail(Coming)
               m == Len(todo) - 1
    <3>1. tail \in Seq(Occurrence) /\ Len(tail) = m
      BY <2>2
    <3>2. rest = [i \in 1 .. m |-> rest[i]]
      BY <2>1
    <3> HIDE DEF tail, m, rest
    <3>3. tail = [i \in 1 .. m |-> tail[i]]
      BY <3>1
    <3> QED
      BY <2>4, <3>2, <3>3 DEF tail, m
  <2> QED
    BY <2>2, <2>3, <2>5
<1> QED
  BY <1>3, <1>4, <1>5

LEMMA InitAgrees ==
    ASSUME Init, BacktestAssumption PROVE AgreeInv
<1>1. ReplayInv
  BY InitReplay
<1>2. timeframe \in Timeframes /\ Points \in Seq(Point) /\ end \in Nat
  BY <1>1, PointsOfSeries DEF ReplayInv, Typed
<1>3. MinimumPoints \in Nat \ {0} /\ end = MinimumPoints - 1
  BY <1>2 DEF Init, MinimumPoints, Timeframes
<1>4. Reach \in 0 .. Len(Points) /\ Reach < MinimumPoints
  BY <1>2, <1>3 DEF Reach
<1>5. AllDated(Points, timeframe)[Reach] = << >>
  BY <1>2, <1>4, AllDatedGrows
<1>6. Coming = << >> /\ considered = << >> /\ events = << >>
  BY DEF Init, Coming
<1>7. Listed
  <2>1. << >> \o << >> = << >>
    OBVIOUS
  <2> QED
    BY <1>5, <1>6, <2>1 DEF Listed
<1>8. Logged
  BY <1>6, LogOfNone DEF Logged
<1> QED
  BY <1>1, <1>7, <1>8 DEF AgreeInv

LEMMA OccurrencesTyped ==
    ASSUME Typed PROVE considered \in Seq(Occurrence)
<1>1. series \in Seq(Point) /\ considered \in Seq(Events)
  BY DEF Typed
<1>2. Events \subseteq Occurrence
  BY <1>1 DEF Events, Occurrence
<1> QED
  BY <1>1, <1>2

LEMMA SliceAgrees ==
    ASSUME AgreeInv, Slice PROVE Listed' /\ Logged'
<1>1. Typed
  BY DEF AgreeInv, ReplayInv
<1>2. Points' = Points /\ timeframe' = timeframe /\ considered' = considered /\ events' = events
  BY PointsStay DEF Slice
<1>3. Points \in Seq(Point) /\ timeframe \in Timeframes /\ end \in Nat
  BY <1>1, PointsOfSeries DEF Typed
<1> DEFINE all == AllDated(Points, timeframe)
           m == end + 1
<1>4. /\ end' = m /\ m \in 1 .. Len(Points) /\ m - 1 = end
      /\ Reach = end /\ Reach' = m
  BY <1>2, <1>3 DEF Slice, Reach
<1>5. Coming = << >>
  BY <1>1, ComingTyped DEF Slice
<1>6. Coming' = Dated(Points, timeframe, m)
  <2>1. todo' = Report(SubSeq(Points, 1, m), timeframe)
    BY DEF Slice
  <2>2. Coming' = [i \in DOMAIN todo' |-> [category |-> todo'[i], date |-> m]]
    BY <1>4 DEF Coming, Event
  <2> QED
    BY <2>1, <2>2 DEF Dated
<1> HIDE DEF m
<1>7. all[m] = all[end] \o Dated(Points, timeframe, m)
  BY <1>3, <1>4, AllDatedGrows
<1>8. considered = all[end]
  <2>1. considered \o << >> = considered
    BY <1>1, OccurrencesTyped
  <2> QED
    BY <1>4, <1>5, <2>1 DEF AgreeInv, Listed
<1>9. Listed'
  BY <1>2, <1>4, <1>6, <1>7, <1>8 DEF Listed
<1>10. Logged'
  BY <1>2 DEF AgreeInv, Logged, Apart
<1> QED
  BY <1>9, <1>10

LEMMA ConsiderLists ==
    ASSUME AgreeInv, Consider PROVE Listed'
<1>1. Typed /\ todo # << >>
  BY DEF AgreeInv, ReplayInv, Consider
<1>2. Points' = Points /\ timeframe' = timeframe /\ end' = end
  BY PointsStay DEF Consider
<1>3. Reach' = Reach
  BY <1>2 DEF Reach
<1>4. /\ Coming \in Seq(Occurrence) /\ Coming # << >>
      /\ Head(Coming) = Event(Head(todo))
      /\ Tail(Coming) = [i \in DOMAIN Tail(todo) |-> Event(Tail(todo)[i])]
  BY <1>1, ComingTyped
<1>5. Coming' = Tail(Coming)
  <2>1. todo' = Tail(todo)
    BY DEF Consider
  <2>2. Coming' = [i \in DOMAIN todo' |-> [category |-> todo'[i], date |-> end]]
    BY <1>2 DEF Coming, Event
  <2> QED
    BY <1>4, <2>1, <2>2 DEF Event
<1>6. considered' = Append(considered, Head(Coming))
  BY <1>4 DEF Consider
<1>7. considered \in Seq(Occurrence)
  BY <1>1, OccurrencesTyped
<1>8. considered' \o Coming' = considered \o Coming
  BY <1>4, <1>5, <1>6, <1>7, MovedOver
<1> QED
  BY <1>2, <1>3, <1>8 DEF AgreeInv, Listed

(* The replay's cooldown is the live program's, but for candidates exactly   *)
(* the cooldown apart: lastAt holds the date of the last event of a category *)
(* and seen its events.                                                      *)
LEMMA CooldownsAgree ==
    ASSUME ReplayInv, todo # << >>, BacktestAssumption,
           \A j \in DOMAIN considered :
              /\ considered[j].category = Head(todo)
              /\ considered[j].date < end
              => (end - considered[j].date) * Hours[timeframe] # CooldownHours(Head(todo))
    PROVE  InReplay(Head(todo)) <=> Blocked(timeframe, events, Event(Head(todo)))
<1> DEFINE h == Head(todo)
           H == Hours[timeframe]
           C == CooldownHours(h)
           zero == 0
<1>1. /\ Event(h) = [category |-> h, date |-> end]
      /\ end \in Nat /\ H \in Nat \ {0} /\ C \in Nat
  BY DEF Event, ReplayInv, Typed, BacktestAssumption, CooldownHours
<1>2. \A i \in DOMAIN events : events[i].date \in Nat /\ events[i].date <= end
  <2> SUFFICES ASSUME NEW i \in DOMAIN events
               PROVE  events[i].date \in Nat /\ events[i].date <= end
    OBVIOUS
  <2>1. PICK j \in DOMAIN considered : events[i] = considered[j]
    BY DEF ReplayInv, Sourced
  <2> QED
    BY <1>1, <2>1 DEF ReplayInv, Sourced
<1>3. InReplay(h) <=> \/ [category |-> h, date |-> end] \in seen
                      \/ h \in DOMAIN lastAt /\ (end - lastAt[h]) * H < C
  BY DEF InReplay, Event, Elapsed
<1>4. Blocked(timeframe, events, Event(h)) <=>
        \E i \in DOMAIN events :
           /\ events[i].category = h
           /\ \/ events[i].date = end
              \/ C > 0 /\ (end - events[i].date) * H <= C
  BY DEF Blocked, Event
<1>5. h \in DOMAIN lastAt =>
        \E i \in DOMAIN events : events[i] = [category |-> h, date |-> lastAt[h]]
  BY DEF ReplayInv, Recorded
<1>6. \A i \in DOMAIN events : events[i].category = h =>
        h \in DOMAIN lastAt /\ events[i].date <= lastAt[h]
  BY DEF ReplayInv, Recorded
<1>7. /\ \A e \in seen : \E i \in DOMAIN events : events[i] = e
      /\ \A i \in DOMAIN events : events[i] \in seen
  BY DEF ReplayInv, Recorded
<1>8. \A j \in DOMAIN considered :
        considered[j].category = h /\ considered[j].date < end
        => (end - considered[j].date) * H # C
  OBVIOUS
<1>9. zero \in Int /\ zero = 0
  OBVIOUS
<1> HIDE DEF h, H, C, zero
<1>10. ASSUME InReplay(h)
       PROVE  \E i \in DOMAIN events :
                 /\ events[i].category = h
                 /\ \/ events[i].date = end
                    \/ C > 0 /\ (end - events[i].date) * H <= C
  <2>1. CASE [category |-> h, date |-> end] \in seen
    BY <1>7, <2>1
  <2>2. CASE h \in DOMAIN lastAt /\ (end - lastAt[h]) * H < C
    <3>1. PICK i \in DOMAIN events : events[i] = [category |-> h, date |-> lastAt[h]]
      BY <1>5, <2>2
    <3>2. events[i].category = h /\ events[i].date = lastAt[h]
      BY <3>1
    <3> DEFINE d == end - lastAt[h]
    <3>3. d \in Int /\ zero <= d
      BY <1>1, <1>2, <1>9, <3>2
    <3> HIDE DEF d
    <3>4. zero * H <= d * H /\ zero * H = 0 /\ d * H \in Int
      <4>1. zero * H = 0
        BY <1>1, <1>9
      <4>2. d * H \in Int
        BY <1>1, <3>3
      <4> QED
        BY <1>1, <1>9, <3>3, <4>1, <4>2, Monotone
    <3>5. d * H < C
      BY <2>2 DEF d
    <3>6. C > 0 /\ d * H <= C
      BY <1>1, <3>4, <3>5
    <3> QED
      BY <3>2, <3>6 DEF d
  <2> QED
    BY <1>3, <1>10, <2>1, <2>2
<1>11. ASSUME NEW i \in DOMAIN events, events[i].category = h,
              \/ events[i].date = end
              \/ C > 0 /\ (end - events[i].date) * H <= C
       PROVE  InReplay(h)
  <2>1. h \in DOMAIN lastAt /\ events[i].date <= lastAt[h]
    BY <1>6, <1>11
  <2>2. PICK k \in DOMAIN events : events[k] = [category |-> h, date |-> lastAt[h]]
    BY <1>5, <2>1
  <2>3. events[k].category = h /\ events[k].date = lastAt[h] /\ events[k] \in seen
    BY <1>7, <2>2
  <2>4. lastAt[h] \in Nat /\ lastAt[h] <= end /\ events[i].date \in Nat
    BY <1>2, <2>3
  <2>5. CASE lastAt[h] = end
    BY <1>3, <2>2, <2>3, <2>5
  <2>6. CASE lastAt[h] < end
    <3> DEFINE d == end - lastAt[h]
               x == end - events[i].date
    <3>1. d \in Int /\ x \in Int /\ d <= x
      BY <1>1, <2>1, <2>4
    <3>2. x * H <= C
      BY <1>1, <1>11, <2>1, <2>4, <2>6
    <3> HIDE DEF d, x
    <3>3. d * H <= x * H /\ d * H \in Int /\ x * H \in Int
      BY <1>1, <3>1, Monotone
    <3>4. d * H # C
      <4>1. PICK j \in DOMAIN considered : events[k] = considered[j]
        BY DEF ReplayInv, Sourced
      <4> QED
        BY <1>8, <2>3, <2>6, <4>1 DEF d
    <3>5. d * H < C
      BY <1>1, <3>2, <3>3, <3>4
    <3> QED
      BY <1>3, <2>1, <3>5 DEF d
  <2> QED
    BY <1>1, <2>4, <2>5, <2>6
<1>12. InReplay(h) <=> \E i \in DOMAIN events :
                 /\ events[i].category = h
                 /\ \/ events[i].date = end
                    \/ C > 0 /\ (end - events[i].date) * H <= C
  BY <1>10, <1>11
<1>13. InReplay(h) <=> Blocked(timeframe, events, Event(h))
  BY <1>4, <1>12
<1> QED
  BY <1>13 DEF h

(* What the last candidate may be apart from, and that those before it were  *)
(* apart already.                                                            *)
LEMMA ApartBefore ==
    ASSUME ReplayInv, Consider, Apart'
    PROVE  /\ Apart
           /\ \A j \in DOMAIN considered :
                 /\ considered[j].category = Head(todo)
                 /\ considered[j].date < end
                 => (end - considered[j].date) * Hours[timeframe] # CooldownHours(Head(todo))
<1> DEFINE e == Event(Head(todo))
           new == Append(considered, e)
<1>1. e \in Events /\ e.category = Head(todo) /\ e.date = end
  BY EventTyped DEF Consider, ReplayInv
<1>2. /\ \A i \in DOMAIN considered : i \in DOMAIN new /\ new[i] = considered[i]
      /\ Len(considered) + 1 \in DOMAIN new
      /\ new[Len(considered) + 1] = e
  BY <1>1, Appended DEF ReplayInv, Typed
<1>3. considered' = new /\ timeframe' = timeframe
  BY DEF Consider
<1> HIDE DEF e, new
<1>4. \A i, j \in DOMAIN new :
         /\ new[i].category = new[j].category
         /\ new[i].date < new[j].date
         => (new[j].date - new[i].date) * Hours[timeframe] # CooldownHours(new[i].category)
  BY <1>3 DEF Apart
<1>5. Apart
  BY <1>2, <1>4 DEF Apart
<1> QED
  BY <1>1, <1>2, <1>4, <1>5

LEMMA SkipAgrees ==
    ASSUME AgreeInv, Skip, BacktestAssumption PROVE Listed' /\ Logged'
<1>1. Consider /\ ReplayInv /\ todo # << >> /\ InReplay(Head(todo))
  BY DEF Skip, Consider, AgreeInv
<1>2. Listed'
  BY <1>1, ConsiderLists
<1>3. Logged'
  <2> SUFFICES ASSUME Apart' PROVE events' = LogOf(timeframe', considered')
    BY DEF Logged
  <2> DEFINE e == Event(Head(todo))
  <2>1. Apart /\ Blocked(timeframe, events, e)
    BY <1>1, ApartBefore, CooldownsAgree
  <2>2. e \in Events /\ considered \in Seq(Events)
    BY <1>1, EventTyped DEF ReplayInv, Typed
  <2>3. /\ events' = events /\ timeframe' = timeframe
        /\ considered' = Append(considered, e)
    BY DEF Skip
  <2> HIDE DEF e
  <2>4. events = LogOf(timeframe, considered)
    BY <2>1 DEF AgreeInv, Logged
  <2>5. LogOf(timeframe, considered') = AdmitTo(timeframe, events, e)
    BY <2>2, <2>3, <2>4, LogGrows
  <2>6. AdmitTo(timeframe, events, e) = events
    BY <2>1 DEF AdmitTo
  <2> QED
    BY <2>3, <2>5, <2>6
<1> QED
  BY <1>2, <1>3

LEMMA EmitAgrees ==
    ASSUME AgreeInv, Emit, BacktestAssumption PROVE Listed' /\ Logged'
<1>1. Consider /\ ReplayInv /\ todo # << >> /\ ~InReplay(Head(todo))
  BY DEF Emit, Consider, AgreeInv
<1>2. Listed'
  BY <1>1, ConsiderLists
<1>3. Logged'
  <2> SUFFICES ASSUME Apart' PROVE events' = LogOf(timeframe', considered')
    BY DEF Logged
  <2> DEFINE e == Event(Head(todo))
  <2>1. Apart /\ ~Blocked(timeframe, events, e)
    BY <1>1, ApartBefore, CooldownsAgree
  <2>2. e \in Events /\ considered \in Seq(Events)
    BY <1>1, EventTyped DEF ReplayInv, Typed
  <2>3. /\ events' = Append(events, e) /\ timeframe' = timeframe
        /\ considered' = Append(considered, e)
    BY DEF Emit
  <2> HIDE DEF e
  <2>4. events = LogOf(timeframe, considered)
    BY <2>1 DEF AgreeInv, Logged
  <2>5. LogOf(timeframe, considered') = AdmitTo(timeframe, events, e)
    BY <2>2, <2>3, <2>4, LogGrows
  <2>6. AdmitTo(timeframe, events, e) = Append(events, e)
    BY <2>1 DEF AdmitTo
  <2> QED
    BY <2>3, <2>5, <2>6
<1> QED
  BY <1>2, <1>3

LEMMA AgreeInvariant == Spec => []AgreeInv
<1>1. Init => AgreeInv
  BY InitAgrees, BacktestAssumption
<1>2. AgreeInv /\ ReplayInv' /\ [Next]_vars => AgreeInv'
  <2> SUFFICES ASSUME AgreeInv, ReplayInv', [Next]_vars PROVE Listed' /\ Logged'
    BY DEF AgreeInv
  <2>1. CASE Slice
    BY <2>1, SliceAgrees
  <2>2. CASE Skip
    BY <2>2, SkipAgrees, BacktestAssumption
  <2>3. CASE Emit
    BY <2>3, EmitAgrees, BacktestAssumption
  <2>4. CASE UNCHANGED vars
    <3>1. Points' = Points /\ timeframe' = timeframe
      BY <2>4, PointsStay DEF vars
    <3>2. Reach' = Reach /\ Coming' = Coming
      BY <2>4, <3>1 DEF vars, Reach, Coming, Event
    <3>3. Listed'
      BY <2>4, <3>1, <3>2 DEF vars, AgreeInv, Listed
    <3>4. Logged'
      BY <2>4 DEF vars, AgreeInv, Logged, Apart
    <3> QED
      BY <3>3, <3>4
  <2> QED
    BY <2>1, <2>2, <2>3, <2>4 DEF Next
<1> QED
  BY <1>1, <1>2, ReplayInvariant, PTL DEF Spec

(* After every prefix, of whatever series and with whatever cooldowns, the   *)
(* replay's log is the one the live program would have made of the same      *)
(* prefixes, unless two candidates are exactly the cooldown apart.           *)
THEOREM ReplayAgreesHolds == Spec => []ReplayAgrees
<1>1. AgreeInv => ReplayAgrees
  <2> SUFFICES ASSUME AgreeInv, todo = << >>, Apart PROVE events = LiveLog(Candidates)
    BY DEF ReplayAgrees, Apart
  <2>1. Typed
    BY DEF AgreeInv, ReplayInv
  <2>2. Coming = << >> /\ considered \in Seq(Occurrence)
    BY <2>1, ComingTyped, OccurrencesTyped
  <2>3. considered \o << >> = considered
    BY <2>2
  <2>4. Candidates = considered
    BY <2>2, <2>3, CandidatesAre DEF AgreeInv, Listed, Reach
  <2>5. events = LogOf(timeframe, considered)
    BY DEF AgreeInv, Logged
  <2>6. LiveLog(considered) = LogOf(timeframe, considered)
    BY LiveLogIs
  <2> QED
    BY <2>4, <2>5, <2>6
<1> QED
  BY <1>1, AgreeInvariant, PTL
=============================================================================
