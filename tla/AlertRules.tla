----------------------------- MODULE AlertRules -----------------------------
(***************************************************************************)
(* The alert rules as functions of a series: which categories are reported *)
(* for its last point.  Averages stay fractions, a sum and a count, and    *)
(* are compared exactly; the code compares floats, which may differ where  *)
(* a decimal multiple is met exactly.                                      *)
(*                                                                         *)
(* An operator marked "Fault" distorts the one after it.                   *)
(***************************************************************************)
EXTENDS Integers, SequencesExt, Subsequence

Timeframes == {"now", "mid", "long"}   \* NOW_, MID_ and LONG_TIMEFRAMES

(* A point has a value out of 100 and may be partial: its day or hour is    *)
(* not over.  Dates are left to those who need them.                        *)
Point == [value : 0 .. 100, partial : BOOLEAN]

Complete(point) == ~point.partial

(* Fault: partial points count in every window. *)
NormalizedNever(points, timeframe) == points

(* normalized_alert_points. *)
Normalized(points, timeframe) ==
    IF timeframe = "now" THEN points
    ELSE Kept(points, {point \in ToSet(points) : Complete(point)})

-----------------------------------------------------------------------------

Total(points) ==
    LET sum[n \in 0 .. Len(points)] ==
            IF n = 0 THEN 0 ELSE sum[n - 1] + points[n].value
    IN  sum[Len(points)]

Average(points) == [sum |-> Total(points), count |-> Len(points)]

(* a >= x, a <= x percent of b, and so on, for averages a and b. *)
AtLeast(a, x) == a.sum >= x * a.count
AtLeastPercent(a, percent, b) == 100 * a.sum * b.count >= percent * b.sum * a.count
AtMostPercent(a, percent, b) == 100 * a.sum * b.count <= percent * b.sum * a.count
Above(a, b, delta) == a.sum * b.count - b.sum * a.count >= delta * a.count * b.count

IsSpike(current, baseline, percent, delta, floor) ==
    /\ AtLeast(current, floor)
    /\ baseline.sum > 0 => /\ AtLeastPercent(current, percent, baseline)
                           /\ Above(current, baseline, delta)

IsDrop(current, baseline, percent, delta, floor) ==
    /\ AtLeast(baseline, floor)
    /\ AtMostPercent(current, percent, baseline)
    /\ Above(baseline, current, delta)

(* The first of some verdicts that applies, as a report. *)
First(verdicts) ==
    LET first == SelectInSeq(verdicts, LAMBDA verdict : verdict.holds)
    IN  IF first = 0 THEN << >> ELSE <<verdicts[first].category>>

Verdict(category, holds) == [category |-> category, holds |-> holds]

Latest(points, n) == SubSeq(points, Len(points) - n + 1, Len(points))

(* The points up to n before those of Latest(points, m). *)
Before(points, m, n) == SubSeq(points, Len(points) - n + 1, Len(points) - m)

-----------------------------------------------------------------------------

(* Fault: the baseline includes what it is compared with. *)
ShortWindowOverlapping(points) ==
    LET current  == Average(Latest(points, IF Len(points) >= 27 THEN 3 ELSE 2))
        baseline == Average(Latest(points, IF Len(points) >= 27 THEN 27 ELSE Len(points)))
    IN  IF Len(points) < 12 THEN << >>
        ELSE First(<<Verdict("sudden_spike", IsSpike(current, baseline, 250, 15, 15)),
                     Verdict("warming_up", IsSpike(current, baseline, 135, 6, 10))>>)
          \o First(<<Verdict("sudden_drop", IsDrop(current, baseline, 45, 15, 15)),
                     Verdict("cooling_down", IsDrop(current, baseline, 70, 8, 12))>>)

(* build_short_window_alerts: three points against 24, or two against the   *)
(* rest while there are fewer than 27.                                      *)
ShortWindow(points) ==
    LET many     == Len(points) >= 27
        recent   == IF many THEN 3 ELSE 2
        current  == Average(Latest(points, recent))
        baseline == Average(Before(points, recent, IF many THEN 27 ELSE Len(points)))
    IN  IF Len(points) < 12 THEN << >>
        ELSE First(<<Verdict("sudden_spike", IsSpike(current, baseline, 250, 15, 15)),
                     Verdict("warming_up", IsSpike(current, baseline, 135, 6, 10))>>)
          \o First(<<Verdict("sudden_drop", IsDrop(current, baseline, 45, 15, 15)),
                     Verdict("cooling_down", IsDrop(current, baseline, 70, 8, 12))>>)

(* Fault: the last value alone confirms a breakout, as in the long window. *)
MidWindowLastValue(points) ==
    LET current  == Average(Latest(points, 3))
        baseline == Average(Before(points, 3, 17))
    IN  IF Len(points) < 17 THEN << >>
        ELSE First(<<Verdict("window_breakout", points[Len(points)].value >= 85),
                     Verdict("steady_rise", IsSpike(current, baseline, 130, 8, 15))>>)
          \o First(<<Verdict("steady_decline", IsDrop(current, baseline, 65, 10, 20))>>)

(* build_mid_window_alerts: three points against 14, and against their peak. *)
MidWindow(points) ==
    LET current  == Average(Latest(points, 3))
        previous == Before(points, 3, 17)
        baseline == Average(previous)
        breakout == /\ AtLeast(current, 85)
                    /\ \A i \in DOMAIN previous :
                          100 * current.sum >= 95 * previous[i].value * current.count
    IN  IF Len(points) < 17 THEN << >>
        ELSE First(<<Verdict("window_breakout", breakout),
                     Verdict("steady_rise", IsSpike(current, baseline, 130, 8, 15))>>)
          \o First(<<Verdict("steady_decline", IsDrop(current, baseline, 65, 10, 20))>>)

(* build_long_window_alerts: two points against eight. *)
LongWindow(points) ==
    LET current  == Average(Latest(points, 2))
        baseline == Average(Before(points, 2, 10))
    IN  IF Len(points) < 10 THEN << >>
        ELSE First(<<Verdict("historical_hot", points[Len(points)].value >= 85),
                     Verdict("long_rise", IsSpike(current, baseline, 135, 8, 15))>>)
          \o First(<<Verdict("long_decline", IsDrop(current, baseline, 65, 10, 20))>>)

(* build_alert_candidates, for points that are Normalized. *)
Report(points, timeframe) ==
    CASE timeframe = "now"  -> ShortWindow(points)
      [] timeframe = "mid"  -> MidWindow(points)
      [] timeframe = "long" -> LongWindow(points)

Categories(tf) ==
    CASE tf = "now"  -> {"sudden_spike", "warming_up", "sudden_drop", "cooling_down"}
      [] tf = "mid"  -> {"window_breakout", "steady_rise", "steady_decline"}
      [] tf = "long" -> {"historical_hot", "long_rise", "long_decline"}

P1Categories == {"sudden_spike", "sudden_drop", "window_breakout", "historical_hot"}

Falling == {"sudden_drop", "cooling_down", "steady_decline", "long_decline"}
=============================================================================
