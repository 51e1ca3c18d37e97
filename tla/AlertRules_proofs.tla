------------------------- MODULE AlertRules_proofs --------------------------
(***************************************************************************)
(* What the rules report, for series of every length: the type of a        *)
(* report, that it does not hold a rise and a fall at once, that a flat    *)
(* series raises nothing and that a jump raises a sudden_spike.            *)
(*                                                                         *)
(* An average is a sum and a count, so that every threshold is compared    *)
(* between products.  The provers do no such arithmetic by themselves: the *)
(* lemmas ProductPositive, Associates and Monotone carry it, and the rules *)
(* are reasoned about with a window's average for a parameter.             *)
(***************************************************************************)
EXTENDS AlertRules, Recursion, SequenceTheorems

-----------------------------------------------------------------------------
(* Sums and averages. *)

LEMMA Values ==
    ASSUME NEW points \in Seq(Point), NEW n \in 1 .. Len(points)
    PROVE  /\ points[n].value \in Int
           /\ 0 <= points[n].value /\ points[n].value <= 100
<1>1. points[n] \in Point
  BY ElementOfSeq
<1>2. \A p \in Point : p.value \in 0 .. 100
  BY DEF Point
<1>3. points[n].value \in 0 .. 100
  BY <1>1, <1>2
<1>4. \A v \in 0 .. 100 : v \in Int /\ 0 <= v /\ v <= 100
  OBVIOUS
<1> QED
  BY <1>3, <1>4, Zenon

(* The function that Total defines: the sum of the first n values.           *)
LEMMA TotalRuns ==
    ASSUME NEW points \in Seq(Point)
    PROVE  \E sum \in [0 .. Len(points) -> Int] :
              /\ sum[0] = 0
              /\ \A n \in 1 .. Len(points) : sum[n] = sum[n - 1] + points[n].value
              /\ Total(points) = sum[Len(points)]
<1> DEFINE N == Len(points)
           X == Int
           base == 0
           Step(f, n) == f[n - 1] + points[n].value
           Rec(f) == f = [n \in 0 .. N |-> IF n = 0 THEN base ELSE Step(f, n)]
           sum == CHOOSE f : Rec(f)
           step == [p \in (1 .. N) \X X |-> p[2] + points[p[1]].value]
<1>1. N \in Nat /\ base \in X
  OBVIOUS
<1>2. IsStep(step, N, X)
  <2>1. \A n \in 1 .. N : points[n].value \in Int
    BY Values
  <2> QED
    BY <2>1 DEF IsStep
<1>3. \A f : \A n \in 1 .. N : f[n - 1] \in X => step[<<n, f[n - 1]>>] = Step(f, n)
  OBVIOUS
<1>4. Total(points) = sum[N]
  BY DEF Total
<1> HIDE DEF step, N, X, base, Step
<1>5. PICK f : IsRun(f, N, X, base, step)
  BY <1>1, <1>2, RunExists
<1>6. \A n \in 1 .. N : f[n] = Step(f, n)
  <2> SUFFICES ASSUME NEW n \in 1 .. N PROVE f[n] = Step(f, n)
    OBVIOUS
  <2>1. n - 1 \in 0 .. N
    BY <1>1
  <2>2. f[n - 1] \in X
    BY <1>5, <2>1 DEF IsRun
  <2> QED
    BY <1>3, <1>5, <2>2 DEF IsRun
<1>7. Rec(f)
  BY <1>1, <1>5, <1>6 DEF IsRun
<1>8. Rec(sum)
  BY <1>7
<1> HIDE DEF sum
<1>9. sum[0] = base /\ \A n \in 1 .. N : sum[n] = Step(sum, n)
  BY <1>1, <1>8
<1>10. IsRun(sum, N, X, base, step)
  <2>1. sum = [n \in 0 .. N |-> sum[n]]
    BY <1>8
  <2>2. \A n \in 1 .. N : sum[n - 1] \in X => sum[n] = step[<<n, sum[n - 1]>>]
    BY <1>3, <1>9
  <2> QED
    BY <1>1, <1>2, <1>9, <2>1, <2>2, RunTyped
<1> QED
  BY <1>4, <1>9, <1>10 DEF IsRun, N, X, base, Step

LEMMA OneMore ==
    ASSUME NEW x \in Int, NEW n \in Nat PROVE x * (n + 1) = x * n + x
  BY Z3

(* If every value is between two numbers, so is the average.                 *)
LEMMA TotalBounds ==
    ASSUME NEW points \in Seq(Point), NEW lo \in Int, NEW hi \in Int,
           \A i \in 1 .. Len(points) : lo <= points[i].value /\ points[i].value <= hi
    PROVE  /\ Total(points) \in Int
           /\ lo * Len(points) <= Total(points)
           /\ Total(points) <= hi * Len(points)
<1>1. PICK sum \in [0 .. Len(points) -> Int] :
              /\ sum[0] = 0
              /\ \A n \in 1 .. Len(points) : sum[n] = sum[n - 1] + points[n].value
              /\ Total(points) = sum[Len(points)]
  BY TotalRuns
<1> DEFINE S == {n \in Nat : n <= Len(points) => lo * n <= sum[n] /\ sum[n] <= hi * n}
<1>2. 0 \in S
  BY <1>1
<1>3. ASSUME NEW n \in Nat, n \in S PROVE n + 1 \in S
  <2> SUFFICES ASSUME n + 1 <= Len(points)
               PROVE  lo * (n + 1) <= sum[n + 1] /\ sum[n + 1] <= hi * (n + 1)
    OBVIOUS
  <2> DEFINE v == points[n + 1].value
             t == sum[n]
  <2>1. n + 1 \in 1 .. Len(points) /\ (n + 1) - 1 = n /\ n \in 0 .. Len(points)
    OBVIOUS
  <2>2. sum[n + 1] = t + v /\ t \in Int
    BY <1>1, <2>1
  <2>3. lo <= v /\ v <= hi /\ v \in Int
    BY <2>1, Values
  <2>4. lo * n <= t /\ t <= hi * n
    BY <1>3, <2>1
  <2>5. lo * (n + 1) = lo * n + lo /\ hi * (n + 1) = hi * n + hi
    BY OneMore
  <2>6. lo * n \in Int /\ hi * n \in Int
    OBVIOUS
  <2> HIDE DEF v, t
  <2> QED
    BY <2>2, <2>3, <2>4, <2>5, <2>6
<1>4. Len(points) \in S
  <2> HIDE DEF S
  <2> QED
    BY <1>2, <1>3, Induction
<1>5. Len(points) \in 0 .. Len(points)
  OBVIOUS
<1> QED
  BY <1>1, <1>4, <1>5

Averages == [sum : Nat, count : Nat \ {0}]

LEMMA AverageBounds ==
    ASSUME NEW points \in Seq(Point), Len(points) > 0, NEW lo \in Int, NEW hi \in Int,
           \A i \in 1 .. Len(points) : lo <= points[i].value /\ points[i].value <= hi
    PROVE  /\ Average(points) \in Averages
           /\ Average(points).count = Len(points)
           /\ lo * Len(points) <= Average(points).sum
           /\ Average(points).sum <= hi * Len(points)
<1>1. /\ Total(points) \in Int
      /\ lo * Len(points) <= Total(points)
      /\ Total(points) <= hi * Len(points)
  BY TotalBounds
<1>3. 0 <= Total(points)
  <2> DEFINE least == 0
             most == 100
  <2>1. least \in Int /\ most \in Int
    OBVIOUS
  <2>2. \A i \in 1 .. Len(points) : least <= points[i].value /\ points[i].value <= most
    BY Values
  <2>3. least * Len(points) = 0
    OBVIOUS
  <2> HIDE DEF least, most
  <2>4. least * Len(points) <= Total(points)
    BY <2>1, <2>2, TotalBounds
  <2> QED
    BY <2>3, <2>4
<1>4. Total(points) \in Nat /\ Len(points) \in Nat \ {0}
  BY <1>1, <1>3
<1> QED
  BY <1>1, <1>4 DEF Average, Averages

(* The points of a window, and where they stand in the series.               *)
LEMMA WindowOf ==
    ASSUME NEW points \in Seq(Point), NEW m \in Nat, NEW n \in Nat,
           m < n, n <= Len(points)
    PROVE  /\ Before(points, m, n) \in Seq(Point)
           /\ Len(Before(points, m, n)) = n - m
           /\ \A i \in 1 .. n - m :
                 /\ Len(points) - n + i \in 1 .. Len(points)
                 /\ Before(points, m, n)[i] = points[Len(points) - n + i]
<1> DEFINE a == Len(points) - n + 1
           b == Len(points) - m
<1>1. /\ a \in Int /\ b \in Int /\ a <= b /\ 1 <= a /\ b <= Len(points)
      /\ b - a + 1 = n - m
      /\ \A i \in 1 .. n - m : a + i - 1 = Len(points) - n + i
  OBVIOUS
<1>2. \A i \in a .. b : points[i] \in Point
  BY <1>1, ElementOfSeq
<1>3. Before(points, m, n) = SubSeq(points, a, b)
  BY DEF Before
<1> HIDE DEF a, b
<1>4. /\ SubSeq(points, a, b) \in Seq(Point)
      /\ Len(SubSeq(points, a, b)) = IF a <= b THEN b - a + 1 ELSE 0
      /\ \A i \in 1 .. b - a + 1 : SubSeq(points, a, b)[i] = points[a + i - 1]
  BY <1>1, <1>2, SubSeqProperties
<1>5. \A i \in 1 .. n - m : Len(points) - n + i \in 1 .. Len(points)
  OBVIOUS
<1> QED
  BY <1>1, <1>3, <1>4, <1>5

LEMMA LatestWindow ==
    ASSUME NEW points \in Seq(Point), NEW n \in Nat
    PROVE  Latest(points, n) = Before(points, 0, n)
<1>1. Len(points) - 0 = Len(points)
  OBVIOUS
<1> QED
  BY <1>1 DEF Latest, Before

-----------------------------------------------------------------------------
(* What rises and what falls. *)

LEMMA ProductPositive ==
    ASSUME NEW x \in Nat \ {0}, NEW y \in Nat \ {0}
    PROVE  x * y \in Nat \ {0}
<1>1. x * y >= 1
  BY Z3
<1> QED
  BY <1>1

LEMMA Associates ==
    ASSUME NEW x \in Int, NEW y \in Int, NEW z \in Int
    PROVE  /\ (x * y) * z = x * (y * z)
           /\ (x * y) * z = (x * z) * y
  BY Z3

LEMMA Monotone ==
    ASSUME NEW x \in Int, NEW y \in Int, NEW z \in Nat, x <= y
    PROVE  x * z <= y * z
  BY Z3

(* Two averages cannot be above each other by a positive difference.         *)
LEMMA AboveIsStrict ==
    ASSUME NEW a \in Averages, NEW b \in Averages,
           NEW d \in Nat, NEW e \in Nat \ {0},
           Above(a, b, d), Above(b, a, e)
    PROVE  FALSE
<1> DEFINE x == a.sum * b.count
           y == b.sum * a.count
           k == a.count * b.count
<1>1. /\ a.sum \in Nat /\ b.sum \in Nat
      /\ a.count \in Nat \ {0} /\ b.count \in Nat \ {0}
  BY DEF Averages
<1>2. x \in Int /\ y \in Int
  BY <1>1
<1>3. k \in Nat \ {0}
  BY <1>1, ProductPositive
<1>4. x - y >= d * k
  BY <1>1, Associates DEF Above
<1>5. y - x >= e * k
  <2>1. (e * b.count) * a.count = e * k
    BY <1>1, Associates
  <2> QED
    BY <2>1 DEF Above
<1> HIDE DEF x, y, k
<1>6. d * k >= 0
  BY <1>3, Z3
<1>7. e * k >= 1
  BY <1>3, Z3
<1>8. d * k \in Int /\ e * k \in Int
  BY <1>3
<1> QED
  BY <1>2, <1>4, <1>5, <1>6, <1>7, <1>8

(* What is a spike is no drop.                                               *)
LEMMA RiseExcludesFall ==
    ASSUME NEW a \in Averages, NEW b \in Averages,
           NEW p, NEW d \in Nat, NEW f,
           NEW q, NEW e \in Nat \ {0}, NEW g \in Nat \ {0},
           IsSpike(a, b, p, d, f), IsDrop(a, b, q, e, g)
    PROVE  FALSE
<1>1. /\ b.sum \in Nat /\ b.count \in Nat \ {0}
  BY DEF Averages
<1>2. b.sum >= g * b.count
  BY DEF IsDrop, AtLeast
<1>3. g * b.count \in Nat \ {0}
  BY <1>1, ProductPositive
<1>4. b.sum > 0
  BY <1>1, <1>2, <1>3
<1>5. Above(a, b, d) /\ Above(b, a, e)
  BY <1>4 DEF IsSpike, IsDrop
<1> QED
  BY <1>5, AboveIsStrict

(* Two windows of the same value: neither spike nor drop.                    *)
LEMMA FlatNeither ==
    ASSUME NEW a \in Averages, NEW b \in Averages, NEW v \in Nat,
           a.sum = v * a.count, b.sum = v * b.count,
           NEW p, NEW d \in Nat \ {0}, NEW f \in Nat \ {0}
    PROVE  ~IsSpike(a, b, p, d, f) /\ ~IsDrop(a, b, p, d, f)
<1> DEFINE k == a.count * b.count
<1>1. a.count \in Nat \ {0} /\ b.count \in Nat \ {0}
  BY DEF Averages
<1>2. k \in Nat \ {0}
  BY <1>1, ProductPositive
<1>3. a.sum * b.count = v * k
  BY <1>1, Associates
<1>4. b.sum * a.count = v * k
  <2>1. (v * b.count) * a.count = v * k
    BY <1>1, Associates
  <2> QED
    BY <2>1
<1>5. v * k \in Int
  BY <1>2
<1>6. (d * a.count) * b.count = d * k /\ (d * b.count) * a.count = d * k
  BY <1>1, Associates
<1>7. d * k \in Nat \ {0}
  BY <1>2, ProductPositive
<1> HIDE DEF k
<1>8. ~Above(a, b, d) /\ ~Above(b, a, d)
  BY <1>3, <1>4, <1>5, <1>6, <1>7 DEF Above
<1>9. f * a.count \in Nat \ {0}
  BY <1>1, ProductPositive
<1>10. b.sum = 0 => ~AtLeast(a, f)
  <2> SUFFICES ASSUME b.sum = 0 PROVE ~AtLeast(a, f)
    OBVIOUS
  <2>1. v = 0
    <3> SUFFICES ASSUME v # 0 PROVE FALSE
      OBVIOUS
    <3>1. v * b.count \in Nat \ {0}
      BY <1>1, ProductPositive
    <3> QED
      BY <3>1
  <2>2. a.sum = 0
    BY <1>1, <2>1
  <2> QED
    BY <1>9, <2>2 DEF AtLeast
<1>11. b.sum = 0 \/ b.sum > 0
  BY DEF Averages
<1> QED
  BY <1>8, <1>10, <1>11 DEF IsSpike, IsDrop

-----------------------------------------------------------------------------
(* The reports. *)

LEMMA FirstOfOne ==
    ASSUME NEW c, NEW g \in BOOLEAN
    PROVE  First(<<Verdict(c, g)>>) = IF g THEN <<c>> ELSE << >>
<1> DEFINE vs == <<Verdict(c, g)>>
           I == {i \in 1 .. Len(vs) : vs[i].holds}
<1>1. I = IF g THEN {1} ELSE {}
  BY DEF Verdict
<1>2. SelectInSeq(vs, LAMBDA verdict : verdict.holds) = IF g THEN 1 ELSE 0
  BY <1>1 DEF SelectInSeq, Min
<1> QED
  BY <1>2 DEF First, Verdict

LEMMA FirstOfTwo ==
    ASSUME NEW c, NEW g \in BOOLEAN, NEW d, NEW h \in BOOLEAN
    PROVE  First(<<Verdict(c, g), Verdict(d, h)>>) =
              IF g THEN <<c>> ELSE IF h THEN <<d>> ELSE << >>
<1> DEFINE vs == <<Verdict(c, g), Verdict(d, h)>>
           I == {i \in 1 .. Len(vs) : vs[i].holds}
<1>1. I = IF g THEN IF h THEN {1, 2} ELSE {1} ELSE IF h THEN {2} ELSE {}
  BY DEF Verdict
<1>2. SelectInSeq(vs, LAMBDA verdict : verdict.holds) = IF g THEN 1 ELSE IF h THEN 2 ELSE 0
  BY <1>1 DEF SelectInSeq, Min
<1> QED
  BY <1>2 DEF First, Verdict

(* What a report in two parts holds.                                         *)
LEMMA ReportJoined ==
    ASSUME NEW S, NEW s \in Seq(S), NEW t \in Seq(S)
    PROVE  s \o t \in Seq(S) /\ ToSet(s \o t) = ToSet(s) \cup ToSet(t)
<1>1. /\ s \o t \in Seq(S)
      /\ Len(s \o t) = Len(s) + Len(t)
      /\ \A i \in 1 .. Len(s) + Len(t) :
            (s \o t)[i] = IF i <= Len(s) THEN s[i] ELSE t[i - Len(s)]
  BY ConcatProperties
<1>2. /\ Len(s) \in Nat /\ Len(t) \in Nat
      /\ DOMAIN s = 1 .. Len(s) /\ DOMAIN t = 1 .. Len(t)
      /\ DOMAIN (s \o t) = 1 .. Len(s) + Len(t)
  BY <1>1
<1>3. ToSet(s \o t) \subseteq ToSet(s) \cup ToSet(t)
  <2> SUFFICES ASSUME NEW i \in 1 .. Len(s) + Len(t)
               PROVE  (s \o t)[i] \in ToSet(s) \cup ToSet(t)
    BY <1>2 DEF ToSet
  <2>1. CASE i <= Len(s)
    BY <1>1, <1>2, <2>1 DEF ToSet
  <2>2. CASE i > Len(s)
    <3>1. i - Len(s) \in 1 .. Len(t)
      BY <1>2, <2>2
    <3> QED
      BY <1>1, <1>2, <2>2, <3>1 DEF ToSet
  <2> QED
    BY <1>2, <2>1, <2>2
<1>4. ToSet(s) \subseteq ToSet(s \o t)
  <2> SUFFICES ASSUME NEW i \in 1 .. Len(s) PROVE s[i] \in ToSet(s \o t)
    BY <1>2 DEF ToSet
  <2>1. i \in 1 .. Len(s) + Len(t) /\ (s \o t)[i] = s[i]
    BY <1>1, <1>2
  <2> QED
    BY <1>2, <2>1 DEF ToSet
<1>5. ToSet(t) \subseteq ToSet(s \o t)
  <2> SUFFICES ASSUME NEW i \in 1 .. Len(t) PROVE t[i] \in ToSet(s \o t)
    BY <1>2 DEF ToSet
  <2> DEFINE j == Len(s) + i
  <2>1. j \in 1 .. Len(s) + Len(t) /\ ~(j <= Len(s)) /\ j - Len(s) = i
    BY <1>2
  <2>2. (s \o t)[j] = t[i]
    BY <1>1, <2>1
  <2> QED
    BY <1>2, <2>1, <2>2 DEF ToSet
<1> QED
  BY <1>1, <1>3, <1>4, <1>5

LEMMA OneReported ==
    ASSUME NEW S, NEW c \in S
    PROVE  /\ <<c>> \in Seq(S) /\ ToSet(<<c>>) = {c}
           /\ << >> \in Seq(S) /\ ToSet(<< >>) = {}
  BY DEF ToSet

(* Part of a report: of two verdicts the first that applies, or the only one *)
(* if it applies.                                                            *)
OneOf(c, g, d, h) == First(<<Verdict(c, g), Verdict(d, h)>>)
Only(c, g) == First(<<Verdict(c, g)>>)

SaidOneOf(c, g, d, h) == IF g THEN {c} ELSE IF h THEN {d} ELSE {}
SaidOnly(c, g) == IF g THEN {c} ELSE {}

LEMMA OneOfSaid ==
    ASSUME NEW S, NEW c \in S, NEW d \in S, NEW g \in BOOLEAN, NEW h \in BOOLEAN
    PROVE  /\ OneOf(c, g, d, h) \in Seq(S)
           /\ ToSet(OneOf(c, g, d, h)) = SaidOneOf(c, g, d, h)
<1>1. OneOf(c, g, d, h) = IF g THEN <<c>> ELSE IF h THEN <<d>> ELSE << >>
  BY FirstOfTwo DEF OneOf
<1> QED
  BY <1>1, OneReported DEF SaidOneOf

LEMMA OnlySaid ==
    ASSUME NEW S, NEW c \in S, NEW g \in BOOLEAN
    PROVE  /\ Only(c, g) \in Seq(S)
           /\ ToSet(Only(c, g)) = SaidOnly(c, g)
<1>1. Only(c, g) = IF g THEN <<c>> ELSE << >>
  BY FirstOfOne DEF Only
<1> QED
  BY <1>1, OneReported DEF SaidOnly

LEMMA VerdictsAreBoolean ==
    ASSUME NEW a, NEW b, NEW p, NEW d, NEW f
    PROVE  IsSpike(a, b, p, d, f) \in BOOLEAN /\ IsDrop(a, b, p, d, f) \in BOOLEAN
  BY DEF IsSpike, IsDrop

(* The two averages that each window compares.                               *)
Recent(points) == IF Len(points) >= 27 THEN 3 ELSE 2
Span(points) == IF Len(points) >= 27 THEN 27 ELSE Len(points)

ShortCurrent(points) == Average(Latest(points, Recent(points)))
ShortBaseline(points) == Average(Before(points, Recent(points), Span(points)))
MidCurrent(points) == Average(Latest(points, 3))
MidBaseline(points) == Average(Before(points, 3, 17))
LongCurrent(points) == Average(Latest(points, 2))
LongBaseline(points) == Average(Before(points, 2, 10))

LEMMA ShortReport ==
    ASSUME NEW points, Len(points) >= 12
    PROVE  LET a == ShortCurrent(points)
               b == ShortBaseline(points)
           IN  /\ ShortWindow(points) \in Seq(Categories("now"))
               /\ ToSet(ShortWindow(points)) =
                     SaidOneOf("sudden_spike", IsSpike(a, b, 250, 15, 15),
                               "warming_up", IsSpike(a, b, 135, 6, 10))
                     \cup SaidOneOf("sudden_drop", IsDrop(a, b, 45, 15, 15),
                                    "cooling_down", IsDrop(a, b, 70, 8, 12))
<1> DEFINE a == ShortCurrent(points)
           b == ShortBaseline(points)
           S == Categories("now")
           g == IsSpike(a, b, 250, 15, 15)
           h == IsSpike(a, b, 135, 6, 10)
           k == IsDrop(a, b, 45, 15, 15)
           l == IsDrop(a, b, 70, 8, 12)
           s == OneOf("sudden_spike", g, "warming_up", h)
           t == OneOf("sudden_drop", k, "cooling_down", l)
<1>1. ShortWindow(points) = s \o t
  BY ~(Len(points) < 12) DEF ShortWindow, ShortCurrent, ShortBaseline, Recent, Span, OneOf
<1>2. g \in BOOLEAN /\ h \in BOOLEAN /\ k \in BOOLEAN /\ l \in BOOLEAN
  BY VerdictsAreBoolean
<1>3. /\ "sudden_spike" \in S /\ "warming_up" \in S
      /\ "sudden_drop" \in S /\ "cooling_down" \in S
  BY DEF Categories
<1> HIDE DEF g, h, k, l, S
<1>4. s \in Seq(S) /\ ToSet(s) = SaidOneOf("sudden_spike", g, "warming_up", h)
  BY <1>2, <1>3, OneOfSaid
<1>5. t \in Seq(S) /\ ToSet(t) = SaidOneOf("sudden_drop", k, "cooling_down", l)
  BY <1>2, <1>3, OneOfSaid
<1> HIDE DEF s, t
<1>6. s \o t \in Seq(S) /\ ToSet(s \o t) = ToSet(s) \cup ToSet(t)
  BY <1>4, <1>5, ReportJoined
<1> QED
  BY <1>1, <1>4, <1>5, <1>6 DEF g, h, k, l, S

(* The absolute thresholds of the two longer windows.                        *)
Breakout(points) ==
    LET current == Average(Latest(points, 3))
        previous == Before(points, 3, 17)
    IN  /\ AtLeast(current, 85)
        /\ \A i \in DOMAIN previous :
              100 * current.sum >= 95 * previous[i].value * current.count

Hot(points) == points[Len(points)].value >= 85

LEMMA MidReport ==
    ASSUME NEW points, Len(points) >= 17
    PROVE  LET a == MidCurrent(points)
               b == MidBaseline(points)
           IN  /\ MidWindow(points) \in Seq(Categories("mid"))
               /\ ToSet(MidWindow(points)) =
                     SaidOneOf("window_breakout", Breakout(points),
                               "steady_rise", IsSpike(a, b, 130, 8, 15))
                     \cup SaidOnly("steady_decline", IsDrop(a, b, 65, 10, 20))
<1> DEFINE a == MidCurrent(points)
           b == MidBaseline(points)
           S == Categories("mid")
           g == Breakout(points)
           h == IsSpike(a, b, 130, 8, 15)
           k == IsDrop(a, b, 65, 10, 20)
           s == OneOf("window_breakout", g, "steady_rise", h)
           t == Only("steady_decline", k)
<1>1. MidWindow(points) = s \o t
  BY ~(Len(points) < 17) DEF MidWindow, MidCurrent, MidBaseline, Breakout, OneOf, Only
<1>2. g \in BOOLEAN /\ h \in BOOLEAN /\ k \in BOOLEAN
  BY VerdictsAreBoolean DEF Breakout
<1>3. "window_breakout" \in S /\ "steady_rise" \in S /\ "steady_decline" \in S
  BY DEF Categories
<1> HIDE DEF g, h, k, S
<1>4. s \in Seq(S) /\ ToSet(s) = SaidOneOf("window_breakout", g, "steady_rise", h)
  BY <1>2, <1>3, OneOfSaid
<1>5. t \in Seq(S) /\ ToSet(t) = SaidOnly("steady_decline", k)
  BY <1>2, <1>3, OnlySaid
<1> HIDE DEF s, t
<1>6. s \o t \in Seq(S) /\ ToSet(s \o t) = ToSet(s) \cup ToSet(t)
  BY <1>4, <1>5, ReportJoined
<1> QED
  BY <1>1, <1>4, <1>5, <1>6 DEF g, h, k, S

LEMMA LongReport ==
    ASSUME NEW points, Len(points) >= 10
    PROVE  LET a == LongCurrent(points)
               b == LongBaseline(points)
           IN  /\ LongWindow(points) \in Seq(Categories("long"))
               /\ ToSet(LongWindow(points)) =
                     SaidOneOf("historical_hot", Hot(points),
                               "long_rise", IsSpike(a, b, 135, 8, 15))
                     \cup SaidOnly("long_decline", IsDrop(a, b, 65, 10, 20))
<1> DEFINE a == LongCurrent(points)
           b == LongBaseline(points)
           S == Categories("long")
           g == Hot(points)
           h == IsSpike(a, b, 135, 8, 15)
           k == IsDrop(a, b, 65, 10, 20)
           s == OneOf("historical_hot", g, "long_rise", h)
           t == Only("long_decline", k)
<1>1. LongWindow(points) = s \o t
  BY ~(Len(points) < 10) DEF LongWindow, LongCurrent, LongBaseline, Hot, OneOf, Only
<1>2. g \in BOOLEAN /\ h \in BOOLEAN /\ k \in BOOLEAN
  BY VerdictsAreBoolean DEF Hot
<1>3. "historical_hot" \in S /\ "long_rise" \in S /\ "long_decline" \in S
  BY DEF Categories
<1> HIDE DEF g, h, k, S
<1>4. s \in Seq(S) /\ ToSet(s) = SaidOneOf("historical_hot", g, "long_rise", h)
  BY <1>2, <1>3, OneOfSaid
<1>5. t \in Seq(S) /\ ToSet(t) = SaidOnly("long_decline", k)
  BY <1>2, <1>3, OnlySaid
<1> HIDE DEF s, t
<1>6. s \o t \in Seq(S) /\ ToSet(s \o t) = ToSet(s) \cup ToSet(t)
  BY <1>4, <1>5, ReportJoined
<1> QED
  BY <1>1, <1>4, <1>5, <1>6 DEF g, h, k, S

(* Below so many points there is no report.                                  *)
Minimum(tf) == CASE tf = "now" -> 12 [] tf = "mid" -> 17 [] tf = "long" -> 10

(* What the rules report is what Alerts takes for a report: a sequence of    *)
(* the categories of its timeframe, empty for a series that is too short.    *)
THEOREM ReportTyped ==
    ASSUME NEW tf \in Timeframes, NEW points \in Seq(Point)
    PROVE  /\ Report(points, tf) \in Seq(Categories(tf))
           /\ Len(points) < Minimum(tf) => Report(points, tf) = << >>
<1>1. Len(points) \in Nat
  OBVIOUS
<1>2. << >> \in Seq(Categories(tf))
  OBVIOUS
<1>3. CASE tf = "now"
  <2>1. Report(points, tf) = ShortWindow(points) /\ Minimum(tf) = 12
    BY <1>3 DEF Report, Minimum
  <2>2. Len(points) < 12 => ShortWindow(points) = << >>
    BY DEF ShortWindow
  <2>3. Len(points) >= 12 => ShortWindow(points) \in Seq(Categories(tf))
    BY <1>3, ShortReport
  <2>4. CASE Len(points) < 12
    BY <1>2, <2>1, <2>2, <2>4
  <2>5. CASE Len(points) >= 12
    BY <1>1, <2>1, <2>3, <2>5
  <2> QED
    BY <1>1, <2>4, <2>5
<1>4. CASE tf = "mid"
  <2>1. Report(points, tf) = MidWindow(points) /\ Minimum(tf) = 17
    BY <1>4 DEF Report, Minimum
  <2>2. Len(points) < 17 => MidWindow(points) = << >>
    BY DEF MidWindow
  <2>3. Len(points) >= 17 => MidWindow(points) \in Seq(Categories(tf))
    BY <1>4, MidReport
  <2>4. CASE Len(points) < 17
    BY <1>2, <2>1, <2>2, <2>4
  <2>5. CASE Len(points) >= 17
    BY <1>1, <2>1, <2>3, <2>5
  <2> QED
    BY <1>1, <2>4, <2>5
<1>5. CASE tf = "long"
  <2>1. Report(points, tf) = LongWindow(points) /\ Minimum(tf) = 10
    BY <1>5 DEF Report, Minimum
  <2>2. Len(points) < 10 => LongWindow(points) = << >>
    BY DEF LongWindow
  <2>3. Len(points) >= 10 => LongWindow(points) \in Seq(Categories(tf))
    BY <1>5, LongReport
  <2>4. CASE Len(points) < 10
    BY <1>2, <2>1, <2>2, <2>4
  <2>5. CASE Len(points) >= 10
    BY <1>1, <2>1, <2>3, <2>5
  <2> QED
    BY <1>1, <2>4, <2>5
<1> QED
  BY <1>3, <1>4, <1>5 DEF Timeframes

-----------------------------------------------------------------------------
(* The windows of a series. *)

LEMMA WindowAverage ==
    ASSUME NEW points \in Seq(Point), NEW m \in Nat, NEW n \in Nat,
           m < n, n <= Len(points), NEW lo \in Int, NEW hi \in Int,
           \A i \in Len(points) - n + 1 .. Len(points) - m :
              lo <= points[i].value /\ points[i].value <= hi
    PROVE  LET average == Average(Before(points, m, n))
           IN  /\ average \in Averages
               /\ average.count = n - m
               /\ lo * (n - m) <= average.sum
               /\ average.sum <= hi * (n - m)
<1> DEFINE window == Before(points, m, n)
<1>1. /\ window \in Seq(Point)
      /\ Len(window) = n - m
      /\ \A i \in 1 .. n - m : window[i] = points[Len(points) - n + i]
  BY WindowOf
<1>2. \A i \in 1 .. n - m : Len(points) - n + i \in Len(points) - n + 1 .. Len(points) - m
  OBVIOUS
<1>3. Len(window) > 0
  BY <1>1
<1> HIDE DEF window
<1>4. \A i \in 1 .. Len(window) : lo <= window[i].value /\ window[i].value <= hi
  BY <1>1, <1>2
<1>5. /\ Average(window) \in Averages
      /\ Average(window).count = Len(window)
      /\ lo * Len(window) <= Average(window).sum
      /\ Average(window).sum <= hi * Len(window)
  BY <1>1, <1>3, <1>4, AverageBounds
<1> QED
  BY <1>1, <1>5 DEF window

LEMMA WindowIsAverage ==
    ASSUME NEW points \in Seq(Point), NEW m \in Nat, NEW n \in Nat,
           m < n, n <= Len(points)
    PROVE  LET average == Average(Before(points, m, n))
           IN  /\ average \in Averages
               /\ average.count = n - m
               /\ average.sum <= 100 * (n - m)
<1> DEFINE least == 0
           most == 100
<1>1. least \in Int /\ most \in Int
  OBVIOUS
<1>2. \A i \in Len(points) - n + 1 .. Len(points) - m : i \in 1 .. Len(points)
  OBVIOUS
<1>3. \A i \in Len(points) - n + 1 .. Len(points) - m :
         least <= points[i].value /\ points[i].value <= most
  BY <1>2, Values
<1> HIDE DEF least, most
<1>4. LET average == Average(Before(points, m, n))
      IN  /\ average \in Averages
          /\ average.count = n - m
          /\ average.sum <= most * (n - m)
  BY <1>1, <1>3, WindowAverage
<1> QED
  BY <1>4 DEF most

(* Each window compares two averages.                                        *)
LEMMA WindowsTyped ==
    ASSUME NEW points \in Seq(Point)
    PROVE  /\ Len(points) >= 12 => /\ ShortCurrent(points) \in Averages
                                   /\ ShortBaseline(points) \in Averages
           /\ Len(points) >= 17 => /\ MidCurrent(points) \in Averages
                                   /\ MidBaseline(points) \in Averages
                                   /\ MidBaseline(points).sum <= 100 * MidBaseline(points).count
           /\ Len(points) >= 10 => /\ LongCurrent(points) \in Averages
                                   /\ LongBaseline(points) \in Averages
<1>1. Len(points) \in Nat
  OBVIOUS
<1>2. ASSUME Len(points) >= 12
      PROVE  ShortCurrent(points) \in Averages /\ ShortBaseline(points) \in Averages
  <2> DEFINE m == Recent(points)
             n == Span(points)
             zero == 0
  <2>1. /\ m \in Nat /\ n \in Nat /\ zero \in Nat
        /\ zero < m /\ m < n /\ m <= Len(points) /\ n <= Len(points)
    BY <1>1, <1>2 DEF Recent, Span
  <2> HIDE DEF m, n, zero
  <2>2. Average(Before(points, zero, m)) \in Averages
    BY <2>1, WindowIsAverage
  <2>3. Average(Before(points, m, n)) \in Averages
    BY <2>1, WindowIsAverage
  <2>4. Latest(points, m) = Before(points, 0, m)
    BY <2>1, LatestWindow
  <2> QED
    BY <2>2, <2>3, <2>4 DEF m, n, zero, ShortCurrent, ShortBaseline
<1>3. ASSUME Len(points) >= 17
      PROVE  /\ MidCurrent(points) \in Averages
             /\ MidBaseline(points) \in Averages
             /\ MidBaseline(points).sum <= 100 * MidBaseline(points).count
  <2> DEFINE m == 3
             n == 17
             zero == 0
  <2>1. /\ m \in Nat /\ n \in Nat /\ zero \in Nat
        /\ zero < m /\ m < n /\ m <= Len(points) /\ n <= Len(points)
    BY <1>1, <1>3
  <2> HIDE DEF m, n, zero
  <2>2. Average(Before(points, zero, m)) \in Averages
    BY <2>1, WindowIsAverage
  <2>3. /\ Average(Before(points, m, n)) \in Averages
        /\ Average(Before(points, m, n)).sum <= 100 * Average(Before(points, m, n)).count
    BY <2>1, WindowIsAverage
  <2>4. Latest(points, m) = Before(points, 0, m)
    BY <2>1, LatestWindow
  <2> QED
    BY <2>2, <2>3, <2>4 DEF m, n, zero, MidCurrent, MidBaseline
<1>4. ASSUME Len(points) >= 10
      PROVE  LongCurrent(points) \in Averages /\ LongBaseline(points) \in Averages
  <2> DEFINE m == 2
             n == 10
             zero == 0
  <2>1. /\ m \in Nat /\ n \in Nat /\ zero \in Nat
        /\ zero < m /\ m < n /\ m <= Len(points) /\ n <= Len(points)
    BY <1>1, <1>4
  <2> HIDE DEF m, n, zero
  <2>2. Average(Before(points, zero, m)) \in Averages
    BY <2>1, WindowIsAverage
  <2>3. Average(Before(points, m, n)) \in Averages
    BY <2>1, WindowIsAverage
  <2>4. Latest(points, m) = Before(points, 0, m)
    BY <2>1, LatestWindow
  <2> QED
    BY <2>2, <2>3, <2>4 DEF m, n, zero, LongCurrent, LongBaseline
<1> QED
  BY <1>2, <1>3, <1>4

-----------------------------------------------------------------------------
(* A report does not contradict itself. *)

(* An average of 85 is not at most 65 percent of one that is at most 100.    *)
LEMMA BreakoutExcludesDecline ==
    ASSUME NEW a \in Averages, NEW b \in Averages, b.sum <= 100 * b.count,
           AtLeast(a, 85), AtMostPercent(a, 65, b)
    PROVE  FALSE
<1> DEFINE k == a.count * b.count
           x == a.sum * b.count
           y == b.sum * a.count
<1>1. /\ a.sum \in Nat /\ b.sum \in Nat
      /\ a.count \in Nat \ {0} /\ b.count \in Nat \ {0}
  BY DEF Averages
<1>2. k \in Nat \ {0} /\ x \in Int /\ y \in Int
  BY <1>1, ProductPositive
<1>3. 85 * k <= x
  <2>1. (85 * a.count) * b.count <= a.sum * b.count
    BY <1>1, Monotone DEF AtLeast
  <2> QED
    BY <1>1, <2>1, Associates
<1>4. y <= 100 * k
  <2>1. b.sum * a.count <= (100 * b.count) * a.count
    BY <1>1, Monotone
  <2>2. (100 * b.count) * a.count = 100 * k
    BY <1>1, Associates
  <2> QED
    BY <2>1, <2>2
<1>5. 100 * x <= 65 * y
  <2>1. (100 * a.sum) * b.count = 100 * x /\ (65 * b.sum) * a.count = 65 * y
    BY <1>1, Associates
  <2> QED
    BY <2>1 DEF AtMostPercent
<1> HIDE DEF k, x, y
<1> QED
  BY <1>2, <1>3, <1>4, <1>5

LEMMA ReportCoherent ==
    ASSUME NEW tf \in Timeframes, NEW points \in Seq(Point),
           NEW c \in ToSet(Report(points, tf)), NEW d \in ToSet(Report(points, tf)),
           c \notin Falling, d \in Falling
    PROVE  c = "historical_hot"
<1>1. Len(points) \in Nat
  OBVIOUS
<1>2. ~(Len(points) < Minimum(tf))
  <2>1. Len(points) < Minimum(tf) => ToSet(Report(points, tf)) = {}
    BY ReportTyped, OneReported
  <2> QED
    BY <2>1
<1>3. CASE tf = "now"
  <2>1. Len(points) >= 12 /\ Report(points, tf) = ShortWindow(points)
    BY <1>1, <1>2, <1>3 DEF Minimum, Report
  <2> DEFINE a == ShortCurrent(points)
             b == ShortBaseline(points)
  <2>2. a \in Averages /\ b \in Averages
    BY <2>1, WindowsTyped
  <2>3. ToSet(ShortWindow(points)) =
           SaidOneOf("sudden_spike", IsSpike(a, b, 250, 15, 15),
                     "warming_up", IsSpike(a, b, 135, 6, 10))
           \cup SaidOneOf("sudden_drop", IsDrop(a, b, 45, 15, 15),
                          "cooling_down", IsDrop(a, b, 70, 8, 12))
    BY <2>1, ShortReport
  <2> HIDE DEF a, b
  <2>4. IsSpike(a, b, 250, 15, 15) \/ IsSpike(a, b, 135, 6, 10)
    BY <2>1, <2>3 DEF SaidOneOf, Falling
  <2>5. IsDrop(a, b, 45, 15, 15) \/ IsDrop(a, b, 70, 8, 12)
    BY <2>1, <2>3 DEF SaidOneOf, Falling
  <2>6. \A p, f, q, e, g : \A d1 \in {6, 15} :
           e \in {8, 15} /\ g \in {12, 15} =>
              ~(IsSpike(a, b, p, d1, f) /\ IsDrop(a, b, q, e, g))
    BY <2>2, RiseExcludesFall
  <2> QED
    BY <2>4, <2>5, <2>6
<1>4. CASE tf = "mid"
  <2>1. Len(points) >= 17 /\ Report(points, tf) = MidWindow(points)
    BY <1>1, <1>2, <1>4 DEF Minimum, Report
  <2> DEFINE a == MidCurrent(points)
             b == MidBaseline(points)
  <2>2. a \in Averages /\ b \in Averages /\ b.sum <= 100 * b.count
    BY <2>1, WindowsTyped
  <2>3. ToSet(MidWindow(points)) =
           SaidOneOf("window_breakout", Breakout(points),
                     "steady_rise", IsSpike(a, b, 130, 8, 15))
           \cup SaidOnly("steady_decline", IsDrop(a, b, 65, 10, 20))
    BY <2>1, MidReport
  <2>4. Breakout(points) => AtLeast(a, 85)
    BY DEF Breakout, MidCurrent
  <2> HIDE DEF a, b
  <2>5. AtLeast(a, 85) \/ IsSpike(a, b, 130, 8, 15)
    BY <2>1, <2>3, <2>4 DEF SaidOneOf, SaidOnly, Falling
  <2>6. IsDrop(a, b, 65, 10, 20)
    BY <2>1, <2>3 DEF SaidOneOf, SaidOnly, Falling
  <2>7. ~IsSpike(a, b, 130, 8, 15)
    BY <2>2, <2>6, RiseExcludesFall
  <2>8. ~AtLeast(a, 85)
    BY <2>2, <2>6, BreakoutExcludesDecline DEF IsDrop
  <2> QED
    BY <2>5, <2>7, <2>8
<1>5. CASE tf = "long"
  <2>1. Len(points) >= 10 /\ Report(points, tf) = LongWindow(points)
    BY <1>1, <1>2, <1>5 DEF Minimum, Report
  <2> DEFINE a == LongCurrent(points)
             b == LongBaseline(points)
  <2>2. a \in Averages /\ b \in Averages
    BY <2>1, WindowsTyped
  <2>3. ToSet(LongWindow(points)) =
           SaidOneOf("historical_hot", Hot(points),
                     "long_rise", IsSpike(a, b, 135, 8, 15))
           \cup SaidOnly("long_decline", IsDrop(a, b, 65, 10, 20))
    BY <2>1, LongReport
  <2> HIDE DEF a, b
  <2>4. c = "historical_hot" \/ IsSpike(a, b, 135, 8, 15)
    BY <2>1, <2>3 DEF SaidOneOf, SaidOnly, Falling
  <2>5. IsDrop(a, b, 65, 10, 20)
    BY <2>1, <2>3 DEF SaidOneOf, SaidOnly, Falling
  <2>6. ~IsSpike(a, b, 135, 8, 15)
    BY <2>2, <2>5, RiseExcludesFall
  <2> QED
    BY <2>4, <2>6
<1> QED
  BY <1>3, <1>4, <1>5 DEF Timeframes

-----------------------------------------------------------------------------
(* Flat series and jumps. *)

(* Windows of one value have it for their average.                           *)
LEMMA WindowFlat ==
    ASSUME NEW points \in Seq(Point), NEW m \in Nat, NEW n \in Nat,
           m < n, n <= Len(points), NEW v \in Int,
           \A i \in Len(points) - n + 1 .. Len(points) - m : points[i].value = v
    PROVE  LET average == Average(Before(points, m, n))
           IN  average \in Averages /\ average.sum = v * average.count
<1> DEFINE average == Average(Before(points, m, n))
<1>1. \A i \in Len(points) - n + 1 .. Len(points) - m :
         v <= points[i].value /\ points[i].value <= v
  OBVIOUS
<1>2. /\ average \in Averages
      /\ average.count = n - m
      /\ v * (n - m) <= average.sum
      /\ average.sum <= v * (n - m)
  BY <1>1, WindowAverage
<1>3. average.sum \in Int /\ v * (n - m) \in Int
  BY <1>2 DEF Averages
<1>4. average.sum = v * average.count
  <2> DEFINE sum == average.sum
             product == v * (n - m)
  <2>1. sum \in Int /\ product \in Int /\ product <= sum /\ sum <= product
    BY <1>2, <1>3
  <2> HIDE DEF sum, product
  <2>2. sum = product
    BY <2>1
  <2> QED
    BY <1>2, <2>2, Zenon DEF sum, product
<1> HIDE DEF average
<1> QED
  BY <1>2, <1>4 DEF average

LEMMA FlatWindows ==
    ASSUME NEW points \in Seq(Point), NEW v \in Nat,
           \A i \in 1 .. Len(points) : points[i].value = v,
           NEW m \in Nat, NEW n \in Nat, 0 < m, m < n, n <= Len(points)
    PROVE  LET a == Average(Latest(points, m))
               b == Average(Before(points, m, n))
           IN  /\ a \in Averages /\ b \in Averages
               /\ a.sum = v * a.count /\ b.sum = v * b.count
<1> DEFINE zero == 0
<1>1. zero \in Nat /\ zero < m /\ m <= Len(points) /\ v \in Int
  OBVIOUS
<1>2. \A i \in Len(points) - m + 1 .. Len(points) - zero : points[i].value = v
  <2>1. \A i \in Len(points) - m + 1 .. Len(points) - zero : i \in 1 .. Len(points)
    OBVIOUS
  <2> QED
    BY <2>1
<1>3. \A i \in Len(points) - n + 1 .. Len(points) - m : points[i].value = v
  <2>1. \A i \in Len(points) - n + 1 .. Len(points) - m : i \in 1 .. Len(points)
    OBVIOUS
  <2> QED
    BY <2>1
<1>4. Latest(points, m) = Before(points, zero, m)
  BY LatestWindow
<1> HIDE DEF zero
<1>5. LET a == Average(Before(points, zero, m))
      IN  a \in Averages /\ a.sum = v * a.count
  BY <1>1, <1>2, WindowFlat
<1>6. LET b == Average(Before(points, m, n))
      IN  b \in Averages /\ b.sum = v * b.count
  BY <1>1, <1>3, WindowFlat
<1> QED
  BY <1>4, <1>5, <1>6

(* Flat points are reported only if they are hot.                            *)
LEMMA FlatReport ==
    ASSUME NEW tf \in Timeframes, NEW points \in Seq(Point), NEW v \in Nat,
           \A i \in 1 .. Len(points) : points[i].value = v
    PROVE  ToSet(Report(points, tf)) \subseteq {"window_breakout", "historical_hot"}
           /\ (v < 85 => ToSet(Report(points, tf)) = {})
<1>1. Len(points) \in Nat
  OBVIOUS
<1>2. CASE Len(points) < Minimum(tf)
  BY <1>2, ReportTyped, OneReported
<1>3. ASSUME ~(Len(points) < Minimum(tf)), tf = "now"
      PROVE  ToSet(Report(points, tf)) = {}
  <2>1. Len(points) >= 12 /\ Report(points, tf) = ShortWindow(points)
    BY <1>1, <1>3 DEF Minimum, Report
  <2> DEFINE a == ShortCurrent(points)
             b == ShortBaseline(points)
             m == Recent(points)
             n == Span(points)
  <2>2. m \in Nat /\ n \in Nat /\ 0 < m /\ m < n /\ n <= Len(points)
    BY <1>1, <2>1 DEF Recent, Span
  <2> HIDE DEF m, n
  <2>3. /\ a \in Averages /\ b \in Averages
        /\ a.sum = v * a.count /\ b.sum = v * b.count
    BY <2>2, FlatWindows DEF ShortCurrent, ShortBaseline, m, n
  <2>4. ToSet(ShortWindow(points)) =
           SaidOneOf("sudden_spike", IsSpike(a, b, 250, 15, 15),
                     "warming_up", IsSpike(a, b, 135, 6, 10))
           \cup SaidOneOf("sudden_drop", IsDrop(a, b, 45, 15, 15),
                          "cooling_down", IsDrop(a, b, 70, 8, 12))
    BY <2>1, ShortReport
  <2> HIDE DEF a, b
  <2>5. \A p : \A d, f \in Nat \ {0} : ~IsSpike(a, b, p, d, f) /\ ~IsDrop(a, b, p, d, f)
    BY <2>3, FlatNeither
  <2> QED
    BY <2>1, <2>4, <2>5 DEF SaidOneOf
<1>4. ASSUME ~(Len(points) < Minimum(tf)), tf = "mid"
      PROVE  /\ ToSet(Report(points, tf)) \subseteq {"window_breakout"}
             /\ v < 85 => ToSet(Report(points, tf)) = {}
  <2>1. Len(points) >= 17 /\ Report(points, tf) = MidWindow(points)
    BY <1>1, <1>4 DEF Minimum, Report
  <2> DEFINE a == MidCurrent(points)
             b == MidBaseline(points)
             m == 3
             n == 17
  <2>2. m \in Nat /\ n \in Nat /\ 0 < m /\ m < n /\ n <= Len(points)
    BY <1>1, <2>1
  <2>3. a = Average(Latest(points, m)) /\ b = Average(Before(points, m, n))
    BY DEF MidCurrent, MidBaseline
  <2>4. Breakout(points) => AtLeast(a, 85)
    BY DEF Breakout, MidCurrent
  <2>5. ToSet(MidWindow(points)) =
           SaidOneOf("window_breakout", Breakout(points),
                     "steady_rise", IsSpike(a, b, 130, 8, 15))
           \cup SaidOnly("steady_decline", IsDrop(a, b, 65, 10, 20))
    BY <2>1, MidReport
  <2> HIDE DEF a, b, m, n
  <2>6. /\ a \in Averages /\ b \in Averages
        /\ a.sum = v * a.count /\ b.sum = v * b.count
    BY <2>2, <2>3, FlatWindows
  <2>7. \A p : \A d, f \in Nat \ {0} : ~IsSpike(a, b, p, d, f) /\ ~IsDrop(a, b, p, d, f)
    BY <2>6, FlatNeither
  <2>8. v < 85 => ~AtLeast(a, 85)
    <3> SUFFICES ASSUME v < 85, AtLeast(a, 85) PROVE FALSE
      OBVIOUS
    <3>1. a.count \in Nat \ {0} /\ v + 1 <= 85
      BY <2>6 DEF Averages
    <3>2. (v + 1) * a.count <= 85 * a.count
      BY <3>1, Monotone
    <3>3. (v + 1) * a.count = v * a.count + a.count
      BY <3>1, Z3
    <3>4. v * a.count >= 85 * a.count
      BY <2>6 DEF AtLeast
    <3>5. v * a.count \in Int /\ 85 * a.count \in Int
      BY <3>1
    <3> QED
      BY <3>1, <3>2, <3>3, <3>4, <3>5
  <2> QED
    BY <2>1, <2>4, <2>5, <2>7, <2>8 DEF SaidOneOf, SaidOnly
<1>5. ASSUME ~(Len(points) < Minimum(tf)), tf = "long"
      PROVE  /\ ToSet(Report(points, tf)) \subseteq {"historical_hot"}
             /\ v < 85 => ToSet(Report(points, tf)) = {}
  <2>1. Len(points) >= 10 /\ Report(points, tf) = LongWindow(points)
    BY <1>1, <1>5 DEF Minimum, Report
  <2> DEFINE a == LongCurrent(points)
             b == LongBaseline(points)
             m == 2
             n == 10
  <2>2. m \in Nat /\ n \in Nat /\ 0 < m /\ m < n /\ n <= Len(points)
    BY <1>1, <2>1
  <2>3. a = Average(Latest(points, m)) /\ b = Average(Before(points, m, n))
    BY DEF LongCurrent, LongBaseline
  <2>4. Hot(points) => ~(v < 85)
    <3>1. Len(points) \in 1 .. Len(points)
      BY <1>1, <2>1
    <3>2. points[Len(points)].value = v
      BY <3>1
    <3> QED
      BY <3>2 DEF Hot
  <2>5. ToSet(LongWindow(points)) =
           SaidOneOf("historical_hot", Hot(points),
                     "long_rise", IsSpike(a, b, 135, 8, 15))
           \cup SaidOnly("long_decline", IsDrop(a, b, 65, 10, 20))
    BY <2>1, LongReport
  <2> HIDE DEF a, b, m, n
  <2>6. /\ a \in Averages /\ b \in Averages
        /\ a.sum = v * a.count /\ b.sum = v * b.count
    BY <2>2, <2>3, FlatWindows
  <2>7. \A p : \A d, f \in Nat \ {0} : ~IsSpike(a, b, p, d, f) /\ ~IsDrop(a, b, p, d, f)
    BY <2>6, FlatNeither
  <2> QED
    BY <2>1, <2>4, <2>5, <2>7 DEF SaidOneOf, SaidOnly
<1> QED
  BY <1>2, <1>3, <1>4, <1>5 DEF Timeframes

(* An average of new values over one of old values, two and a half times as  *)
(* large and 15 more.                                                        *)
LEMMA JumpIsSpike ==
    ASSUME NEW a \in Averages, NEW b \in Averages, NEW old \in Nat, NEW new \in Nat,
           a.sum = new * a.count, b.sum = old * b.count,
           2 * new >= 5 * old, new - old >= 15
    PROVE  IsSpike(a, b, 250, 15, 15)
<1> DEFINE k == a.count * b.count
<1>1. a.count \in Nat \ {0} /\ b.count \in Nat \ {0}
  BY DEF Averages
<1>2. k \in Nat \ {0} /\ new * k \in Int /\ old * k \in Int
  BY <1>1, ProductPositive
<1>3. a.sum * b.count = new * k
  BY <1>1, Associates
<1>4. b.sum * a.count = old * k
  <2>1. (old * b.count) * a.count = old * k
    BY <1>1, Associates
  <2> QED
    BY <2>1
<1>5. AtLeast(a, 15)
  <2>1. 15 * a.count <= new * a.count
    BY <1>1, Monotone
  <2> QED
    BY <2>1 DEF AtLeast
<1>6. 5 * (old * k) <= 2 * (new * k)
  <2>1. (5 * old) * k <= (2 * new) * k
    BY <1>2, Monotone
  <2>2. (5 * old) * k = 5 * (old * k) /\ (2 * new) * k = 2 * (new * k)
    BY <1>2, Associates
  <2> QED
    BY <2>1, <2>2
<1>7. 15 * k + old * k <= new * k
  <2>1. (15 + old) * k <= new * k
    BY <1>2, Monotone
  <2>2. (15 + old) * k = 15 * k + old * k
    BY <1>2, Z3
  <2> QED
    BY <2>1, <2>2
<1>8. /\ 100 * a.sum * b.count = 100 * (a.sum * b.count)
      /\ 250 * b.sum * a.count = 250 * (b.sum * a.count)
      /\ 15 * a.count * b.count = 15 * k
  <2>1. a.sum \in Int /\ b.sum \in Int
    BY DEF Averages
  <2> QED
    BY <1>1, <2>1, Associates
<1> HIDE DEF k
<1>9. AtLeastPercent(a, 250, b)
  BY <1>2, <1>3, <1>4, <1>6, <1>8 DEF AtLeastPercent
<1>10. Above(a, b, 15)
  BY <1>2, <1>3, <1>4, <1>7, <1>8 DEF Above
<1> QED
  BY <1>5, <1>9, <1>10 DEF IsSpike

(* The points end with a jump from old to new at start, two points long or,  *)
(* if there are 27 points or more, three.                                    *)
JumpsAt(points, start, old, new) ==
    /\ points \in Seq(Point)
    /\ start \in Nat /\ start >= 11
    /\ \/ Len(points) = start + 1 /\ Len(points) < 27
       \/ Len(points) = start + 2 /\ Len(points) >= 27
    /\ old \in Nat /\ new \in Nat /\ 2 * new >= 5 * old /\ new - old >= 15
    /\ \A i \in 1 .. start - 1 : points[i].value = old
    /\ \A i \in start .. Len(points) : points[i].value = new

LEMMA JumpReportedAtOnce ==
    ASSUME NEW points, NEW start, NEW old, NEW new, JumpsAt(points, start, old, new)
    PROVE  "sudden_spike" \in ToSet(Report(points, "now"))
<1> DEFINE a == ShortCurrent(points)
           b == ShortBaseline(points)
           m == Recent(points)
           n == Span(points)
           zero == 0
<1> USE DEF JumpsAt
<1>1. /\ m \in Nat /\ n \in Nat /\ zero \in Nat
      /\ zero < m /\ m < n /\ m <= Len(points) /\ n <= Len(points)
      /\ Len(points) - m + 1 = start
      /\ Len(points) - n + 1 >= 1
      /\ Len(points) - m = start - 1
      /\ Len(points) - zero = Len(points)
  BY DEF Recent, Span
<1>2. a = Average(Before(points, zero, m)) /\ b = Average(Before(points, m, n))
  BY <1>1, LatestWindow DEF ShortCurrent, ShortBaseline
<1> HIDE DEF m, n, a, b, zero
<1>3. \A i \in Len(points) - m + 1 .. Len(points) - zero : points[i].value = new
  BY <1>1
<1>4. \A i \in Len(points) - n + 1 .. Len(points) - m : points[i].value = old
  <2>1. \A i \in Len(points) - n + 1 .. Len(points) - m : i \in 1 .. start - 1
    BY <1>1
  <2> QED
    BY <2>1
<1>5. a \in Averages /\ a.sum = new * a.count
  <2>1. new \in Int
    OBVIOUS
  <2>2. LET average == Average(Before(points, zero, m))
        IN  average \in Averages /\ average.sum = new * average.count
    BY <1>1, <1>3, <2>1, WindowFlat
  <2> QED
    BY <1>2, <2>2
<1>6. b \in Averages /\ b.sum = old * b.count
  <2>1. old \in Int
    OBVIOUS
  <2>2. LET average == Average(Before(points, m, n))
        IN  average \in Averages /\ average.sum = old * average.count
    BY <1>1, <1>4, <2>1, WindowFlat
  <2> QED
    BY <1>2, <2>2
<1>7. IsSpike(a, b, 250, 15, 15)
  BY <1>5, <1>6, JumpIsSpike
<1>8. "sudden_spike" \in ToSet(ShortWindow(points))
  BY <1>7, ShortReport DEF SaidOneOf, a, b
<1> QED
  BY <1>8 DEF Report
=============================================================================
