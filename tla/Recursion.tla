----------------------------- MODULE Recursion ------------------------------
(***************************************************************************)
(* Induction over the natural numbers, and what it says of recursive       *)
(* functions.  The induction theorems of the library have an operator for  *)
(* their parameter, which no installed prover can instantiate; the minimum *)
(* of a well-founded relation (WFMin) is about a set, and sets will do: to *)
(* prove P(n) for every n, show that the set of all n with P(n) has 0 and  *)
(* the successor of each of its elements.                                  *)
(***************************************************************************)
EXTENDS Subsequence, WellFoundedInduction, TLAPS

(* A set of natural numbers has a least element.                             *)
LEMMA Least ==
    ASSUME NEW T, T \subseteq Nat, T # {}
    PROVE  \E x \in T : \A y \in T : x <= y
<1> DEFINE R == OpToRel(<, Nat)
<1>1. IsWellFoundedOn(R, Nat)
  BY NatLessThanWellFounded
<1>2. \A x, y \in Nat : <<y, x>> \notin R => x <= y
  BY DEF OpToRel
<1> HIDE DEF R
<1>3. PICK x \in T : \A y \in T : ~ (<<y, x>> \in R)
  BY <1>1, WFMin
<1>4. \A y \in T : x <= y
  BY <1>2, <1>3
<1> QED
  BY <1>4

(* Induction: a set with 0 and all successors has every natural number.      *)
LEMMA Induction ==
    ASSUME NEW S, 0 \in S, \A n \in Nat : n \in S => n + 1 \in S
    PROVE  Nat \subseteq S
<1> SUFFICES ASSUME Nat \ S # {} PROVE FALSE
  OBVIOUS
<1>1. PICK x \in Nat \ S : \A y \in Nat \ S : x <= y
  BY Least
<1>2. x - 1 \in Nat /\ x - 1 \in S
  BY <1>1
<1> QED
  BY <1>1, <1>2

(* A step takes the place n and the value before it to the value at n.       *)
IsStep(step, N, X) == step \in [(1 .. N) \X X -> X]

IsRun(f, N, X, base, step) ==
    /\ f \in [0 .. N -> X]
    /\ f[0] = base
    /\ \A n \in 1 .. N : f[n] = step[<<n, f[n - 1]>>]

(* Recursion defines a function: the steps can be taken one after another.   *)
LEMMA RunExists ==
    ASSUME NEW N \in Nat, NEW X, NEW base \in X, NEW step, IsStep(step, N, X)
    PROVE  \E f : IsRun(f, N, X, base, step)
<1> DEFINE S == {m \in Nat : m <= N => \E f : IsRun(f, m, X, base, step)}
<1>1. 0 \in S
  <2>1. IsRun([n \in 0 .. 0 |-> base], 0, X, base, step)
    BY DEF IsRun
  <2> QED
    BY <2>1
<1>2. ASSUME NEW m \in Nat, m \in S PROVE m + 1 \in S
  <2> SUFFICES ASSUME m + 1 <= N PROVE \E f : IsRun(f, m + 1, X, base, step)
    OBVIOUS
  <2>1. PICK f : IsRun(f, m, X, base, step)
    BY <1>2
  <2> DEFINE g == [n \in 0 .. m + 1 |-> IF n = m + 1 THEN step[<<n, f[m]>>] ELSE f[n]]
  <2>2. f[m] \in X /\ step[<<m + 1, f[m]>>] \in X
    BY <2>1 DEF IsRun, IsStep
  <2>3. g \in [0 .. m + 1 -> X]
    BY <2>1, <2>2 DEF IsRun
  <2>4. g[0] = base
    BY <2>1 DEF IsRun
  <2>5. ASSUME NEW n \in 1 .. m + 1 PROVE g[n] = step[<<n, g[n - 1]>>]
    BY <2>1 DEF IsRun
  <2> HIDE DEF g
  <2> QED
    BY <2>3, <2>4, <2>5 DEF IsRun
<1>3. N \in S
  <2> HIDE DEF S
  <2> QED
    BY <1>1, <1>2, Induction
<1> QED
  BY <1>3

(* Nothing else satisfies the equation: a function that takes the same steps *)
(* as long as its values are in X is such a run, so its values are in X.     *)
LEMMA RunTyped ==
    ASSUME NEW N \in Nat, NEW X, NEW base \in X, NEW step, IsStep(step, N, X),
           NEW f, f = [n \in 0 .. N |-> f[n]],
           f[0] = base,
           \A n \in 1 .. N : f[n - 1] \in X => f[n] = step[<<n, f[n - 1]>>]
    PROVE  IsRun(f, N, X, base, step)
<1> DEFINE S == {n \in Nat : n <= N => f[n] \in X}
<1>1. 0 \in S
  OBVIOUS
<1>2. ASSUME NEW n \in Nat, n \in S PROVE n + 1 \in S
  <2> SUFFICES ASSUME n + 1 <= N PROVE f[n + 1] \in X
    OBVIOUS
  <2>1. f[n] \in X
    BY <1>2
  <2>2. n + 1 \in 1 .. N /\ (n + 1) - 1 = n
    OBVIOUS
  <2>3. f[n + 1] = step[<<n + 1, f[n]>>]
    BY <2>1, <2>2
  <2> QED
    BY <2>1, <2>2, <2>3 DEF IsStep
<1>3. Nat \subseteq S
  <2> HIDE DEF S
  <2> QED
    BY <1>1, <1>2, Induction
<1>4. \A n \in 0 .. N : f[n] \in X
  BY <1>3
<1>5. f \in [0 .. N -> X]
  BY <1>4
<1>6. \A n \in 1 .. N : f[n] = step[<<n, f[n - 1]>>]
  BY <1>4
<1> QED
  BY <1>5, <1>6 DEF IsRun

(* Two runs that take the same steps up to N have the same values there.     *)
LEMMA RunsAgree ==
    ASSUME NEW N \in Nat, NEW X, NEW base,
           NEW step, NEW other, NEW f, NEW g,
           IsRun(f, N, X, base, step), IsRun(g, N + 1, X, base, other),
           \A n \in 1 .. N : \A x \in X : step[<<n, x>>] = other[<<n, x>>]
    PROVE  f[N] = g[N]
<1> DEFINE S == {n \in Nat : n <= N => f[n] = g[n]}
<1>1. 0 \in S
  BY DEF IsRun
<1>2. ASSUME NEW n \in Nat, n \in S PROVE n + 1 \in S
  <2> SUFFICES ASSUME n + 1 <= N PROVE f[n + 1] = g[n + 1]
    OBVIOUS
  <2> DEFINE m == n + 1
  <2>1. /\ m \in 1 .. N /\ m \in 1 .. N + 1 /\ m - 1 = n
        /\ n \in 0 .. N /\ f[n] = g[n]
    BY <1>2
  <2> HIDE DEF m
  <2>2. f[n] \in X
    BY <2>1 DEF IsRun
  <2>3. f[m] = step[<<m, f[n]>>] /\ g[m] = other[<<m, g[n]>>]
    BY <2>1 DEF IsRun
  <2>4. f[m] = g[m]
    BY <2>1, <2>2, <2>3
  <2> QED
    BY <2>4 DEF m
<1>3. N \in S
  <2> HIDE DEF S
  <2> QED
    BY <1>1, <1>2, Induction
<1> QED
  BY <1>3

-----------------------------------------------------------------------------

(* The function that Kept defines: what is kept of the first n elements.     *)
IsKept(kept, s, keep, X) ==
    /\ kept \in [0 .. Len(s) -> Seq(X)]
    /\ kept[0] = << >>
    /\ \A n \in 1 .. Len(s) :
          kept[n] = IF s[n] \in keep THEN Append(kept[n - 1], s[n]) ELSE kept[n - 1]

LEMMA KeptRuns ==
    ASSUME NEW X, NEW s \in Seq(X), NEW keep
    PROVE  \E kept : IsKept(kept, s, keep, X) /\ Kept(s, keep) = kept[Len(s)]
<1> DEFINE N == Len(s)
           S == Seq(X)
           base == << >>
           Next(f, n) == IF s[n] \in keep THEN Append(f[n - 1], s[n]) ELSE f[n - 1]
           Rec(f) == f = [n \in 0 .. N |-> IF n = 0 THEN base ELSE Next(f, n)]
           kept == CHOOSE f : Rec(f)
           step == [p \in (1 .. N) \X S |->
                      IF s[p[1]] \in keep THEN Append(p[2], s[p[1]]) ELSE p[2]]
<1>1. N \in Nat /\ base \in S
  OBVIOUS
<1>2. IsStep(step, N, S)
  BY DEF IsStep
<1>3. \A f : \A n \in 1 .. N : f[n - 1] \in S => step[<<n, f[n - 1]>>] = Next(f, n)
  OBVIOUS
<1>4. Kept(s, keep) = kept[N]
  BY DEF Kept
<1> HIDE DEF step, N, S, base, Next
<1>5. PICK f : IsRun(f, N, S, base, step)
  BY <1>1, <1>2, RunExists
<1>6. \A n \in 1 .. N : f[n] = Next(f, n)
  <2> SUFFICES ASSUME NEW n \in 1 .. N PROVE f[n] = Next(f, n)
    OBVIOUS
  <2>1. n - 1 \in 0 .. N
    BY <1>1
  <2>2. f[n - 1] \in S
    BY <1>5, <2>1 DEF IsRun
  <2> QED
    BY <1>3, <1>5, <2>2 DEF IsRun
<1>7. Rec(f)
  BY <1>1, <1>5, <1>6 DEF IsRun
<1>8. Rec(kept)
  BY <1>7
<1> HIDE DEF kept
<1>9. IsRun(kept, N, S, base, step)
  <2>1. kept[0] = base /\ \A n \in 1 .. N : kept[n] = Next(kept, n)
    BY <1>1, <1>8
  <2>2. kept = [n \in 0 .. N |-> kept[n]]
    BY <1>8
  <2>3. \A n \in 1 .. N : kept[n - 1] \in S => kept[n] = step[<<n, kept[n - 1]>>]
    BY <1>3, <2>1
  <2> QED
    BY <1>1, <1>2, <2>1, <2>2, <2>3, RunTyped
<1>10. \A n \in 1 .. N : kept[n] = Next(kept, n)
  BY <1>1, <1>8
<1> QED
  BY <1>4, <1>9, <1>10 DEF IsRun, IsKept, N, S, base, Next

(* Where the elements of a subsequence of the first n elements come from: at *)
(* increasing places, which are all those of an element to keep.             *)
IsPlacing(place, list, s, keep, n) ==
    /\ place \in [1 .. Len(list) -> 1 .. n]
    /\ \A i, j \in 1 .. Len(list) : i < j => place[i] < place[j]
    /\ \A i \in 1 .. Len(list) : list[i] = s[place[i]] /\ list[i] \in keep
    /\ \A p \in 1 .. n : s[p] \in keep => \E i \in 1 .. Len(list) : place[i] = p

(* One more element that is kept has the next place; one that is not kept    *)
(* leaves the places as they are.                                            *)
LEMMA PlacingGrows ==
    ASSUME NEW X, NEW s \in Seq(X), NEW keep, NEW n \in 1 .. Len(s),
           NEW list \in Seq(X), NEW place, IsPlacing(place, list, s, keep, n - 1)
    PROVE  /\ s[n] \in keep =>
                \E new : IsPlacing(new, Append(list, s[n]), s, keep, n)
           /\ s[n] \notin keep => IsPlacing(place, list, s, keep, n)
<1>1. ASSUME s[n] \in keep
      PROVE  \E new : IsPlacing(new, Append(list, s[n]), s, keep, n)
  <2> DEFINE L == Len(list)
             more == Append(list, s[n])
             new == [i \in 1 .. L + 1 |-> IF i = L + 1 THEN n ELSE place[i]]
  <2>1. /\ L \in Nat /\ Len(more) = L + 1
        /\ \A i \in 1 .. L : more[i] = list[i]
        /\ more[L + 1] = s[n]
    OBVIOUS
  <2>2. \A i \in 1 .. L : place[i] \in 1 .. n - 1
    BY DEF IsPlacing
  <2>3. \A i \in 1 .. L : new[i] = place[i]
    BY <2>1
  <2>4. new[L + 1] = n
    BY <2>1
  <2>5. new \in [1 .. L + 1 -> 1 .. n]
    BY <2>1, <2>2
  <2>6. \A i \in 1 .. L + 1 : i \in 1 .. L \/ i = L + 1
    BY <2>1
  <2> HIDE DEF more, new
  <2>7. \A i, j \in 1 .. L + 1 : i < j => new[i] < new[j]
    <3> SUFFICES ASSUME NEW i \in 1 .. L + 1, NEW j \in 1 .. L + 1, i < j
                 PROVE  new[i] < new[j]
      OBVIOUS
    <3>1. i \in 1 .. L /\ new[i] = place[i]
      BY <2>1, <2>3
    <3>2. CASE j = L + 1
      BY <2>2, <2>4, <3>1, <3>2
    <3>3. CASE j \in 1 .. L
      BY <2>3, <3>1, <3>3 DEF IsPlacing
    <3> QED
      BY <2>6, <3>2, <3>3
  <2>8. \A i \in 1 .. L + 1 : more[i] = s[new[i]] /\ more[i] \in keep
    BY <1>1, <2>1, <2>3, <2>4, <2>6 DEF IsPlacing
  <2>9. \A p \in 1 .. n : s[p] \in keep => \E i \in 1 .. L + 1 : new[i] = p
    <3> SUFFICES ASSUME NEW p \in 1 .. n, s[p] \in keep
                 PROVE  \E i \in 1 .. L + 1 : new[i] = p
      OBVIOUS
    <3>1. CASE p = n
      BY <2>1, <2>4, <3>1
    <3>2. CASE p \in 1 .. n - 1
      <4>1. PICK i \in 1 .. L : place[i] = p
        BY <3>2 DEF IsPlacing
      <4> QED
        BY <2>1, <2>3, <4>1
    <3> QED
      BY <3>1, <3>2
  <2>10. IsPlacing(new, more, s, keep, n)
    BY <2>1, <2>5, <2>7, <2>8, <2>9 DEF IsPlacing
  <2> QED
    BY <2>10 DEF more
<1>2. ASSUME s[n] \notin keep PROVE IsPlacing(place, list, s, keep, n)
  BY <1>2 DEF IsPlacing
<1> QED
  BY <1>1, <1>2

(* What is kept of a sequence: its type, and the places it comes from.       *)
THEOREM KeptPlaced ==
    ASSUME NEW X, NEW s \in Seq(X), NEW keep
    PROVE  /\ Kept(s, keep) \in Seq(X)
           /\ \E place : IsPlacing(place, Kept(s, keep), s, keep, Len(s))
<1>1. PICK kept : IsKept(kept, s, keep, X) /\ Kept(s, keep) = kept[Len(s)]
  BY KeptRuns
<1> DEFINE S == {n \in Nat : n <= Len(s) =>
                    \E place : IsPlacing(place, kept[n], s, keep, n)}
<1>2. 0 \in S
  <2>1. kept[0] = << >> /\ Len(kept[0]) = 0
    BY <1>1 DEF IsKept
  <2>2. IsPlacing(<< >>, kept[0], s, keep, 0)
    BY <2>1 DEF IsPlacing
  <2> QED
    BY <2>2
<1>3. ASSUME NEW n \in Nat, n \in S PROVE n + 1 \in S
  <2> SUFFICES ASSUME n + 1 <= Len(s)
               PROVE  \E place : IsPlacing(place, kept[n + 1], s, keep, n + 1)
    OBVIOUS
  <2>1. PICK place : IsPlacing(place, kept[n], s, keep, n)
    BY <1>3
  <2> DEFINE m == n + 1
  <2>2. m \in 1 .. Len(s) /\ m - 1 = n
    OBVIOUS
  <2> HIDE DEF m
  <2>3. kept[n] \in Seq(X)
    BY <1>1, <2>2 DEF IsKept
  <2>4. kept[m] = IF s[m] \in keep THEN Append(kept[n], s[m]) ELSE kept[n]
    BY <1>1, <2>2 DEF IsKept
  <2>5. IsPlacing(place, kept[n], s, keep, m - 1)
    BY <2>1, <2>2
  <2>6. \E new : IsPlacing(new, kept[m], s, keep, m)
    BY <2>2, <2>3, <2>4, <2>5, PlacingGrows
  <2> QED
    BY <2>6 DEF m
<1>4. Len(s) \in S
  <2> HIDE DEF S
  <2> QED
    BY <1>2, <1>3, Induction
<1>5. kept[Len(s)] \in Seq(X)
  BY <1>1 DEF IsKept
<1> QED
  BY <1>1, <1>4, <1>5

(* A subsequence is no longer than the sequence.                             *)
THEOREM KeptShorter ==
    ASSUME NEW X, NEW s \in Seq(X), NEW keep
    PROVE  Len(Kept(s, keep)) <= Len(s)
<1> DEFINE L == Len(Kept(s, keep))
<1>1. L \in Nat /\ Len(s) \in Nat
  BY KeptPlaced
<1>2. PICK place : IsPlacing(place, Kept(s, keep), s, keep, Len(s))
  BY KeptPlaced
<1>3. /\ place \in [1 .. L -> 1 .. Len(s)]
      /\ \A i, j \in 1 .. L : i < j => place[i] < place[j]
  BY <1>2 DEF IsPlacing
<1> HIDE DEF L
<1> DEFINE S == {i \in Nat : i \in 1 .. L => i <= place[i]}
<1>4. 0 \in S
  OBVIOUS
<1>5. ASSUME NEW i \in Nat, i \in S PROVE i + 1 \in S
  <2> SUFFICES ASSUME i + 1 \in 1 .. L PROVE i + 1 <= place[i + 1]
    OBVIOUS
  <2>1. CASE i = 0
    BY <1>3, <2>1
  <2>2. CASE i # 0
    <3>1. i \in 1 .. L /\ i <= place[i]
      BY <1>1, <1>5, <2>2
    <3>2. place[i] < place[i + 1]
      BY <1>3, <3>1
    <3>3. place[i] \in Int /\ place[i + 1] \in Int
      BY <1>3, <3>1
    <3> QED
      BY <3>1, <3>2, <3>3
  <2> QED
    BY <2>1, <2>2
<1>6. L \in S
  <2> HIDE DEF S
  <2> QED
    BY <1>1, <1>4, <1>5, Induction
<1>7. L = 0 \/ L \in 1 .. L
  BY <1>1
<1>8. L <= Len(s)
  BY <1>1, <1>3, <1>6, <1>7
<1> QED
  BY <1>8 DEF L
=============================================================================
