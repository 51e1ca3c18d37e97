-------------------------- MODULE Provider_proofs ---------------------------
(***************************************************************************)
(* Proofs about Provider and its two parts.  The locks keep a rotation     *)
(* from being overtaken, the cursor of the pool runs through one list for  *)
(* as long as it stays, and what the worker records is what it sends.  The *)
(* types of all that, and then the order in which a rotation tries nodes:  *)
(* the candidates are a subsequence of a group's members (Recursion says   *)
(* at which places), their order begins after the node that is selected,   *)
(* and a rotation has always tried the first of it and nothing else.       *)
(***************************************************************************)
EXTENDS Provider, Recursion, SequenceTheorems

(* The remainders of the pool's cursor: arithmetic the pool rests on.        *)
LEMMA DivMod ==
    ASSUME NEW n \in Nat \ {0}, NEW a \in Int
    PROVE  /\ a \div n \in Int
           /\ a % n \in 0 .. n - 1
           /\ a = (n * (a \div n)) + (a % n)
  BY Z3

(* A remainder is determined by its number.                                  *)
LEMMA Remainder ==
    ASSUME NEW n \in Nat \ {0}, NEW q \in Int, NEW p \in Int,
           NEW r \in 0 .. n - 1, NEW s \in 0 .. n - 1,
           (n * q) + r = (n * p) + s
    PROVE  r = s
<1>1. CASE q > p
  <2>1. q - p >= 1
    BY <1>1
  <2>2. n * (q - p) >= n
    BY <2>1, Z3
  <2>3. n * (q - p) = (n * q) - (n * p)
    BY Z3
  <2> QED
    BY <2>2, <2>3
<1>2. CASE q < p
  <2>1. p - q >= 1
    BY <1>2
  <2>2. n * (p - q) >= n
    BY <2>1, Z3
  <2>3. n * (p - q) = (n * p) - (n * q)
    BY Z3
  <2> QED
    BY <2>2, <2>3
<1> QED
  BY <1>1, <1>2

(* A multiple of the length makes no difference to a remainder.              *)
LEMMA ModMultiple ==
    ASSUME NEW n \in Nat \ {0}, NEW q \in Int, NEW r \in Int
    PROVE  ((n * q) + r) % n = r % n
<1> DEFINE a == (n * q) + r
           s == r \div n
           t == r % n
<1>1. a \in Int
  OBVIOUS
<1>2. /\ a \div n \in Int
      /\ a % n \in 0 .. n - 1
      /\ a = (n * (a \div n)) + (a % n)
  BY <1>1, DivMod
<1>3. s \in Int /\ t \in 0 .. n - 1 /\ r = (n * s) + t
  BY DivMod
<1>4. n * (q + s) = (n * q) + (n * s)
  BY <1>3, Z3
<1>5. a = (n * (q + s)) + t
  BY <1>3, <1>4
<1>6. a % n = t
  <2> DEFINE u == a \div n
             w == a % n
  <2>1. u \in Int /\ w \in 0 .. n - 1 /\ (n * u) + w = (n * (q + s)) + t
    BY <1>2, <1>5
  <2>2. q + s \in Int
    BY <1>3
  <2> HIDE DEF u, w, a, s, t
  <2>3. w = t
    BY <1>3, <2>1, <2>2, Remainder
  <2> QED
    BY <2>3 DEF w
<1> QED
  BY <1>6

(* Reducing the left side first makes no difference. *)
LEMMA ModShift ==
    ASSUME NEW n \in Nat \ {0}, NEW a \in Int, NEW d \in Int
    PROVE  ((a % n) - d) % n = (a - d) % n
<1> DEFINE q == a \div n
           r == a % n
<1>1. q \in Int /\ r \in 0 .. n - 1 /\ a = (n * q) + r
  BY DivMod
<1>2. r - d \in Int
  BY <1>1
<1> HIDE DEF q, r
<1>3. ((n * q) + (r - d)) % n = (r - d) % n
  BY <1>1, <1>2, ModMultiple
<1>4. a - d = (n * q) + (r - d)
  BY <1>1
<1>5. (r - d) % n = (a - d) % n
  BY <1>3, <1>4
<1> QED
  BY <1>5 DEF r

(* Integers less than n apart have different remainders. *)
LEMMA ModDistinct ==
    ASSUME NEW n \in Nat \ {0}, NEW a \in Int, NEW b \in Int,
           a - b < n, b - a < n, a % n = b % n
    PROVE  a = b
<1> DEFINE q == a \div n
           p == b \div n
           r == a % n
<1>1. q \in Int /\ r \in 0 .. n - 1 /\ a = (n * q) + r
  BY DivMod
<1>2. p \in Int /\ b = (n * p) + r
  BY DivMod
<1> HIDE DEF q, p, r
<1>3. ~(q > p)
  <2>1. ASSUME q > p PROVE FALSE
    <3>1. q - p >= 1
      BY <1>1, <1>2, <2>1
    <3>2. n * (q - p) >= n
      BY <3>1, <1>1, <1>2, Z3
    <3>3. n * (q - p) = (n * q) - (n * p)
      BY <1>1, <1>2, Z3
    <3> QED
      BY <3>2, <3>3, <1>1, <1>2
  <2> QED
    BY <2>1
<1>4. ~(q < p)
  <2>1. ASSUME q < p PROVE FALSE
    <3>1. p - q >= 1
      BY <1>1, <1>2, <2>1
    <3>2. n * (p - q) >= n
      BY <3>1, <1>1, <1>2, Z3
    <3>3. n * (p - q) = (n * p) - (n * q)
      BY <1>1, <1>2, Z3
    <3> QED
      BY <3>2, <3>3, <1>1, <1>2
  <2> QED
    BY <2>1
<1>5. q = p
  BY <1>1, <1>2, <1>3, <1>4
<1> QED
  BY <1>1, <1>2, <1>5

(* A number is its own remainder, a multiple of the length aside.            *)
LEMMA ModSmall ==
    ASSUME NEW n \in Nat \ {0}, NEW q \in Int, NEW a \in 0 .. n - 1
    PROVE  ((n * q) + a) % n = a
<1> DEFINE b == (n * q) + a
<1>1. b \in Int
  OBVIOUS
<1>2. b \div n \in Int /\ b % n \in 0 .. n - 1 /\ b = (n * (b \div n)) + (b % n)
  BY <1>1, DivMod
<1> DEFINE r == b % n
           p == b \div n
<1>3. (n * p) + r = (n * q) + a /\ p \in Int /\ r \in 0 .. n - 1
  BY <1>2
<1> HIDE DEF r, p, b
<1>4. r = a
  BY <1>3, Remainder
<1> QED
  BY <1>4 DEF r, b

(* Going round a list of n from place p up to place q: the places met.       *)
LEMMA RoundFrom ==
    ASSUME NEW n \in Nat \ {0}, NEW p \in 1 .. n, NEW q \in 1 .. n,
           NEW d \in 1 .. ((q - p - 1) % n)
    PROVE  LET r == ((p + d - 1) % n) + 1
           IN  /\ r \in 1 .. n
               /\ q > p => p < r /\ r < q
               /\ q <= p => p < r \/ r < q
<1> DEFINE x == p + d - 1
           r == (x % n) + 1
           w == (q - p - 1) % n
           zero == 0
           minus == -1
<1>1. /\ q - p - 1 \in Int /\ w \in 0 .. n - 1
  BY DivMod
<1>2. d \in 1 .. w /\ d \in Int
  BY <1>1
<1>3. x \in Int /\ x % n \in 0 .. n - 1
  BY <1>2, DivMod
<1>4. (n * zero) = 0 /\ (n * minus) = -n /\ (n * 1) = n
  OBVIOUS
<1>5. CASE q > p
  <2> DEFINE a == q - p - 1
  <2>1. a \in 0 .. n - 1 /\ (n * 0) + a = a
    BY <1>5
  <2>2. w = a
    <3>1. ((n * 0) + a) % n = a
      BY <2>1, ModSmall
    <3> QED
      BY <2>1, <3>1
  <2>3. x \in 0 .. n - 1 /\ (n * 0) + x = x /\ p < x + 1 /\ x + 1 < q
    <3> HIDE DEF w
    <3> QED
      BY <1>2, <1>5, <2>2
  <2> HIDE DEF w, x, a
  <2>4. x % n = x
    <3>1. ((n * 0) + x) % n = x
      BY <2>3, ModSmall
    <3> QED
      BY <2>3, <3>1
  <2> QED
    BY <1>5, <2>3, <2>4
<1>6. CASE q <= p
  <2> DEFINE a == q - p - 1 + n
  <2>1. a \in 0 .. n - 1 /\ (n * (-1)) + a = q - p - 1
    BY <1>6
  <2>2. w = a
    <3>1. -1 \in Int
      OBVIOUS
    <3>2. ((n * (-1)) + a) % n = a
      BY <2>1, <3>1, ModSmall
    <3> QED
      BY <2>1, <3>2
  <2>3. CASE x < n
    <3>1. x \in 0 .. n - 1 /\ (n * 0) + x = x /\ p < x + 1
      <4> HIDE DEF w
      <4> QED
        BY <1>2, <2>3
    <3> HIDE DEF x, w, a
    <3>2. ((n * 0) + x) % n = x
      BY <3>1, ModSmall
    <3> QED
      BY <1>6, <3>1, <3>2
  <2>4. CASE x >= n
    <3> DEFINE b == x - n
    <3>1. b \in 0 .. n - 1 /\ (n * 1) + b = x /\ b + 1 < q
      <4> HIDE DEF w
      <4> QED
        BY <1>2, <1>6, <2>2, <2>4
    <3> HIDE DEF b, w, a, x
    <3>2. ((n * 1) + b) % n = b
      BY <3>1, ModSmall
    <3>3. x % n = b
      BY <3>1, <3>2
    <3> QED
      BY <1>6, <3>1, <3>3
  <2> QED
    BY <1>3, <2>3, <2>4
<1> QED
  BY <1>5, <1>6

(* The cursor, reduced by the length, is within the list.                   *)
LEMMA PickedIsEntry ==
    ASSUME NEW list \in Seq(Pool!Endpoint), list # << >>, NEW c \in Int
    PROVE  /\ Len(list) \in Nat \ {0}
           /\ c % Len(list) \in 0 .. Len(list) - 1
           /\ Pool!Picked(list, c) \in Pool!Endpoint
<1>1. Len(list) \in Nat \ {0}
  OBVIOUS
<1>2. c % Len(list) \in 0 .. Len(list) - 1
  BY <1>1, DivMod
<1>3. (c % Len(list)) + 1 \in 1 .. Len(list)
  BY <1>1, <1>2
<1> QED
  BY <1>1, <1>2, <1>3 DEF Pool!Picked

(* The invariant says of a round what RoundRobin asks. *)
LEMMA PlacedIsRoundRobin ==
    Pool!PoolInv => RoundRobin /\ (age # "never" => Pool!Distinct(proxies))
<1> SUFFICES ASSUME Pool!PoolInv,
                    age # "never" \/ Pool!Distinct(proxies),
                    NEW i \in DOMAIN round, NEW j \in DOMAIN round,
                    round[i].url = round[j].url
             PROVE  i = j
  BY DEF RoundRobin, Pool!RoundRobin, Pool!PoolInv
<1> DEFINE n == Len(proxies)
           x == cursor - 1 - (Len(round) - i)
           y == cursor - 1 - (Len(round) - j)
<1>1. /\ proxies \in Seq(Pool!Endpoint) /\ cursor \in Nat
      /\ round \in Seq(Pool!Endpoint) /\ Len(round) <= n
      /\ round[i] = Pool!Picked(proxies, x)
      /\ round[j] = Pool!Picked(proxies, y)
      /\ Pool!Distinct(proxies)
  BY DEF Pool!PoolInv, Pool!PoolTypeOK, Pool!RoundPlaced
<1>2. i \in 1 .. Len(round) /\ j \in 1 .. Len(round) /\ Len(round) \in Nat
  BY <1>1
<1>3. proxies # << >>
  BY <1>1, <1>2
<1>4. x \in Int /\ y \in Int /\ x - y < n /\ y - x < n /\ n \in Nat \ {0}
  <2>1. n \in Nat \ {0}
    BY <1>1, <1>3
  <2>2. x - y = i - j /\ y - x = j - i
    BY <1>1, <1>2
  <2>3. cursor \in Int /\ Len(round) <= n
    BY <1>1
  <2>4. x \in Int /\ y \in Int
    BY <1>2, <2>3
  <2>5. i - j < n /\ j - i < n
    <3> HIDE DEF n
    <3> QED
      BY <1>2, <2>1, <2>3
  <2> QED
    BY <2>1, <2>2, <2>4, <2>5
<1>5. x % n \in 0 .. n - 1 /\ y % n \in 0 .. n - 1
  BY <1>4, DivMod
<1>6. (x % n) + 1 \in DOMAIN proxies /\ (y % n) + 1 \in DOMAIN proxies
  <2>1. DOMAIN proxies = 1 .. n
    BY <1>1
  <2> HIDE DEF n, x, y
  <2> QED
    BY <1>4, <1>5, <2>1
<1>7. proxies[(x % n) + 1].url = proxies[(y % n) + 1].url
  BY <1>1 DEF Pool!Picked
<1>8. (x % n) + 1 = (y % n) + 1
  BY <1>1, <1>6, <1>7 DEF Pool!Distinct
<1>9. x % n = y % n
  BY <1>5, <1>8
<1>10. x = y
  <2> HIDE DEF x, y, n
  <2> QED
    BY <1>4, <1>9, ModDistinct
<1> QED
  BY <1>1, <1>2, <1>10

-----------------------------------------------------------------------------

(* What is handed out next joins the round at its place. *)
LEMMA ServePlaces ==
    ASSUME Pool!PoolInv,
           NEW list \in Seq(Pool!Endpoint), list # << >>,
           NEW c \in Nat,
           list = proxies =>
               \A d \in Int : Pool!Picked(list, c - d) = Pool!Picked(list, cursor - d),
           Pool!Serve(list, c)
    PROVE  /\ proxies' = list
           /\ cursor' \in Nat
           /\ last' \in Pool!Endpoint
           /\ round' \in Seq(Pool!Endpoint)
           /\ Pool!RoundPlaced'
<1> DEFINE n == Len(list)
           e == Pool!Picked(list, c)
           s == Append(round, e)
           m == Len(round)
<1>1. /\ round \in Seq(Pool!Endpoint) /\ cursor \in Nat
      /\ m <= Len(proxies) /\ m \in Nat
      /\ \A k \in 1 .. m : round[k] = Pool!Picked(proxies, cursor - 1 - (m - k))
  BY DEF Pool!PoolInv, Pool!PoolTypeOK, Pool!RoundPlaced
<1>2. n \in Nat \ {0} /\ e \in Pool!Endpoint
  BY PickedIsEntry
<1>3. /\ proxies' = list /\ last' = e /\ cursor' = c + 1
      /\ round' = IF list = proxies THEN Pool!LastOf(n, s) ELSE <<e>>
  BY DEF Pool!Serve
<1>6. cursor' = c + 1 /\ Len(proxies') = n
  BY <1>3
<1>4. CASE list # proxies
  <2>1. round' = <<e>>
    BY <1>3, <1>4
  <2>2. Len(round') = 1 /\ round'[1] = e /\ DOMAIN round' = {1}
    BY <2>1
  <2>3. cursor' - 1 - (Len(round') - 1) = c
    <3>1. Len(round') = 1
      BY <2>2
    <3> QED
      BY <1>6, <3>1
  <2>4. Pool!RoundPlaced'
    <3>1. Len(round') <= Len(proxies')
      <4>1. Len(round') = 1
        BY <2>2
      <4> HIDE DEF n
      <4> QED
        BY <1>2, <1>6, <4>1
    <3>2. ASSUME NEW k \in DOMAIN round'
          PROVE  round'[k] = Pool!Picked(proxies', cursor' - 1 - (Len(round') - k))
      <4>1. k = 1
        BY <2>2
      <4> QED
        BY <1>3, <2>2, <2>3, <4>1
    <3> QED
      BY <3>1, <3>2 DEF Pool!RoundPlaced, Pool!Picked
  <2>5. round' \in Seq(Pool!Endpoint)
    BY <1>2, <2>1
  <2> QED
    BY <1>2, <1>3, <2>4, <2>5
<1>5. CASE list = proxies
  <2>1. /\ s \in Seq(Pool!Endpoint) /\ Len(s) = m + 1
        /\ \A k \in 1 .. m : s[k] = round[k]
        /\ s[m + 1] = e
    <3> HIDE DEF e
    <3> QED
      BY <1>1, <1>2
  <2>2. ASSUME NEW k \in 1 .. m + 1
        PROVE  s[k] = Pool!Picked(list, c - (m + 1 - k))
    <3>1. CASE k = m + 1
      <4>1. c - (m + 1 - k) = c
        BY <1>1, <3>1
      <4> QED
        BY <2>1, <3>1, <4>1
    <3>2. CASE k # m + 1
      <4>1. k \in 1 .. m /\ m + 1 - k \in Int
        BY <1>1, <3>2
      <4>2. s[k] = Pool!Picked(list, cursor - 1 - (m - k))
        BY <1>1, <1>5, <2>1, <4>1
      <4>3. cursor - 1 - (m - k) = cursor - (m + 1 - k)
        BY <1>1, <4>1
      <4>4. Pool!Picked(list, c - (m + 1 - k)) = Pool!Picked(list, cursor - (m + 1 - k))
        BY <1>5, <4>1
      <4> QED
        BY <4>2, <4>3, <4>4
    <3> QED
      BY <3>1, <3>2
  <2>3. CASE m + 1 <= n
    <3>1. round' = s
      <4> HIDE DEF e, n, m, s
      <4> QED
        BY <1>1, <1>2, <1>3, <1>5, <2>1, <2>3 DEF Pool!LastOf
    <3>2. ASSUME NEW k \in 1 .. m + 1
          PROVE  round'[k] = Pool!Picked(proxies', cursor' - 1 - (Len(round') - k))
      <4>1. cursor' - 1 - (Len(round') - k) = c - (m + 1 - k)
        <5>1. Len(round') = m + 1
          BY <2>1, <3>1
        <5> HIDE DEF m
        <5> QED
          BY <1>1, <1>6, <5>1
      <4> QED
        BY <1>3, <2>2, <3>1, <4>1
    <3>3. Len(round') <= Len(proxies') /\ DOMAIN round' = 1 .. m + 1
      <4> HIDE DEF e, n, m, s
      <4>1. Len(round') = m + 1
        BY <2>1, <3>1
      <4>2. DOMAIN round' = 1 .. m + 1
        BY <2>1, <3>1
      <4> QED
        BY <1>1, <1>6, <2>3, <4>1, <4>2
    <3>4. Pool!RoundPlaced'
      BY <3>2, <3>3 DEF Pool!RoundPlaced, Pool!Picked
    <3>5. round' \in Seq(Pool!Endpoint)
      BY <2>1, <3>1
    <3>6. cursor' \in Nat /\ proxies' = list /\ last' \in Pool!Endpoint
      BY <1>2, <1>3
    <3> QED
      BY <3>4, <3>5, <3>6
  <2>4. CASE ~(m + 1 <= n)
    <3>1. m = n
      BY <1>1, <1>2, <1>5, <2>4
    <3>2. round' = Tail(s)
      <4> HIDE DEF e, n, m, s
      <4> QED
        BY <1>1, <1>2, <1>3, <1>5, <2>1, <2>4 DEF Pool!LastOf
    <3>3. /\ round' \in Seq(Pool!Endpoint) /\ Len(round') = m
          /\ \A k \in 1 .. m : round'[k] = s[k + 1]
      <4> HIDE DEF e, n, s
      <4> QED
        BY <1>1, <2>1, <3>2
    <3>4. ASSUME NEW k \in 1 .. m
          PROVE  round'[k] = Pool!Picked(proxies', cursor' - 1 - (Len(round') - k))
      <4>1. k + 1 \in 1 .. m + 1
        BY <1>1
      <4>2. cursor' - 1 - (Len(round') - k) = c - (m + 1 - (k + 1))
        <5>1. Len(round') = m
          BY <3>3
        <5> HIDE DEF m
        <5> QED
          BY <1>1, <1>6, <5>1
      <4> HIDE DEF s
      <4> QED
        BY <1>3, <2>2, <3>3, <4>1, <4>2
    <3>5. Len(round') <= Len(proxies') /\ DOMAIN round' = 1 .. m
      <4> HIDE DEF n, m, s
      <4>1. Len(round') = m /\ DOMAIN round' = 1 .. m
        BY <3>3
      <4> QED
        BY <1>1, <1>6, <3>1, <4>1
    <3>6. Pool!RoundPlaced'
      BY <3>4, <3>5 DEF Pool!RoundPlaced, Pool!Picked
    <3> QED
      BY <1>2, <1>3, <3>3, <3>6
  <2> QED
    BY <2>3, <2>4
<1> QED
  BY <1>4, <1>5

(* The static list, with nothing handed out.                                *)
LEMMA PoolInitially == Pool!PoolInit => Pool!PoolInv
<1> SUFFICES ASSUME Pool!PoolInit PROVE Pool!PoolInv
  OBVIOUS
<1>1. proxies \in Seq(Pool!Endpoint) /\ round = << >>
  BY PoolAssumption DEF Pool!PoolInit, Pool!ListsAssumption
<1>2. Pool!PoolTypeOK
  BY <1>1 DEF Pool!PoolInit, Pool!PoolTypeOK
<1>3. Pool!RoundPlaced
  BY <1>1 DEF Pool!RoundPlaced
<1> QED
  BY <1>2, <1>3 DEF Pool!PoolInit, Pool!PoolInv

(* One step per action of the pool. *)
LEMMA PoolKeepsInv ==
    ASSUME Pool!PoolInv, [Pool!PoolNext]_poolVars
    PROVE  Pool!PoolInv'
<1> USE DEF Pool!PoolInv
<1>1. /\ Pool!PoolTypeOK /\ Pool!RoundPlaced
      /\ age # "never" => Pool!Distinct(proxies)
  OBVIOUS
<1>2. /\ Lists \subseteq Seq(Pool!Endpoint)
      /\ \A list \in Lists : Pool!Distinct(list)
  BY PoolAssumption DEF Pool!ListsAssumption
<1>3. ASSUME UNCHANGED <<proxies, cursor, round>>
      PROVE  Pool!RoundPlaced'
  BY <1>1, <1>3 DEF Pool!RoundPlaced, Pool!Picked
<1>4. ASSUME UNCHANGED proxies, age' # "never" => age # "never"
      PROVE  age' # "never" => Pool!Distinct(proxies')
  BY <1>1, <1>4 DEF Pool!Distinct
<1>5. ASSUME NEW t \in Callers, Pool!NextProxy(t) PROVE Pool!PoolInv'
  <2>1. Pool!Serve(proxies, cursor) /\ UNCHANGED <<age, holder>> /\ proxies' = proxies
    BY <1>5 DEF Pool!NextProxy, Pool!Serve
  <2>2. CASE proxies = << >>
    <3>1. last' = None /\ UNCHANGED <<cursor, round>>
      BY <2>1, <2>2 DEF Pool!Serve
    <3> QED
      BY <1>1, <1>3, <1>4, <2>1, <3>1 DEF Pool!PoolTypeOK, Pool!Distinct
  <2>3. CASE proxies # << >>
    <3>1. /\ cursor' \in Nat
          /\ last' \in Pool!Endpoint /\ round' \in Seq(Pool!Endpoint)
          /\ Pool!RoundPlaced'
      BY <1>1, <2>1, <2>3, ServePlaces DEF Pool!PoolTypeOK
    <3> QED
      BY <1>1, <1>4, <2>1, <3>1 DEF Pool!PoolTypeOK, Pool!Distinct
  <2> QED
    BY <2>2, <2>3
<1>6. ASSUME NEW t \in Callers, Pool!FetchList(t) PROVE Pool!PoolInv'
  BY <1>1, <1>3, <1>4, <1>6 DEF Pool!FetchList, Pool!PoolTypeOK, Pool!Distinct
<1>7. ASSUME NEW t \in Callers, Pool!Refresh(t) PROVE Pool!PoolInv'
  <2>1. PICK list \in Lists \ {<< >>} : Pool!Serve(list, cursor % Len(list))
    BY <1>7 DEF Pool!Refresh
  <2>2. list \in Seq(Pool!Endpoint) /\ list # << >> /\ Pool!Distinct(list)
    BY <1>2, <2>1
  <2>3. Len(list) \in Nat \ {0} /\ cursor \in Int
    BY <1>1, <2>2 DEF Pool!PoolTypeOK
  <2>4. cursor % Len(list) \in Nat
    BY <2>3, DivMod
  <2>5. ASSUME NEW d \in Int
        PROVE  Pool!Picked(list, (cursor % Len(list)) - d) = Pool!Picked(list, cursor - d)
    BY <2>3, ModShift DEF Pool!Picked
  <2>6. /\ proxies' = list /\ cursor' \in Nat
        /\ last' \in Pool!Endpoint /\ round' \in Seq(Pool!Endpoint)
        /\ Pool!RoundPlaced'
    BY <2>1, <2>2, <2>4, <2>5, ServePlaces
  <2>7. age' = "fresh" /\ holder' = None
    BY <1>7 DEF Pool!Refresh
  <2> QED
    BY <2>2, <2>6, <2>7 DEF Pool!PoolTypeOK, Pool!Distinct
<1>8. ASSUME NEW t \in Callers, Pool!RefreshFails(t) PROVE Pool!PoolInv'
  BY <1>1, <1>3, <1>4, <1>8 DEF Pool!RefreshFails, Pool!PoolTypeOK, Pool!Distinct
<1>9. CASE Pool!Expire
  BY <1>1, <1>3, <1>4, <1>9 DEF Pool!Expire, Pool!PoolTypeOK, Pool!Distinct
<1>10. CASE UNCHANGED poolVars
  BY <1>1, <1>3, <1>4, <1>10 DEF poolVars, Pool!PoolTypeOK, Pool!Distinct
<1> QED
  BY <1>5, <1>6, <1>7, <1>8, <1>9, <1>10 DEF Pool!PoolNext

-----------------------------------------------------------------------------

(* Every step of the program is one of the pool or leaves the pool alone,   *)
(* and likewise with Clash.                                                 *)
LEMMA StepsOfParts ==
    ASSUME [Next]_vars
    PROVE  /\ [Pool!PoolNext]_poolVars
           /\ [Clash!ClashNext]_clashVars
<1>1. Collector \in Callers /\ Pages \subseteq Callers
  BY DEF Callers
<1> USE DEF Pool!PoolNext, Clash!ClashNext
<1>2. CASE StartCollection
  BY <1>2 DEF StartCollection
<1>3. CASE TakeProxy
  BY <1>1, <1>3 DEF TakeProxy
<1>4. CASE FetchSubscription
  BY <1>1, <1>4 DEF FetchSubscription
<1>5. CASE SubscriptionFails
  BY <1>1, <1>5 DEF SubscriptionFails
<1>6. CASE BuildRequest
  BY <1>6 DEF BuildRequest
<1>7. CASE Answered \/ RequestFails
  BY <1>7 DEF Answered, RequestFails, Send
<1>8. CASE StartRotation
  BY <1>1, <1>8 DEF StartRotation
<1>9. CASE RotateClash
  BY <1>1, <1>9 DEF RotateClash
<1>10. ASSUME NEW p \in Pages, Click(p, "check") \/ Click(p, "rotate")
       PROVE  UNCHANGED <<poolVars, clashVars>>
  BY <1>10 DEF Click
<1>11. ASSUME NEW p \in Pages, CheckProxy(p) \/ CheckFetches(p) \/ CheckFails(p)
       PROVE  Pool!PoolNext /\ UNCHANGED clashVars
  BY <1>1, <1>11 DEF CheckProxy, CheckFetches, CheckFails
<1>12. ASSUME NEW p \in Pages, PageStartsRotation(p) \/ PageRotates(p)
       PROVE  Clash!ClashNext /\ UNCHANGED poolVars
  BY <1>1, <1>12 DEF PageStartsRotation, PageRotates
<1>13. CASE PoolExpires
  BY <1>13 DEF PoolExpires
<1>14. CASE Meddling
  BY <1>14 DEF Meddling
<1>15. CASE UNCHANGED vars
  BY <1>15 DEF vars
<1> QED
  BY <1>2, <1>3, <1>4, <1>5, <1>6, <1>7, <1>8, <1>9, <1>10, <1>11, <1>12,
     <1>13, <1>14, <1>15 DEF Next, CollectorStep, PageStep

(* The program uses the pool as ProxyPool says, and Clash as                *)
(* ClashController says: what holds of either part holds in the program.    *)
THEOREM PartsImplemented == Spec => Pool!PoolSpec /\ Clash!ClashSpec
<1>1. Init => Pool!PoolInit /\ Clash!ClashInit
  BY DEF Init
<1>2. [Next]_vars => /\ [Pool!PoolNext]_(Pool!poolVars)
                     /\ [Clash!ClashNext]_(Clash!clashVars)
  BY StepsOfParts DEF Pool!poolVars, Clash!clashVars, poolVars, clashVars
<1> QED
  BY <1>1, <1>2, PTL DEF Spec, Pool!PoolSpec, Clash!ClashSpec

(* In every round of the pool each URL has its turn once, however often the *)
(* subscription is fetched and whoever takes the proxies.                   *)
THEOREM RoundRobinHolds == Spec => []RoundRobin
<1>1. Init => Pool!PoolInv
  BY PoolInitially DEF Init
<1>2. Pool!PoolInv /\ [Next]_vars => Pool!PoolInv'
  BY StepsOfParts, PoolKeepsInv
<1>3. Pool!PoolInv => RoundRobin
  BY PlacedIsRoundRobin
<1> QED
  BY <1>1, <1>2, <1>3, PTL DEF Spec

-----------------------------------------------------------------------------

Fields == {"pc", "group", "current", "todo", "failed", "result"}

(* As much of the types as the locks depend on. *)
RotationShape ==
    /\ DOMAIN rotation = Callers
    /\ DOMAIN meddled = Callers
    /\ DOMAIN now = Clash!Groups
    /\ \A t \in Callers : /\ DOMAIN rotation[t] = Fields
                           /\ rotation[t].group \in Clash!Groups

(* The group a thread rotates is the one that is effective. *)
RotationInMode ==
    \A t \in Callers :
        rotation[t].pc \in {"group", "test", "select"} /\ ~meddled[t]
        => rotation[t].group = Clash!EffectiveGroup

ClashInv ==
    /\ RotationShape
    /\ Clash!LockHeld
    /\ RotationInMode
    /\ Clash!RotationFromCurrent

(* Nobody rotates at first.                                                  *)
LEMMA ClashInitially == Clash!ClashInit => ClashInv
  BY DEF Clash!ClashInit, ClashInv, RotationShape, Fields, Clash!Groups,
         Clash!LockHeld, RotationInMode, Clash!RotationFromCurrent, Clash!Resting

(* A step of a rotation that goes on leaves the lock with its thread and    *)
(* Clash as it is.                                                          *)
LEMMA RotationGoesOn ==
    ASSUME ClashInv, NEW t \in Callers, NEW r,
           rotation[t].pc # "idle",
           rotation' = [rotation EXCEPT ![t] = r],
           DOMAIN r = Fields, r.group \in Clash!Groups,
           UNCHANGED <<mode, layout, now, lock, meddled>>,
           r.pc \in {"group", "test", "select"} /\ ~meddled[t]
               => r.group = Clash!EffectiveGroup,
           r.pc \in {"test", "select"} /\ ~meddled[t] => r.current = now[r.group]
    PROVE  ClashInv'
<1> USE DEF ClashInv
<1>1. RotationShape'
  BY DEF RotationShape, Clash!Groups
<1>2. \A u \in Callers : rotation'[u] = IF u = t THEN r ELSE rotation[u]
  BY DEF RotationShape
<1>3. Clash!LockHeld'
  BY <1>2 DEF Clash!LockHeld
<1>4. RotationInMode'
  BY <1>2 DEF RotationInMode, Clash!EffectiveGroup
<1>5. Clash!RotationFromCurrent'
  BY <1>2 DEF Clash!RotationFromCurrent
<1> QED
  BY <1>1, <1>3, <1>4, <1>5

(* A rotation that ends may change Clash, for no other is under way.        *)
LEMMA RotationEnds ==
    ASSUME ClashInv, NEW t \in Callers, NEW result,
           rotation[t].pc # "idle",
           Clash!Finish(t, result),
           DOMAIN now' = DOMAIN now,
           UNCHANGED <<mode, layout, meddled>>
    PROVE  ClashInv'
<1> USE DEF ClashInv
<1> DEFINE r == Clash!Resting(result)
<1>1. /\ rotation' = [rotation EXCEPT ![t] = r] /\ lock' = None
      /\ DOMAIN r = Fields /\ r.pc = "idle" /\ r.group \in Clash!Groups
  BY DEF Clash!Finish, Clash!Resting, Fields, Clash!Groups
<1>2. RotationShape'
  BY <1>1 DEF RotationShape, Clash!Groups
<1>3. \A u \in Callers : rotation'[u] = IF u = t THEN r ELSE rotation[u]
  BY <1>1 DEF RotationShape
<1>4. \A u \in Callers : u # t => rotation[u].pc = "idle"
  BY DEF Clash!LockHeld
<1>5. \A u \in Callers : rotation'[u].pc = "idle"
  BY <1>1, <1>3, <1>4
<1> QED
  BY <1>2, <1>5 DEF Clash!LockHeld, RotationInMode, Clash!RotationFromCurrent

(* One step per action of the controller. *)
LEMMA ClashKeepsInv ==
    ASSUME ClashInv, [Clash!ClashNext]_clashVars
    PROVE  ClashInv'
<1> USE DEF ClashInv
<1>1. ASSUME NEW t \in Callers, Clash!Rotate(t) PROVE ClashInv'
  <2>1. RotationShape'
    BY <1>1 DEF Clash!Rotate, RotationShape, Fields, Clash!Groups
  <2>2. \A u \in Callers : rotation[u].pc = "idle"
    <3>1. lock = None /\ None \notin Callers
      BY <1>1, ClashAssumption DEF Clash!Rotate, Clash!ClashAssumption
    <3> QED
      BY <3>1 DEF Clash!LockHeld
  <2>3. /\ rotation'[t].pc = "mode" /\ lock' = t
        /\ \A u \in Callers : u # t => rotation'[u] = rotation[u]
    BY <1>1 DEF Clash!Rotate, RotationShape, Fields
  <2> QED
    BY <2>1, <2>2, <2>3 DEF Clash!LockHeld, RotationInMode, Clash!RotationFromCurrent
<1>2. ASSUME NEW t \in Callers, Clash!ReadMode(t) PROVE ClashInv'
  <2> DEFINE r == [rotation[t] EXCEPT !.pc = "group", !.group = Clash!EffectiveGroup]
  <2>1. /\ rotation[t].pc = "mode"
        /\ rotation' = [rotation EXCEPT ![t] = r]
        /\ UNCHANGED <<mode, layout, now, lock, meddled>>
    BY <1>2 DEF Clash!ReadMode
  <2>2. DOMAIN r = Fields /\ r.pc = "group" /\ r.group = Clash!EffectiveGroup
    BY DEF RotationShape, Fields
  <2>3. r.group \in Clash!Groups
    BY <2>2 DEF Clash!EffectiveGroup, Clash!Groups
  <2> HIDE DEF r
  <2> QED
    BY <2>1, <2>2, <2>3, RotationGoesOn
<1>3. ASSUME NEW t \in Callers, Clash!ReadGroup(t) PROVE ClashInv'
  <2> DEFINE g == rotation[t].group
             order == Clash!Ordered(Clash!Candidates(g), now[g])
             r == [rotation[t] EXCEPT !.pc = "test", !.current = now[g], !.todo = order]
  <2>1. /\ rotation[t].pc = "group"
        /\ rotation' = [rotation EXCEPT ![t] = r]
        /\ UNCHANGED <<mode, layout, now, lock, meddled>>
    BY <1>3 DEF Clash!ReadGroup
  <2> HIDE DEF order
  <2>2. DOMAIN r = Fields /\ r.pc = "test" /\ r.group = g /\ r.current = now[g]
    BY DEF RotationShape, Fields
  <2>3. g \in Clash!Groups /\ (~meddled[t] => g = Clash!EffectiveGroup)
    BY <2>1 DEF RotationShape, RotationInMode
  <2> HIDE DEF r, g
  <2> QED
    BY <2>1, <2>2, <2>3, RotationGoesOn
<1>4. ASSUME NEW t \in Callers, Clash!TestPasses(t) PROVE ClashInv'
  <2> DEFINE r == [rotation[t] EXCEPT !.pc = "select"]
  <2>1. /\ rotation[t].pc = "test"
        /\ rotation' = [rotation EXCEPT ![t] = r]
        /\ UNCHANGED <<mode, layout, now, lock, meddled>>
    BY <1>4 DEF Clash!TestPasses
  <2>2. /\ DOMAIN r = Fields /\ r.pc = "select"
        /\ r.group = rotation[t].group /\ r.current = rotation[t].current
    BY DEF RotationShape, Fields
  <2>3. /\ rotation[t].group \in Clash!Groups
        /\ ~meddled[t] => /\ rotation[t].group = Clash!EffectiveGroup
                          /\ rotation[t].current = now[rotation[t].group]
    BY <2>1 DEF RotationShape, RotationInMode, Clash!RotationFromCurrent
  <2> HIDE DEF r
  <2> QED
    BY <2>1, <2>2, <2>3, RotationGoesOn
<1>5. ASSUME NEW t \in Callers, Clash!TestFails(t) PROVE ClashInv'
  <2> DEFINE r == [rotation[t] EXCEPT !.todo = Tail(@),
                                      !.failed = @ \cup {Head(rotation[t].todo)}]
  <2>1. /\ rotation[t].pc = "test"
        /\ rotation' = [rotation EXCEPT ![t] = r]
        /\ UNCHANGED <<mode, layout, now, lock, meddled>>
    BY <1>5 DEF Clash!TestFails
  <2>2. /\ DOMAIN r = Fields /\ r.pc = "test"
        /\ r.group = rotation[t].group /\ r.current = rotation[t].current
    BY <2>1 DEF RotationShape, Fields
  <2>3. /\ rotation[t].group \in Clash!Groups
        /\ ~meddled[t] => /\ rotation[t].group = Clash!EffectiveGroup
                          /\ rotation[t].current = now[rotation[t].group]
    BY <2>1 DEF RotationShape, RotationInMode, Clash!RotationFromCurrent
  <2> HIDE DEF r
  <2> QED
    BY <2>1, <2>2, <2>3, RotationGoesOn
<1>6. ASSUME NEW t \in Callers, Clash!NoCandidates(t) PROVE ClashInv'
  BY <1>6, RotationEnds DEF Clash!NoCandidates
<1>7. ASSUME NEW t \in Callers, Clash!LastTestFails(t) PROVE ClashInv'
  BY <1>7, RotationEnds DEF Clash!LastTestFails
<1>8. ASSUME NEW t \in Callers, Clash!SelectProxy(t) PROVE ClashInv'
  BY <1>8, RotationEnds DEF Clash!SelectProxy
<1>9. ASSUME NEW t \in Callers, Clash!AnswerLost(t) PROVE ClashInv'
  BY <1>9, RotationEnds DEF Clash!AnswerLost
<1>10. ASSUME NEW t \in Callers, Clash!RequestFails(t) PROVE ClashInv'
  BY <1>10, RotationEnds DEF Clash!RequestFails
<1>11. CASE Clash!UserStep
  <2>1. /\ UNCHANGED <<lock, rotation>>
        /\ meddled' = [t \in Callers |-> TRUE]
        /\ DOMAIN now' = DOMAIN now
    BY <1>11 DEF Clash!UserStep, Clash!UserSelects, Clash!UserChangesMode,
                 Clash!UserReloads, Clash!Meddle, RotationShape
  <2> QED
    BY <2>1 DEF RotationShape, Clash!LockHeld, RotationInMode,
                Clash!RotationFromCurrent, Clash!Groups
<1>12. CASE UNCHANGED clashVars
  BY <1>12 DEF clashVars, RotationShape, Clash!LockHeld, RotationInMode,
               Clash!RotationFromCurrent, Clash!Groups, Clash!EffectiveGroup
<1> QED
  BY <1>1, <1>2, <1>3, <1>4, <1>5, <1>6, <1>7, <1>8, <1>9, <1>10, <1>11, <1>12
     DEF Clash!ClashNext, Clash!RotationStep

(* No thread of the program switches Clash under another that is testing    *)
(* candidates: the lock of the controller sees to it.                       *)
THEOREM RotationFromCurrentHolds == Spec => []RotationFromCurrent
<1>1. Init => ClashInv
  BY ClashInitially DEF Init
<1>2. ClashInv /\ [Next]_vars => ClashInv'
  BY StepsOfParts, ClashKeepsInv
<1>3. ClashInv => RotationFromCurrent
  BY DEF ClashInv, RotationFromCurrent
<1> QED
  BY <1>1, <1>2, <1>3, PTL DEF Spec

-----------------------------------------------------------------------------

WorkerFields == {"pc", "attempt", "node", "proxy", "overtaken"}

Matches ==
    /\ recorded.url = sent.url
    /\ recorded.key = sent.key
    /\ recorded.name = sent.name \/ sent.overtaken

(* What the worker knows at each point of a collection.  In "name" the pool *)
(* still has the proxy it returned, or a page was there; in "send" it has   *)
(* recorded what it is about to send; anywhere else the record is that of   *)
(* the last request.                                                        *)
WorkerInv ==
    /\ DOMAIN worker = WorkerFields
    /\ worker.pc = "name" => worker.proxy = last \/ worker.overtaken
    /\ worker.pc = "send" =>
         /\ recorded.url = worker.proxy.url
         /\ recorded.key = KeyOf(recorded.name)
         /\ recorded.name = worker.proxy.name \/ worker.overtaken
    /\ worker.pc # "send" /\ sent # None => Matches

(* After an exception the worker is idle or about to rotate.                 *)
LEMMA AfterExceptionShape ==
    ASSUME WorkerInv, NEW rateLimit \in BOOLEAN
    PROVE  /\ DOMAIN AfterException(rateLimit) = WorkerFields
           /\ AfterException(rateLimit).pc \in {"idle", "rotate"}
  BY DEF WorkerInv, WorkerFields, AfterException, Idle

(* A step that moves the worker between points where nothing is pending.    *)
LEMMA WorkerElsewhere ==
    ASSUME WorkerInv, worker.pc # "send",
           DOMAIN worker' = WorkerFields, worker'.pc \notin {"name", "send"},
           UNCHANGED recorded, sent' = sent \/ sent' = None
    PROVE  WorkerInv'
  BY DEF WorkerInv, Matches

(* What is sent is what was recorded.                                        *)
LEMMA SendKeepsInv ==
    ASSUME WorkerInv, Send,
           DOMAIN worker' = WorkerFields, worker'.pc \in {"idle", "rotate"}
    PROVE  WorkerInv'
<1>1. /\ worker.pc = "send" /\ UNCHANGED recorded
      /\ sent' = [name |-> worker.proxy.name, url |-> worker.proxy.url,
                  key |-> KeyOf(recorded.name), overtaken |-> worker.overtaken]
  BY DEF Send
<1>2. /\ sent'.name = worker.proxy.name /\ sent'.url = worker.proxy.url
      /\ sent'.key = KeyOf(recorded.name) /\ sent'.overtaken = worker.overtaken
  BY <1>1
<1>3. Matches'
  BY <1>1, <1>2 DEF WorkerInv, Matches
<1> QED
  BY <1>3 DEF WorkerInv

(* One step per action that touches the worker, the record or the pool.     *)
LEMMA WorkerKeepsInv ==
    ASSUME WorkerInv, [Next]_vars
    PROVE  WorkerInv'
<1>1. DOMAIN worker = WorkerFields
  BY DEF WorkerInv
<1>2. DOMAIN Idle = WorkerFields /\ Idle.pc = "idle"
  BY DEF Idle, WorkerFields
<1>3. CASE StartCollection
  <2>1. DOMAIN worker' = WorkerFields /\ worker'.pc = "pool"
    BY <1>2, <1>3 DEF StartCollection, WorkerFields
  <2> QED
    BY <1>3, <2>1, WorkerElsewhere DEF StartCollection
<1>4. CASE TakeProxy
  <2>1. /\ worker.pc = "pool" /\ UNCHANGED <<recorded, sent>>
        /\ worker' = [worker EXCEPT !.pc = "name", !.proxy = last', !.overtaken = FALSE]
    BY <1>4 DEF TakeProxy
  <2>2. /\ DOMAIN worker' = WorkerFields /\ worker'.pc = "name"
        /\ worker'.proxy = last'
    BY <1>1, <2>1 DEF WorkerFields
  <2> QED
    BY <2>1, <2>2 DEF WorkerInv, Matches
<1>5. CASE FetchSubscription
  BY <1>5 DEF FetchSubscription, Pool!FetchList, providerVars, clashVars,
              WorkerInv, Matches, KeyOf
<1>6. CASE SubscriptionFails
  <2>1. PICK rateLimit \in BOOLEAN : worker' = AfterException(rateLimit)
    BY <1>6 DEF SubscriptionFails
  <2>2. DOMAIN worker' = WorkerFields /\ worker'.pc \in {"idle", "rotate"}
    BY <2>1, AfterExceptionShape
  <2> QED
    BY <1>6, <2>2, WorkerElsewhere DEF SubscriptionFails
<1>7. CASE BuildRequest
  <2>1. /\ worker.pc = "name" /\ UNCHANGED <<last, sent>>
        /\ recorded' = [name |-> last.name, url |-> worker.proxy.url,
                        key |-> KeyOf(last.name)]
        /\ worker' = [worker EXCEPT !.pc = "send"]
    BY <1>7 DEF BuildRequest, poolVars
  <2>2. /\ DOMAIN worker' = WorkerFields /\ worker'.pc = "send"
        /\ worker'.proxy = worker.proxy /\ worker'.node = worker.node
        /\ worker'.overtaken = worker.overtaken
    BY <1>1, <2>1 DEF WorkerFields
  <2>3. /\ recorded'.name = last.name /\ recorded'.url = worker.proxy.url
        /\ recorded'.key = KeyOf(last.name)
    BY <2>1
  <2>4. worker.proxy = last \/ worker.overtaken
    BY <2>1 DEF WorkerInv
  <2>5. KeyOf(last.name) = KeyOf(recorded.name)'
    BY <2>2, <2>3 DEF KeyOf
  <2> QED
    BY <2>2, <2>3, <2>4, <2>5 DEF WorkerInv
<1>8. CASE Answered
  BY <1>2, <1>8, SendKeepsInv DEF Answered
<1>9. CASE RequestFails
  <2>1. PICK rateLimit \in BOOLEAN : worker' = AfterException(rateLimit)
    BY <1>9 DEF RequestFails
  <2>2. DOMAIN worker' = WorkerFields /\ worker'.pc \in {"idle", "rotate"}
    BY <2>1, AfterExceptionShape
  <2> QED
    BY <1>9, <2>2, SendKeepsInv DEF RequestFails
<1>10. CASE RotateClash
  <2>1. /\ worker.pc = "rotate" /\ UNCHANGED <<recorded, sent>>
        /\ \/ worker' = worker
           \/ worker' = AfterRotation(rotation'[Collector].result)
    BY <1>10 DEF RotateClash
  <2>2. DOMAIN worker' = WorkerFields /\ worker'.pc \notin {"name", "send"}
    BY <1>1, <1>2, <2>1 DEF AfterRotation, WorkerFields
  <2> QED
    BY <2>1, <2>2, WorkerElsewhere
<1>11. ASSUME NEW p \in Pages, CheckProxy(p) PROVE WorkerInv'
  <2>1. /\ UNCHANGED <<recorded, sent>>
        /\ worker' = [worker EXCEPT !.overtaken = @ \/ worker.pc = "name"]
    BY <1>11 DEF CheckProxy
  <2>2. /\ DOMAIN worker' = WorkerFields /\ worker'.pc = worker.pc
        /\ worker'.proxy = worker.proxy /\ worker'.node = worker.node
        /\ worker'.overtaken = (worker.overtaken \/ worker.pc = "name")
    BY <1>1, <2>1 DEF WorkerFields
  <2> QED
    BY <2>1, <2>2 DEF WorkerInv, Matches, KeyOf
<1>12. CASE UNCHANGED <<worker, recorded, sent, last>>
  BY <1>12 DEF WorkerInv, Matches, KeyOf
<1>13. StartRotation => UNCHANGED <<worker, recorded, sent, last>>
  BY DEF StartRotation, poolVars, providerVars
<1>14. ASSUME NEW p \in Pages,
              Click(p, "check") \/ Click(p, "rotate") \/ CheckFetches(p)
              \/ CheckFails(p) \/ PageStartsRotation(p) \/ PageRotates(p)
       PROVE  UNCHANGED <<worker, recorded, sent, last>>
  BY <1>14 DEF Click, CheckFetches, CheckFails, PageStartsRotation, PageRotates,
               Pool!FetchList, Pool!RefreshFails, poolVars, providerVars
<1>15. PoolExpires \/ Meddling \/ UNCHANGED vars
       => UNCHANGED <<worker, recorded, sent, last>>
  BY DEF PoolExpires, Meddling, Pool!Expire, poolVars, providerVars, vars
<1> QED
  BY <1>3, <1>4, <1>5, <1>6, <1>7, <1>8, <1>9, <1>10, <1>11, <1>12, <1>13,
     <1>14, <1>15 DEF Next, CollectorStep, PageStep

(* A failed attempt is logged with the URL and the profile it was made      *)
(* with, whatever the pages have done to the pool in between.               *)
THEOREM RequestRecordedHolds == Spec => []RequestRecorded
<1>1. Init => WorkerInv
  BY DEF Init, WorkerInv, Idle, WorkerFields
<1>2. WorkerInv /\ [Next]_vars => WorkerInv'
  BY WorkerKeepsInv
<1>3. WorkerInv => RequestRecorded
  BY DEF WorkerInv, RequestRecorded, Matches
<1> QED
  BY <1>1, <1>2, <1>3, PTL DEF Spec

-----------------------------------------------------------------------------

(* If nobody has switched Clash after the worker, the node it retries for   *)
(* is the one Clash uses.                                                   *)
RetriedNode ==
    /\ worker.attempt = 2
    /\ ~meddled[Collector]
    /\ switchedBy = Collector
    => worker.node # None /\ now[Clash!EffectiveGroup] = worker.node

(* A retry is under way only when the worker's own rotation is over.        *)
RetryInv ==
    /\ DOMAIN worker = WorkerFields
    /\ worker.attempt = 2 => worker.pc \in {"pool", "name", "send"}
    /\ worker.pc # "rotate" => rotation[Collector].pc = "idle"
    /\ RetriedNode

(* What a step of a rotation changes: its own thread, and Clash at most by  *)
(* a selection that bears the thread's name; a node as the result means the *)
(* selection has been made.                                                 *)
LEMMA RotationStepEffect ==
    ASSUME ClashInv, NEW t \in Callers, Clash!RotationStep(t)
    PROVE  /\ UNCHANGED <<mode, meddled>>
           /\ \A u \in Callers : u # t => rotation'[u] = rotation[u]
           /\ UNCHANGED <<now, switchedBy>> \/ switchedBy' = t
           /\ rotation'[t].pc = "idle" /\ rotation'[t].result \in Nodes
                => Clash!SelectProxy(t)
<1> USE DEF ClashInv
<1>1. /\ DOMAIN rotation = Callers /\ DOMAIN rotation[t] = Fields
      /\ None \notin Nodes /\ "error" \notin Nodes
  BY ClashAssumption DEF RotationShape, Clash!ClashAssumption
<1>2. ASSUME NEW result, Clash!Finish(t, result)
      PROVE  /\ rotation'[t].result = result
             /\ \A u \in Callers : u # t => rotation'[u] = rotation[u]
  BY <1>1, <1>2 DEF Clash!Finish, Clash!Resting
<1>3. CASE Clash!ReadMode(t)
  BY <1>1, <1>3 DEF Clash!ReadMode, Fields
<1>4. CASE Clash!ReadGroup(t)
  <2> DEFINE order == Clash!Ordered(Clash!Candidates(rotation[t].group),
                                    now[rotation[t].group])
  <2> HIDE DEF order
  <2>1. /\ rotation' = [rotation EXCEPT ![t].pc = "test",
                                        ![t].current = now[rotation[t].group],
                                        ![t].todo = order]
        /\ UNCHANGED <<mode, meddled, now, switchedBy>>
    BY <1>4 DEF Clash!ReadGroup, order
  <2> QED
    BY <1>1, <2>1 DEF Fields
<1>5. CASE Clash!NoCandidates(t)
  BY <1>1, <1>2, <1>5 DEF Clash!NoCandidates
<1>6. CASE Clash!TestPasses(t)
  BY <1>1, <1>6 DEF Clash!TestPasses, Fields
<1>7. CASE Clash!TestFails(t)
  <2>1. rotation[t].pc = "test" /\ UNCHANGED <<mode, meddled, now, switchedBy>>
    BY <1>7 DEF Clash!TestFails
  <2>2. /\ rotation'[t].pc = rotation[t].pc
        /\ \A u \in Callers : u # t => rotation'[u] = rotation[u]
    BY <1>1, <1>7 DEF Clash!TestFails, Fields
  <2> QED
    BY <2>1, <2>2
<1>8. CASE Clash!LastTestFails(t)
  BY <1>1, <1>2, <1>8 DEF Clash!LastTestFails
<1>9. CASE Clash!SelectProxy(t)
  BY <1>2, <1>9 DEF Clash!SelectProxy
<1>10. CASE Clash!AnswerLost(t)
  BY <1>1, <1>2, <1>10 DEF Clash!AnswerLost
<1>11. CASE Clash!RequestFails(t)
  BY <1>1, <1>2, <1>11 DEF Clash!RequestFails
<1> QED
  BY <1>3, <1>4, <1>5, <1>6, <1>7, <1>8, <1>9, <1>10, <1>11 DEF Clash!RotationStep

(* The selection of a rotation nobody has meddled with is in the group that *)
(* is effective.                                                            *)
LEMMA SelectionIsEffective ==
    ASSUME ClashInv, NEW t \in Callers, Clash!SelectProxy(t), ~meddled[t]
    PROVE  now'[Clash!EffectiveGroup'] = rotation'[t].result
<1> DEFINE g == rotation[t].group
           node == Head(rotation[t].todo)
<1>1. /\ rotation[t].pc = "select" /\ UNCHANGED mode
      /\ now' = [now EXCEPT ![g] = node]
      /\ rotation' = [rotation EXCEPT ![t] = Clash!Resting(node)]
  BY DEF Clash!SelectProxy, Clash!Finish
<1>2. g = Clash!EffectiveGroup /\ g \in DOMAIN now /\ DOMAIN rotation = Callers
  BY <1>1 DEF ClashInv, RotationInMode, RotationShape
<1>3. Clash!EffectiveGroup' = Clash!EffectiveGroup
  BY <1>1 DEF Clash!EffectiveGroup
<1> HIDE DEF g, node
<1>4. now'[g] = node
  BY <1>1, <1>2
<1>5. rotation'[t].result = node
  BY <1>1, <1>2 DEF Clash!Resting
<1> QED
  BY <1>2, <1>3, <1>4, <1>5

(* A step of the worker that leaves Clash alone. *)
LEMMA RetryWithoutClash ==
    ASSUME RetryInv, UNCHANGED clashVars,
           worker.pc # "rotate",
           DOMAIN worker' = WorkerFields,
           \/ worker'.attempt = 1
           \/ /\ worker'.attempt = worker.attempt
              /\ worker'.node = worker.node
              /\ worker'.pc \in {"name", "send"}
    PROVE  RetryInv'
  BY DEF RetryInv, RetriedNode, clashVars, Clash!EffectiveGroup

(* One step per action.                                                      *)
LEMMA RetryKeepsInv ==
    ASSUME ClashInv, RetryInv, [Next]_vars
    PROVE  RetryInv'
<1>1. DOMAIN worker = WorkerFields /\ Collector \in Callers /\ Pages \subseteq Callers
  BY DEF RetryInv, Callers
<1>2. DOMAIN Idle = WorkerFields /\ Idle.pc = "idle" /\ Idle.attempt = 1
  BY DEF Idle, WorkerFields
<1>3. ASSUME NEW rateLimit \in BOOLEAN, worker.pc # "rotate",
             worker' = AfterException(rateLimit), UNCHANGED clashVars
      PROVE  RetryInv'
  <2>1. DOMAIN worker' = WorkerFields /\ worker'.attempt = 1
    BY <1>1, <1>2, <1>3 DEF AfterException, WorkerFields
  <2> QED
    BY <1>3, <2>1, RetryWithoutClash
<1>4. CASE StartCollection
  <2>1. DOMAIN worker' = WorkerFields /\ worker'.attempt = 1 /\ worker.pc # "rotate"
    BY <1>2, <1>4 DEF StartCollection, WorkerFields
  <2> QED
    BY <1>4, <2>1, RetryWithoutClash DEF StartCollection
<1>5. CASE TakeProxy \/ BuildRequest
  <2>1. /\ DOMAIN worker' = WorkerFields /\ worker.pc # "rotate"
        /\ worker'.attempt = worker.attempt /\ worker'.node = worker.node
        /\ worker'.pc \in {"name", "send"} /\ UNCHANGED clashVars
    BY <1>1, <1>5 DEF TakeProxy, BuildRequest, WorkerFields
  <2> QED
    BY <2>1, RetryWithoutClash
<1>6. CASE SubscriptionFails \/ RequestFails
  BY <1>3, <1>6 DEF SubscriptionFails, RequestFails, Send
<1>7. CASE Answered
  <2>1. worker' = Idle /\ worker.pc = "send" /\ UNCHANGED clashVars
    BY <1>7 DEF Answered, Send
  <2> QED
    BY <1>2, <2>1, RetryWithoutClash
<1>8. CASE StartRotation
  <2>1. worker.pc = "rotate" /\ UNCHANGED worker
    BY <1>8 DEF StartRotation, providerVars
  <2> QED
    BY <2>1 DEF RetryInv, RetriedNode
<1>9. CASE RotateClash
  <2> DEFINE result == rotation'[Collector].result
  <2>1. worker.pc = "rotate" /\ Clash!RotationStep(Collector)
    BY <1>9 DEF RotateClash
  <2>2. worker.attempt # 2
    BY <2>1 DEF RetryInv
  <2>3. CASE rotation'[Collector].pc # "idle"
    <3>1. worker' = worker
      BY <1>9, <2>3 DEF RotateClash
    <3> QED
      BY <1>1, <2>1, <2>2, <3>1 DEF RetryInv, RetriedNode
  <2>4. CASE rotation'[Collector].pc = "idle" /\ result \in Nodes /\ RetryAfterRotate
    <3>1. worker' = [worker EXCEPT !.pc = "pool", !.attempt = 2, !.node = result,
                                   !.proxy = None]
      BY <1>9, <2>4 DEF RotateClash, AfterRotation
    <3> HIDE DEF result
    <3>2. /\ DOMAIN worker' = WorkerFields /\ worker'.pc = "pool"
          /\ worker'.node = result
      BY <1>1, <3>1 DEF WorkerFields
    <3>3. /\ Clash!SelectProxy(Collector) /\ UNCHANGED meddled
      BY <1>1, <2>1, <2>4, RotationStepEffect DEF result
    <3>4. ~meddled[Collector] => now'[Clash!EffectiveGroup'] = result
      BY <1>1, <3>3, SelectionIsEffective DEF result
    <3>5. result # None
      BY <2>4, ClashAssumption DEF Clash!ClashAssumption
    <3> QED
      BY <2>4, <3>2, <3>3, <3>4, <3>5 DEF RetryInv, RetriedNode
  <2>5. CASE rotation'[Collector].pc = "idle" /\ ~(result \in Nodes /\ RetryAfterRotate)
    <3>1. worker' = Idle
      BY <1>9, <2>5 DEF RotateClash, AfterRotation
    <3> QED
      BY <1>2, <2>5, <3>1 DEF RetryInv, RetriedNode
  <2> QED
    BY <2>3, <2>4, <2>5
<1>10. ASSUME NEW p \in Pages, PageStartsRotation(p) PROVE RetryInv'
  <2>1. Clash!Rotate(p) /\ UNCHANGED worker /\ p # Collector
    BY <1>10, ProviderAssumption DEF PageStartsRotation, providerVars
  <2>2. /\ UNCHANGED <<now, mode, switchedBy>>
        /\ meddled'[Collector] = meddled[Collector]
        /\ rotation'[Collector] = rotation[Collector]
    BY <1>1, <2>1 DEF Clash!Rotate, ClashInv, RotationShape
  <2> QED
    BY <2>1, <2>2 DEF RetryInv, RetriedNode, Clash!EffectiveGroup
<1>11. ASSUME NEW p \in Pages, PageRotates(p) PROVE RetryInv'
  <2>1. Clash!RotationStep(p) /\ UNCHANGED worker /\ p # Collector /\ p \in Callers
    BY <1>1, <1>11, ProviderAssumption DEF PageRotates
  <2>2. /\ UNCHANGED <<mode, meddled>>
        /\ rotation'[Collector] = rotation[Collector]
        /\ UNCHANGED <<now, switchedBy>> \/ switchedBy' # Collector
    BY <1>1, <2>1, RotationStepEffect
  <2> QED
    BY <2>1, <2>2 DEF RetryInv, RetriedNode, Clash!EffectiveGroup
<1>12. ASSUME NEW p \in Pages, CheckProxy(p) PROVE RetryInv'
  <2>1. /\ UNCHANGED clashVars
        /\ worker' = [worker EXCEPT !.overtaken = @ \/ worker.pc = "name"]
    BY <1>12 DEF CheckProxy
  <2>2. /\ DOMAIN worker' = WorkerFields /\ worker'.pc = worker.pc
        /\ worker'.attempt = worker.attempt /\ worker'.node = worker.node
    BY <1>1, <2>1 DEF WorkerFields
  <2> QED
    BY <2>1, <2>2 DEF RetryInv, RetriedNode, clashVars,
                      Clash!EffectiveGroup
<1>13. CASE Meddling
  <2>1. /\ UNCHANGED <<worker, rotation>>
        /\ meddled' = [t \in Callers |-> TRUE]
    BY <1>13 DEF Meddling, providerVars, Clash!UserStep, Clash!UserSelects,
                 Clash!UserChangesMode, Clash!UserReloads, Clash!Meddle
  <2> QED
    BY <1>1, <2>1 DEF RetryInv, RetriedNode
<1>14. CASE UNCHANGED <<worker, clashVars>>
  BY <1>14 DEF RetryInv, RetriedNode, clashVars, Clash!EffectiveGroup
<1>15. ASSUME NEW p \in Pages,
              Click(p, "check") \/ Click(p, "rotate") \/ CheckFetches(p) \/ CheckFails(p)
       PROVE  UNCHANGED <<worker, clashVars>>
  BY <1>15 DEF Click, CheckFetches, CheckFails, providerVars
<1>16. FetchSubscription \/ PoolExpires \/ UNCHANGED vars
       => UNCHANGED <<worker, clashVars>>
  BY DEF FetchSubscription, PoolExpires, providerVars, vars
<1> QED
  BY <1>4, <1>5, <1>6, <1>7, <1>8, <1>9, <1>10, <1>11, <1>12, <1>13, <1>14,
     <1>15, <1>16 DEF Next, CollectorStep, PageStep

(* A retry through Clash's port is sent with the profile of the node it     *)
(* comes out at, in whichever mode Clash is and whatever failed on the way. *)
THEOREM RetryMatchesNodeHolds == Spec => []RetryMatchesNode
<1> DEFINE Inv == ClashInv /\ RetryInv /\ WorkerInv
<1>1. Init => Inv
  <2>1. Init => ClashInv
    BY ClashInitially DEF Init
  <2>2. Init => RetryInv
    BY DEF Init, Idle, WorkerFields, RetryInv, RetriedNode,
           Clash!ClashInit, Clash!Resting, Callers
  <2>3. Init => WorkerInv
    BY DEF Init, WorkerInv, Idle, WorkerFields
  <2> QED
    BY <2>1, <2>2, <2>3
<1>2. Inv /\ [Next]_vars => Inv'
  BY StepsOfParts, ClashKeepsInv, RetryKeepsInv, WorkerKeepsInv
<1>3. Inv => RetryMatchesNode
  BY DEF RetryInv, RetriedNode, WorkerInv, RetryMatchesNode, KeyOf, Exit
<1> QED
  BY <1>1, <1>2, <1>3, PTL DEF Spec

-----------------------------------------------------------------------------
Allowed == {node \in Nodes : Clash!Eligible(node)}

(* The candidates of a group, and their places among its members.            *)
LEMMA CandidatesPlaced ==
    ASSUME layout \in Layouts, NEW g \in Clash!Groups
    PROVE  /\ layout[g] \in Seq(Nodes)
           /\ Clash!Candidates(g) \in Seq(Nodes)
           /\ \E place : IsPlacing(place, Clash!Candidates(g), layout[g], Allowed,
                                   Len(layout[g]))
<1>1. layout[g] \in Seq(Nodes)
  BY ClashAssumption DEF Clash!LayoutsAssumption
<1>2. Clash!Candidates(g) = Kept(layout[g], Allowed)
  BY DEF Clash!Candidates, Clash!Kept, Kept, Allowed
<1> QED
  BY <1>1, <1>2, KeptPlaced

(* There is a first place of whatever is in a list.                          *)
LEMMA PlaceFirst ==
    ASSUME NEW c \in Seq(Nodes), NEW node, \E i \in DOMAIN c : c[i] = node
    PROVE  /\ Clash!Place(c, node) \in 1 .. Len(c)
           /\ c[Clash!Place(c, node)] = node
<1> DEFINE T == {i \in 1 .. Len(c) : c[i] = node}
<1>1. T \subseteq Nat /\ T # {} /\ DOMAIN c = 1 .. Len(c)
  OBVIOUS
<1>2. PICK i \in T : \A j \in T : i <= j
  BY <1>1, Least
<1>3. i \in DOMAIN c /\ c[i] = node /\ \A j \in 1 .. i - 1 : c[j] # node
  BY <1>1, <1>2
<1> QED
  BY <1>1, <1>3 DEF Clash!Place

LEMMA Joined ==
    ASSUME NEW S, NEW a \in Seq(S), NEW b \in Seq(S)
    PROVE  /\ a \o b \in Seq(S)
           /\ Len(a \o b) = Len(a) + Len(b)
           /\ \A k \in 1 .. Len(a) : (a \o b)[k] = a[k]
           /\ \A k \in Len(a) + 1 .. Len(a) + Len(b) : (a \o b)[k] = b[k - Len(a)]
  OBVIOUS

(* The order of the candidates: those after the current one, then the rest.  *)
LEMMA OrderOf ==
    ASSUME NEW c \in Seq(Nodes), NEW node
    PROVE  LET order == Clash!Ordered(c, node)
               i == Clash!Place(c, node)
           IN  /\ order \in Seq(Nodes)
               /\ Len(order) = Len(c)
               /\ (\E j \in DOMAIN c : c[j] = node) =>
                     /\ \A k \in 1 .. Len(c) - i : order[k] = c[i + k]
                     /\ \A k \in Len(c) - i + 1 .. Len(c) : order[k] = c[k - (Len(c) - i)]
<1> DEFINE order == Clash!Ordered(c, node)
           i == Clash!Place(c, node)
           n == Len(c)
<1>1. CASE ~ \E j \in DOMAIN c : c[j] = node
  BY <1>1 DEF Clash!Ordered
<1>2. CASE \E j \in DOMAIN c : c[j] = node
  <2> DEFINE rest == SubSeq(c, i + 1, n)
             front == SubSeq(c, 1, i)
             one == 1
  <2>1. i \in 1 .. n /\ n \in Nat
    BY <1>2, PlaceFirst
  <2>2. order = rest \o front
    BY <1>2 DEF Clash!Ordered
  <2> HIDE DEF i, n
  <2>3. \A k \in 1 .. n : c[k] \in Nodes
    BY DEF n
  <2>4. /\ rest \in Seq(Nodes) /\ Len(rest) = n - i
        /\ \A k \in 1 .. n - i : rest[k] = c[i + k]
    <3> DEFINE next == i + 1
    <3>1. /\ next \in Int /\ n \in Int
          /\ (IF next <= n THEN n - next + 1 ELSE 0) = n - i
          /\ n - next + 1 = n - i
          /\ \A k \in 1 .. n - i : next + k - 1 = i + k
          /\ \A k \in next .. n : k \in 1 .. n
      BY <2>1
    <3>2. rest = SubSeq(c, next, n)
      OBVIOUS
    <3> HIDE DEF next, rest
    <3>3. /\ SubSeq(c, next, n) \in Seq(Nodes)
          /\ Len(SubSeq(c, next, n)) = IF next <= n THEN n - next + 1 ELSE 0
          /\ \A k \in 1 .. n - next + 1 : SubSeq(c, next, n)[k] = c[next + k - 1]
      BY <2>3, <3>1, SubSeqProperties
    <3> QED
      BY <3>1, <3>2, <3>3
  <2>5. /\ front \in Seq(Nodes) /\ Len(front) = i
        /\ \A k \in 1 .. i : front[k] = c[k]
    <3>1. /\ one \in Int /\ i \in Int
          /\ (IF one <= i THEN i - one + 1 ELSE 0) = i
          /\ i - one + 1 = i
          /\ \A k \in 1 .. i : one + k - 1 = k
          /\ \A k \in one .. i : k \in 1 .. n
      BY <2>1
    <3>2. front = SubSeq(c, one, i)
      OBVIOUS
    <3> HIDE DEF one, front
    <3>3. /\ SubSeq(c, one, i) \in Seq(Nodes)
          /\ Len(SubSeq(c, one, i)) = IF one <= i THEN i - one + 1 ELSE 0
          /\ \A k \in 1 .. i - one + 1 : SubSeq(c, one, i)[k] = c[one + k - 1]
      BY <2>3, <3>1, SubSeqProperties
    <3> QED
      BY <3>1, <3>2, <3>3
  <2> HIDE DEF rest, front, order
  <2>6. /\ order \in Seq(Nodes) /\ Len(order) = Len(rest) + Len(front)
        /\ \A k \in 1 .. Len(rest) : order[k] = rest[k]
        /\ \A k \in Len(rest) + 1 .. Len(rest) + Len(front) :
              order[k] = front[k - Len(rest)]
    <3>1. rest \in Seq(Nodes) /\ front \in Seq(Nodes)
      BY <2>4, <2>5
    <3>2. /\ rest \o front \in Seq(Nodes)
          /\ Len(rest \o front) = Len(rest) + Len(front)
          /\ \A k \in 1 .. Len(rest) : (rest \o front)[k] = rest[k]
          /\ \A k \in Len(rest) + 1 .. Len(rest) + Len(front) :
                (rest \o front)[k] = front[k - Len(rest)]
      BY <3>1, Joined
    <3> QED
      BY <2>2, <3>2, Zenon
  <2>7. order \in Seq(Nodes) /\ Len(order) = n
    BY <2>1, <2>4, <2>5, <2>6
  <2>8. \A k \in 1 .. n - i : order[k] = c[i + k]
    BY <2>4, <2>6
  <2>9. \A k \in n - i + 1 .. n : order[k] = c[k - (n - i)]
    <3> SUFFICES ASSUME NEW k \in n - i + 1 .. n PROVE order[k] = c[k - (n - i)]
      OBVIOUS
    <3>1. k - (n - i) \in 1 .. i /\ k \in Len(rest) + 1 .. Len(rest) + Len(front)
      BY <2>1, <2>4, <2>5
    <3> QED
      BY <2>4, <2>5, <2>6, <3>1
  <2> QED
    BY <1>2, <2>7, <2>8, <2>9 DEF order, i, n
<1> QED
  BY <1>1, <1>2

-----------------------------------------------------------------------------
(* Types of the rotations, and that one that tests or selects has a node to. *)
ClashTyped ==
    /\ Clash!ClashTypeOK
    /\ \A t \in Callers : rotation[t].pc \in {"test", "select"} => rotation[t].todo # << >>

LEMMA RestingTyped ==
    ASSUME NEW result \in Nodes \cup {None, "error"}
    PROVE  Clash!Resting(result) \in Clash!Rotation
  BY DEF Clash!Resting, Clash!Rotation, Clash!Groups

LEMMA ClashTypedInitially == Clash!ClashInit => ClashTyped
<1> SUFFICES ASSUME Clash!ClashInit PROVE ClashTyped
  OBVIOUS
<1>1. layout \in Layouts /\ layout \in [Clash!Groups -> Seq(Nodes)]
  BY ClashAssumption DEF Clash!ClashInit, Clash!LayoutsAssumption
<1>2. now \in [Clash!Groups -> Nodes \cup {None}]
  <2>1. ASSUME NEW g \in Clash!Groups
        PROVE  (IF layout[g] = << >> THEN None ELSE layout[g][1]) \in Nodes \cup {None}
    <3>1. layout[g] \in Seq(Nodes)
      BY <1>1
    <3> QED
      BY <3>1
  <2> QED
    BY <2>1 DEF Clash!ClashInit
<1>3. Clash!Resting(None) \in Clash!Rotation /\ Clash!Resting(None).pc = "idle"
  BY RestingTyped DEF Clash!Resting
<1>4. MaxMeddling \in Nat
  BY ClashAssumption DEF Clash!ClashAssumption
<1>5. /\ rotation \in [Callers -> Clash!Rotation]
      /\ \A t \in Callers : rotation[t].pc = "idle"
  BY <1>3 DEF Clash!ClashInit
<1>6. 0 \in 0 .. MaxMeddling
  BY <1>4
<1> QED
  BY <1>1, <1>2, <1>5, <1>6 DEF Clash!ClashInit, ClashTyped, Clash!ClashTypeOK

(* A step of a rotation that goes on.                                        *)
LEMMA TypedGoesOn ==
    ASSUME ClashTyped, NEW t \in Callers, NEW r \in Clash!Rotation,
           rotation' = [rotation EXCEPT ![t] = r],
           r.pc \in {"test", "select"} => r.todo # << >>,
           UNCHANGED <<mode, layout, now, lock, meddled, meddling, switchedBy>>
    PROVE  ClashTyped'
<1>1. rotation \in [Callers -> Clash!Rotation]
  BY DEF ClashTyped, Clash!ClashTypeOK
<1>2. /\ rotation' \in [Callers -> Clash!Rotation]
      /\ \A u \in Callers : rotation'[u] = IF u = t THEN r ELSE rotation[u]
  BY <1>1
<1> QED
  BY <1>2 DEF ClashTyped, Clash!ClashTypeOK, Clash!Groups

LEMMA TypedEnds ==
    ASSUME ClashTyped, NEW t \in Callers, NEW result \in Nodes \cup {None, "error"},
           Clash!Finish(t, result),
           now' \in [Clash!Groups -> Nodes \cup {None}],
           switchedBy' \in Callers \cup {None},
           UNCHANGED <<mode, layout, meddled, meddling>>
    PROVE  ClashTyped'
<1> DEFINE r == Clash!Resting(result)
<1>1. rotation \in [Callers -> Clash!Rotation]
  BY DEF ClashTyped, Clash!ClashTypeOK
<1>2. r \in Clash!Rotation /\ r.pc = "idle"
  BY RestingTyped DEF Clash!Resting
<1>3. rotation' = [rotation EXCEPT ![t] = r] /\ lock' = None
  BY DEF Clash!Finish
<1> HIDE DEF r
<1>4. /\ rotation' \in [Callers -> Clash!Rotation]
      /\ \A u \in Callers : rotation'[u] = IF u = t THEN r ELSE rotation[u]
  BY <1>1, <1>2, <1>3
<1> QED
  BY <1>2, <1>3, <1>4 DEF ClashTyped, Clash!ClashTypeOK, Clash!Groups

LEMMA RotationTyped ==
    ASSUME ClashTyped, NEW t \in Callers
    PROVE  /\ rotation[t] \in Clash!Rotation
           /\ rotation[t] = [pc |-> rotation[t].pc, group |-> rotation[t].group,
                             current |-> rotation[t].current, todo |-> rotation[t].todo,
                             failed |-> rotation[t].failed, result |-> rotation[t].result]
           /\ rotation[t].group \in Clash!Groups
           /\ rotation[t].current \in Nodes \cup {None}
           /\ rotation[t].todo \in Seq(Nodes)
           /\ rotation[t].failed \subseteq Nodes
           /\ rotation[t].result \in Nodes \cup {None, "error"}
<1>1. rotation[t] \in Clash!Rotation
  BY DEF ClashTyped, Clash!ClashTypeOK
<1>2. \A r \in Clash!Rotation :
         /\ r = [pc |-> r.pc, group |-> r.group, current |-> r.current,
                 todo |-> r.todo, failed |-> r.failed, result |-> r.result]
         /\ r.group \in Clash!Groups
         /\ r.current \in Nodes \cup {None}
         /\ r.todo \in Seq(Nodes)
         /\ r.failed \subseteq Nodes
         /\ r.result \in Nodes \cup {None, "error"}
  BY DEF Clash!Rotation
<1> QED
  BY <1>1, <1>2

(* One step per action of the controller. *)
LEMMA ClashKeepsTypes ==
    ASSUME ClashTyped, [Clash!ClashNext]_clashVars
    PROVE  ClashTyped'
<1>1. /\ now \in [Clash!Groups -> Nodes \cup {None}] /\ layout \in Layouts
      /\ rotation \in [Callers -> Clash!Rotation]
      /\ mode \in {"rule", "global"}
      /\ meddled \in [Callers -> BOOLEAN]
      /\ meddling \in 0 .. MaxMeddling
      /\ lock \in Callers \cup {None} /\ switchedBy \in Callers \cup {None}
  BY DEF ClashTyped, Clash!ClashTypeOK
<1>2. Layouts \subseteq [Clash!Groups -> Seq(Nodes)] /\ MaxMeddling \in Nat
  BY ClashAssumption DEF Clash!LayoutsAssumption, Clash!ClashAssumption
<1>3. ASSUME NEW t \in Callers, Clash!Rotate(t) PROVE ClashTyped'
  <2> DEFINE r == [rotation[t] EXCEPT !.pc = "mode", !.result = None]
  <2>1. /\ rotation' = [rotation EXCEPT ![t] = r]
        /\ lock' = t /\ meddled' = [meddled EXCEPT ![t] = FALSE]
        /\ UNCHANGED <<mode, layout, now, meddling, switchedBy>>
    BY <1>1, <1>3 DEF Clash!Rotate
  <2>2. r \in Clash!Rotation /\ r.pc = "mode"
    BY RotationTyped DEF Clash!Rotation
  <2> HIDE DEF r
  <2>3. /\ rotation' \in [Callers -> Clash!Rotation]
        /\ \A u \in Callers : rotation'[u] = IF u = t THEN r ELSE rotation[u]
    BY <1>1, <2>1, <2>2
  <2>4. meddled' \in [Callers -> BOOLEAN]
    BY <1>1, <2>1
  <2> QED
    BY <1>1, <2>1, <2>2, <2>3, <2>4 DEF ClashTyped, Clash!ClashTypeOK, Clash!Groups
<1>4. ASSUME NEW t \in Callers, Clash!ReadMode(t) PROVE ClashTyped'
  <2> DEFINE r == [rotation[t] EXCEPT !.pc = "group", !.group = Clash!EffectiveGroup]
  <2>1. /\ rotation' = [rotation EXCEPT ![t] = r]
        /\ UNCHANGED <<mode, layout, now, lock, meddled, meddling, switchedBy>>
    BY <1>1, <1>4 DEF Clash!ReadMode
  <2>2. Clash!EffectiveGroup \in Clash!Groups
    BY DEF Clash!EffectiveGroup, Clash!Groups
  <2>3. r \in Clash!Rotation /\ r.pc = "group"
    BY <2>2, RotationTyped DEF Clash!Rotation
  <2> HIDE DEF r
  <2> QED
    BY <2>1, <2>3, TypedGoesOn
<1>5. ASSUME NEW t \in Callers, Clash!ReadGroup(t) PROVE ClashTyped'
  <2> DEFINE g == rotation[t].group
             order == Clash!Ordered(Clash!Candidates(g), now[g])
             r == [rotation[t] EXCEPT !.pc = "test", !.current = now[g], !.todo = order]
  <2>1. /\ rotation' = [rotation EXCEPT ![t] = r] /\ order # << >>
        /\ UNCHANGED <<mode, layout, now, lock, meddled, meddling, switchedBy>>
    BY <1>1, <1>5 DEF Clash!ReadGroup
  <2>2. g \in Clash!Groups /\ now[g] \in Nodes \cup {None}
    BY <1>1, RotationTyped
  <2>3. order \in Seq(Nodes)
    <3>1. Clash!Candidates(g) \in Seq(Nodes)
      BY <1>1, <2>2, CandidatesPlaced
    <3> QED
      BY <3>1, OrderOf
  <2> HIDE DEF order, g
  <2>4. r \in Clash!Rotation /\ r.todo = order
    BY <2>2, <2>3, RotationTyped DEF Clash!Rotation
  <2> HIDE DEF r
  <2> QED
    BY <2>1, <2>4, TypedGoesOn
<1>6. ASSUME NEW t \in Callers, Clash!TestPasses(t) PROVE ClashTyped'
  <2> DEFINE r == [rotation[t] EXCEPT !.pc = "select"]
  <2>1. /\ rotation' = [rotation EXCEPT ![t] = r] /\ rotation[t].pc = "test"
        /\ UNCHANGED <<mode, layout, now, lock, meddled, meddling, switchedBy>>
    BY <1>1, <1>6 DEF Clash!TestPasses
  <2>2. r \in Clash!Rotation /\ r.todo = rotation[t].todo
    BY RotationTyped DEF Clash!Rotation
  <2>3. rotation[t].todo # << >>
    BY <2>1 DEF ClashTyped
  <2> HIDE DEF r
  <2> QED
    BY <2>1, <2>2, <2>3, TypedGoesOn
<1>7. ASSUME NEW t \in Callers, Clash!TestFails(t) PROVE ClashTyped'
  <2> DEFINE todo == rotation[t].todo
             r == [rotation[t] EXCEPT !.todo = Tail(todo), !.failed = @ \cup {Head(todo)}]
  <2>1. /\ rotation' = [rotation EXCEPT ![t] = r] /\ Len(todo) > 1
        /\ UNCHANGED <<mode, layout, now, lock, meddled, meddling, switchedBy>>
    BY <1>1, <1>7 DEF Clash!TestFails
  <2>2. todo \in Seq(Nodes)
    BY RotationTyped
  <2> HIDE DEF todo
  <2>3. Tail(todo) \in Seq(Nodes) /\ Tail(todo) # << >> /\ Head(todo) \in Nodes
    <3>1. todo # << >>
      BY <2>1, <2>2
    <3>2. Tail(todo) \in Seq(Nodes) /\ Len(Tail(todo)) = Len(todo) - 1 /\ Head(todo) \in Nodes
      BY <2>2, <3>1, HeadTailProperties
    <3>3. Len(Tail(todo)) # 0
      BY <2>1, <2>2, <3>2
    <3>4. Len(<< >>) = 0
      OBVIOUS
    <3>5. Tail(todo) # << >>
      BY <3>3, <3>4, Zenon
    <3> QED
      BY <3>2, <3>5, Zenon
  <2>4. r \in Clash!Rotation /\ r.todo = Tail(todo)
    BY <2>3, RotationTyped DEF Clash!Rotation
  <2> HIDE DEF r
  <2> QED
    BY <2>1, <2>3, <2>4, TypedGoesOn
<1>8. ASSUME NEW t \in Callers, Clash!NoCandidates(t) PROVE ClashTyped'
  BY <1>1, <1>8, TypedEnds DEF Clash!NoCandidates
<1>9. ASSUME NEW t \in Callers, Clash!LastTestFails(t) PROVE ClashTyped'
  BY <1>1, <1>9, TypedEnds DEF Clash!LastTestFails
<1>10. ASSUME NEW t \in Callers, Clash!RequestFails(t) PROVE ClashTyped'
  BY <1>1, <1>10, TypedEnds DEF Clash!RequestFails
<1>11. ASSUME NEW t \in Callers, Clash!SelectProxy(t) \/ Clash!AnswerLost(t)
       PROVE  ClashTyped'
  <2> DEFINE g == rotation[t].group
             node == Head(rotation[t].todo)
  <2>1. /\ now' = [now EXCEPT ![g] = node] /\ switchedBy' = t
        /\ Clash!Finish(t, node) \/ Clash!Finish(t, "error")
        /\ UNCHANGED <<mode, layout, meddled, meddling>>
        /\ rotation[t].pc = "select"
    BY <1>11 DEF Clash!SelectProxy, Clash!AnswerLost
  <2>2. rotation[t].todo # << >> /\ rotation[t].todo \in Seq(Nodes)
    BY <2>1, RotationTyped DEF ClashTyped
  <2>3. node \in Nodes
    BY <2>2
  <2> HIDE DEF node, g
  <2>4. now' \in [Clash!Groups -> Nodes \cup {None}]
    BY <1>1, <2>1, <2>3
  <2> QED
    BY <2>1, <2>3, <2>4, TypedEnds
<1>12. CASE Clash!UserStep
  <2>1. /\ meddling' \in 0 .. MaxMeddling
        /\ meddled' \in [Callers -> BOOLEAN]
        /\ UNCHANGED <<lock, rotation, switchedBy>>
    <3>1. Clash!Meddle /\ UNCHANGED <<lock, rotation, switchedBy>>
      BY <1>12 DEF Clash!UserStep, Clash!UserSelects, Clash!UserChangesMode,
                   Clash!UserReloads
    <3> QED
      BY <1>1, <1>2, <3>1 DEF Clash!Meddle
  <2>2. /\ mode' \in {"rule", "global"} /\ layout' \in Layouts
        /\ now' \in [Clash!Groups -> Nodes \cup {None}]
    <3>1. CASE Clash!UserSelects
      <4>1. PICK g \in Clash!Groups : \E i \in DOMAIN layout[g] :
                now' = [now EXCEPT ![g] = layout[g][i]]
        BY <3>1 DEF Clash!UserSelects
      <4>2. layout[g] \in Seq(Nodes)
        BY <1>1, <1>2
      <4>3. \A i \in DOMAIN layout[g] : layout[g][i] \in Nodes
        BY <4>2
      <4> QED
        BY <1>1, <3>1, <4>1, <4>3 DEF Clash!UserSelects
    <3>2. CASE Clash!UserChangesMode
      BY <1>1, <3>2 DEF Clash!UserChangesMode
    <3>3. CASE Clash!UserReloads
      <4>1. layout' \in Layouts /\ UNCHANGED mode
        BY <3>3 DEF Clash!UserReloads
      <4>2. \A g \in Clash!Groups : layout'[g] \in Seq(Nodes)
        BY <1>2, <4>1
      <4>3. ASSUME NEW g \in Clash!Groups
            PROVE  (IF \E i \in DOMAIN layout'[g] : layout'[g][i] = now[g] THEN now[g]
                    ELSE IF layout'[g] = << >> THEN None ELSE layout'[g][1])
                      \in Nodes \cup {None}
        <5>1. layout'[g] \in Seq(Nodes) /\ now[g] \in Nodes \cup {None}
          BY <1>1, <4>2
        <5> QED
          BY <5>1
      <4> QED
        BY <1>1, <3>3, <4>1, <4>3 DEF Clash!UserReloads
    <3> QED
      BY <1>12, <3>1, <3>2, <3>3 DEF Clash!UserStep
  <2> QED
    BY <1>1, <2>1, <2>2 DEF ClashTyped, Clash!ClashTypeOK, Clash!Groups
<1>13. CASE UNCHANGED clashVars
  BY <1>13 DEF clashVars, ClashTyped, Clash!ClashTypeOK, Clash!Groups
<1> QED
  BY <1>3, <1>4, <1>5, <1>6, <1>7, <1>8, <1>9, <1>10, <1>11, <1>12, <1>13
     DEF Clash!ClashNext, Clash!RotationStep

-----------------------------------------------------------------------------
(* Without a subscription the static list is not empty and nobody fetches.   *)
Served == ~Subscribed => proxies # << >> /\ holder = None

LEMMA ServedInitially == Init => Served
  BY ProviderAssumption DEF Init, Pool!PoolInit, Served

LEMMA PoolKeepsServed ==
    ASSUME Served, [Pool!PoolNext]_poolVars
    PROVE  Served'
<1>1. None \notin Callers
  BY PoolAssumption DEF Pool!PoolAssumption
<1>2. ASSUME NEW t \in Callers, Pool!NextProxy(t) PROVE Served'
  BY <1>2 DEF Pool!NextProxy, Pool!Serve, Served
<1>3. ASSUME NEW t \in Callers, Pool!FetchList(t) PROVE Served'
  BY <1>3 DEF Pool!FetchList, Pool!NeedsRefresh, Served
<1>4. ASSUME NEW t \in Callers, Pool!Refresh(t) \/ Pool!RefreshFails(t) PROVE Served'
  <2>1. holder = t
    BY <1>4 DEF Pool!Refresh, Pool!RefreshFails
  <2> QED
    BY <1>1, <2>1 DEF Served
<1>5. CASE Pool!Expire
  BY <1>5 DEF Pool!Expire, Served
<1>6. CASE UNCHANGED poolVars
  BY <1>6 DEF poolVars, Served
<1> QED
  BY <1>2, <1>3, <1>4, <1>5, <1>6 DEF Pool!PoolNext

(* Whoever asks the pool is given a proxy, unless it raises.                 *)
LEMMA ProxyServed ==
    ASSUME Pool!PoolInv, Served, NEW t, Pool!NextProxy(t) \/ Pool!Refresh(t)
    PROVE  last' \in Pool!Endpoint /\ holder' = None
<1>1. /\ proxies \in Seq(Pool!Endpoint) /\ cursor \in Nat
      /\ Lists \subseteq Seq(Pool!Endpoint)
  BY PoolAssumption DEF Pool!PoolInv, Pool!PoolTypeOK, Pool!ListsAssumption
<1>2. CASE Pool!NextProxy(t)
  <2>1. proxies # << >>
    BY <1>2 DEF Pool!NextProxy, Pool!NeedsRefresh, Served
  <2>2. last' = Pool!Picked(proxies, cursor) /\ holder' = None
    BY <1>2, <2>1 DEF Pool!NextProxy, Pool!Serve
  <2> QED
    BY <1>1, <2>1, <2>2, PickedIsEntry
<1>3. CASE Pool!Refresh(t)
  <2>1. PICK list \in Lists \ {<< >>} : Pool!Serve(list, cursor % Len(list))
    BY <1>3 DEF Pool!Refresh
  <2>2. list \in Seq(Pool!Endpoint) /\ list # << >>
    BY <1>1, <2>1
  <2> DEFINE c == cursor % Len(list)
  <2>3. c \in Int
    <3>1. Len(list) \in Nat \ {0}
      BY <2>2
    <3> QED
      BY <1>1, <3>1, DivMod
  <2>4. last' = Pool!Picked(list, c)
    BY <2>1, <2>2 DEF Pool!Serve
  <2> HIDE DEF c
  <2>5. holder' = None
    BY <1>3 DEF Pool!Refresh
  <2> QED
    BY <2>2, <2>3, <2>4, <2>5, PickedIsEntry
<1> QED
  BY <1>2, <1>3

-----------------------------------------------------------------------------
(* Types of what the worker knows, and what it has at each point: a proxy    *)
(* from the pool on, a record from the request on.                           *)
WorkerTyped ==
    /\ worker \in Worker
    /\ recorded \in Record \cup {None}
    /\ assigned \in Seq(Keys)
    /\ sent \in Request \cup {None}
    /\ worker.pc = "name" => last # None /\ worker.proxy # None
    /\ worker.pc = "send" => worker.proxy # None /\ recorded \in Record

LEMMA IdleTyped == Idle \in Worker /\ Idle.pc = "idle"
  BY DEF Idle, Worker

LEMMA FieldsTyped ==
    ASSUME NEW w \in Worker
    PROVE  /\ w.node \in Nodes \cup {None}
           /\ w.proxy \in Pool!Endpoint \cup {None}
           /\ w.overtaken \in BOOLEAN
           /\ \A pc \in {"idle", "pool", "name", "send", "rotate"} :
                 /\ [w EXCEPT !.pc = pc] \in Worker
                 /\ [w EXCEPT !.pc = pc].pc = pc
                 /\ [w EXCEPT !.pc = pc].proxy = w.proxy
  BY DEF Worker

LEMMA AfterExceptionTyped ==
    ASSUME worker \in Worker, NEW rateLimit \in BOOLEAN
    PROVE  /\ AfterException(rateLimit) \in Worker
           /\ AfterException(rateLimit).pc \in {"idle", "rotate"}
<1>1. CASE AfterException(rateLimit) = Idle
  BY <1>1, IdleTyped
<1>2. CASE AfterException(rateLimit) = [worker EXCEPT !.pc = "rotate"]
  BY <1>2, FieldsTyped
<1> QED
  BY <1>1, <1>2 DEF AfterException

LEMMA KeyTyped ==
    ASSUME worker \in Worker, NEW name \in ProxyNames PROVE KeyOf(name) \in Keys
  BY FieldsTyped DEF KeyOf, Keys, NameKey, ClashKey

LEMMA EndpointTyped ==
    ASSUME NEW e \in Pool!Endpoint PROVE e.name \in ProxyNames /\ e.url \in Urls
  BY DEF Pool!Endpoint

(* A step to a point where nothing is pending.                               *)
LEMMA TypedElsewhere ==
    ASSUME WorkerTyped, worker' \in Worker, worker'.pc \notin {"name", "send"},
           UNCHANGED <<recorded, assigned>>,
           sent' \in Request \cup {None}
    PROVE  WorkerTyped'
  BY DEF WorkerTyped

LEMMA SendTyped ==
    ASSUME WorkerTyped, Send, worker' \in Worker, worker'.pc \in {"idle", "rotate"}
    PROVE  WorkerTyped'
<1>1. /\ worker.pc = "send" /\ UNCHANGED <<recorded, assigned>>
      /\ sent' = [name |-> worker.proxy.name, url |-> worker.proxy.url,
                  key |-> KeyOf(recorded.name), overtaken |-> worker.overtaken]
  BY DEF Send
<1>2. worker.proxy \in Pool!Endpoint /\ worker.overtaken \in BOOLEAN /\ recorded \in Record
  BY <1>1, FieldsTyped DEF WorkerTyped
<1>3. recorded.name \in ProxyNames
  BY <1>2 DEF Record
<1>4. KeyOf(recorded.name) \in Keys
  BY <1>3, KeyTyped DEF WorkerTyped
<1>5. sent' \in Request
  BY <1>1, <1>2, <1>4, EndpointTyped DEF Request
<1> QED
  BY <1>1, <1>5, TypedElsewhere

(* One step per action of the program. *)
LEMMA WorkerKeepsTypes ==
    ASSUME Pool!PoolInv, Served, ClashTyped, WorkerTyped, [Next]_vars
    PROVE  WorkerTyped'
<1>1. /\ worker \in Worker /\ sent \in Request \cup {None}
      /\ recorded \in Record \cup {None} /\ assigned \in Seq(Keys)
      /\ last \in Pool!Endpoint \cup {None} /\ None \notin Pool!Endpoint
  BY PoolAssumption DEF WorkerTyped, Pool!PoolInv, Pool!PoolTypeOK, Pool!PoolAssumption
<1>2. CASE StartCollection
  <2>1. worker' = [Idle EXCEPT !.pc = "pool"] /\ sent' = None /\ UNCHANGED <<recorded, assigned>>
    BY <1>2 DEF StartCollection
  <2>2. worker' \in Worker /\ worker'.pc = "pool"
    BY <2>1, IdleTyped, FieldsTyped
  <2> QED
    BY <2>1, <2>2, TypedElsewhere
<1>3. CASE TakeProxy
  <2>1. /\ Pool!NextProxy(Collector) \/ Pool!Refresh(Collector)
        /\ worker' = [worker EXCEPT !.pc = "name", !.proxy = last', !.overtaken = FALSE]
        /\ UNCHANGED <<recorded, assigned, sent>>
    BY <1>3 DEF TakeProxy
  <2>2. last' \in Pool!Endpoint
    BY <2>1, ProxyServed
  <2>3. worker' \in Worker /\ worker'.pc = "name" /\ worker'.proxy = last'
    BY <1>1, <2>1, <2>2 DEF Worker
  <2> QED
    BY <1>1, <2>1, <2>2, <2>3 DEF WorkerTyped
<1>4. CASE SubscriptionFails
  <2>1. PICK rateLimit \in BOOLEAN : worker' = AfterException(rateLimit)
    BY <1>4 DEF SubscriptionFails
  <2>2. worker' \in Worker /\ worker'.pc \in {"idle", "rotate"}
    BY <1>1, <2>1, AfterExceptionTyped
  <2>3. UNCHANGED <<recorded, assigned, sent>>
    BY <1>4 DEF SubscriptionFails
  <2> QED
    BY <1>1, <2>2, <2>3, TypedElsewhere
<1>5. CASE BuildRequest
  <2>1. /\ worker.pc = "name" /\ UNCHANGED sent
        /\ recorded' = [name |-> last.name, url |-> worker.proxy.url, key |-> KeyOf(last.name)]
        /\ assigned' = Assign(KeyOf(last.name))
        /\ worker' = [worker EXCEPT !.pc = "send"]
    BY <1>5 DEF BuildRequest
  <2>2. last \in Pool!Endpoint /\ worker.proxy \in Pool!Endpoint
    BY <1>1, <2>1, FieldsTyped DEF WorkerTyped
  <2>3. last.name \in ProxyNames /\ worker.proxy.url \in Urls
    BY <2>2, EndpointTyped
  <2>4. KeyOf(last.name) \in Keys
    BY <1>1, <2>3, KeyTyped
  <2>5. recorded' \in Record
    BY <2>1, <2>3, <2>4 DEF Record
  <2>6. assigned' \in Seq(Keys)
    <3>1. Append(assigned, KeyOf(last.name)) \in Seq(Keys)
      BY <1>1, <2>4
    <3> QED
      BY <1>1, <2>1, <3>1 DEF Assign
  <2>7. worker' \in Worker /\ worker'.pc = "send" /\ worker'.proxy = worker.proxy
    BY <1>1, <2>1, FieldsTyped
  <2> QED
    BY <1>1, <2>1, <2>2, <2>5, <2>6, <2>7 DEF WorkerTyped
<1>6. CASE Answered
  BY <1>6, IdleTyped, SendTyped DEF Answered
<1>7. CASE RequestFails
  <2>1. PICK rateLimit \in BOOLEAN : worker' = AfterException(rateLimit)
    BY <1>7 DEF RequestFails
  <2>2. worker' \in Worker /\ worker'.pc \in {"idle", "rotate"}
    BY <1>1, <2>1, AfterExceptionTyped
  <2> QED
    BY <1>7, <2>2, SendTyped DEF RequestFails
<1>8. CASE RotateClash
  <2> DEFINE result == rotation'[Collector].result
  <2>1. /\ worker.pc = "rotate" /\ UNCHANGED <<recorded, assigned, sent>>
        /\ worker' = worker \/ worker' = AfterRotation(result)
    BY <1>8 DEF RotateClash
  <2> HIDE DEF result
  <2>2. worker' \in Worker /\ worker'.pc \notin {"name", "send"}
    <3>1. CASE worker' = worker
      BY <1>1, <2>1, <3>1
    <3>2. CASE worker' = Idle
      BY <3>2, IdleTyped
    <3>3. CASE /\ result \in Nodes
               /\ worker' = [worker EXCEPT !.pc = "pool", !.attempt = 2, !.node = result,
                                           !.proxy = None]
      BY <1>1, <3>3 DEF Worker
    <3> QED
      BY <2>1, <3>1, <3>2, <3>3 DEF AfterRotation
  <2> QED
    BY <1>1, <2>1, <2>2, TypedElsewhere
<1>9. ASSUME NEW p \in Pages, CheckProxy(p) PROVE WorkerTyped'
  <2>1. /\ Pool!NextProxy(p) \/ Pool!Refresh(p)
        /\ worker' = [worker EXCEPT !.overtaken = @ \/ worker.pc = "name"]
        /\ UNCHANGED <<recorded, assigned, sent>>
    BY <1>9 DEF CheckProxy
  <2>2. last' \in Pool!Endpoint
    BY <2>1, ProxyServed
  <2>3. /\ worker' \in Worker /\ worker'.pc = worker.pc
        /\ worker'.proxy = worker.proxy
    <3> DEFINE b == worker.overtaken \/ worker.pc = "name"
    <3>1. worker' = [worker EXCEPT !.overtaken = b] /\ b \in BOOLEAN
      BY <1>1, <2>1, FieldsTyped
    <3> HIDE DEF b
    <3> QED
      BY <1>1, <3>1 DEF Worker
  <2> QED
    BY <1>1, <2>1, <2>2, <2>3 DEF WorkerTyped
<1>10. CASE UNCHANGED <<worker, recorded, assigned, sent, last>>
  BY <1>10 DEF WorkerTyped
<1>11. FetchSubscription \/ StartRotation
       => UNCHANGED <<worker, recorded, assigned, sent, last>>
  BY DEF FetchSubscription, StartRotation, Pool!FetchList, poolVars, providerVars
<1>12. ASSUME NEW p \in Pages,
              Click(p, "check") \/ Click(p, "rotate") \/ CheckFetches(p)
              \/ CheckFails(p) \/ PageStartsRotation(p) \/ PageRotates(p)
       PROVE  UNCHANGED <<worker, recorded, assigned, sent, last>>
  BY <1>12 DEF Click, CheckFetches, CheckFails, PageStartsRotation, PageRotates,
               Pool!FetchList, Pool!RefreshFails, poolVars, providerVars
<1>13. PoolExpires \/ Meddling \/ UNCHANGED vars
       => UNCHANGED <<worker, recorded, assigned, sent, last>>
  BY DEF PoolExpires, Meddling, Pool!Expire, poolVars, providerVars, vars
<1> QED
  BY <1>2, <1>3, <1>4, <1>5, <1>6, <1>7, <1>8, <1>9, <1>10, <1>11, <1>12, <1>13
     DEF Next, CollectorStep, PageStep

-----------------------------------------------------------------------------
(* The threads: what the pages do, the bounds, and which call a thread is in *)
(* that holds a lock.                                                        *)
Threads ==
    /\ page \in [Pages -> {"idle", "check", "rotate"}]
    /\ collections \in 0 .. MaxCollections
    /\ visits \in 0 .. MaxVisits
    /\ holder = Collector => worker.pc = "pool"
    /\ lock = Collector => worker.pc = "rotate"
    /\ \A p \in Pages : /\ holder = p => page[p] = "check"
                        /\ lock = p => page[p] = "rotate"

LEMMA ThreadsInitially == Init => Threads
<1>1. /\ None # Collector /\ \A p \in Pages : None # p
      /\ MaxCollections \in Nat /\ MaxVisits \in Nat
  BY PoolAssumption, ProviderAssumption DEF Pool!PoolAssumption, Callers
<1> QED
  BY <1>1 DEF Init, Threads, Pool!PoolInit, Clash!ClashInit

(* A call that ends has released the lock.                                   *)
LEMMA RotationStepLock ==
    ASSUME ClashTyped, NEW t \in Callers, Clash!RotationStep(t)
    PROVE  /\ lock' = lock \/ lock' = None
           /\ rotation'[t].pc = "idle" => lock' = None
<1>1. rotation \in [Callers -> Clash!Rotation]
  BY DEF ClashTyped, Clash!ClashTypeOK
<1>2. \A r \in Clash!Rotation :
         DOMAIN r = {"pc", "group", "current", "todo", "failed", "result"}
  BY DEF Clash!Rotation
<1>3. DOMAIN rotation = Callers
      /\ DOMAIN rotation[t] = {"pc", "group", "current", "todo", "failed", "result"}
  BY <1>1, <1>2
<1>4. CASE Clash!ReadMode(t)
  BY <1>3, <1>4 DEF Clash!ReadMode
<1>5. CASE Clash!ReadGroup(t)
  <2> DEFINE order == Clash!Ordered(Clash!Candidates(rotation[t].group),
                                    now[rotation[t].group])
  <2> HIDE DEF order
  <2>1. /\ rotation' = [rotation EXCEPT ![t].pc = "test",
                                        ![t].current = now[rotation[t].group],
                                        ![t].todo = order]
        /\ UNCHANGED lock
    BY <1>5 DEF Clash!ReadGroup, order
  <2> QED
    BY <1>3, <2>1
<1>6. CASE Clash!TestPasses(t)
  BY <1>3, <1>6 DEF Clash!TestPasses
<1>7. CASE Clash!TestFails(t)
  <2>1. rotation[t].pc = "test" /\ UNCHANGED lock
    BY <1>7 DEF Clash!TestFails
  <2>2. rotation'[t].pc = rotation[t].pc
    BY <1>3, <1>7 DEF Clash!TestFails
  <2> QED
    BY <2>1, <2>2
<1>8. CASE \/ Clash!NoCandidates(t) \/ Clash!LastTestFails(t) \/ Clash!SelectProxy(t)
           \/ Clash!AnswerLost(t) \/ Clash!RequestFails(t)
  BY <1>8 DEF Clash!NoCandidates, Clash!LastTestFails, Clash!SelectProxy,
              Clash!AnswerLost, Clash!RequestFails, Clash!Finish
<1> QED
  BY <1>4, <1>5, <1>6, <1>7, <1>8 DEF Clash!RotationStep

(* One step per action of the program. *)
LEMMA ThreadsKept ==
    ASSUME Pool!PoolInv, Served, ClashTyped, WorkerTyped, Threads, [Next]_vars
    PROVE  Threads'
<1> USE DEF Threads
<1>1. /\ None # Collector /\ \A p \in Pages : None # p /\ p # Collector
      /\ MaxCollections \in Nat /\ MaxVisits \in Nat
      /\ Collector \in Callers /\ Pages \subseteq Callers
  BY PoolAssumption, ProviderAssumption DEF Pool!PoolAssumption, Callers
<1>2. /\ worker \in Worker
      /\ \A pc \in {"idle", "pool", "name", "send", "rotate"} :
            [worker EXCEPT !.pc = pc].pc = pc
  BY FieldsTyped DEF WorkerTyped
<1>3. CASE StartCollection
  <2>1. /\ worker.pc = "idle" /\ collections' = collections + 1
        /\ collections < MaxCollections /\ UNCHANGED <<holder, lock, page, visits>>
    BY <1>3 DEF StartCollection, poolVars, clashVars
  <2> QED
    BY <1>1, <2>1
<1>4. CASE TakeProxy
  <2>1. holder' = None
    BY <1>4, ProxyServed DEF TakeProxy
  <2>2. worker.pc = "pool" /\ UNCHANGED <<lock, page, collections, visits>>
    BY <1>4 DEF TakeProxy, clashVars
  <2> QED
    BY <1>1, <2>1, <2>2
<1>5. CASE FetchSubscription
  <2>1. /\ worker.pc = "pool" /\ holder' = Collector
        /\ UNCHANGED <<worker, lock, page, collections, visits>>
    BY <1>5 DEF FetchSubscription, Pool!FetchList, clashVars, providerVars
  <2> QED
    BY <1>1, <2>1
<1>6. CASE SubscriptionFails
  <2>1. worker.pc = "pool" /\ holder' = None /\ UNCHANGED <<lock, page, collections, visits>>
    BY <1>6 DEF SubscriptionFails, Pool!RefreshFails, clashVars
  <2> QED
    BY <1>1, <2>1
<1>7. CASE BuildRequest
  <2>1. worker.pc = "name" /\ UNCHANGED <<holder, lock, page, collections, visits>>
    BY <1>7 DEF BuildRequest, poolVars, clashVars
  <2> QED
    BY <1>1, <2>1
<1>8. CASE Answered \/ RequestFails
  <2>1. worker.pc = "send" /\ UNCHANGED <<holder, lock, page, collections, visits>>
    BY <1>8 DEF Answered, RequestFails, Send, poolVars, clashVars
  <2> QED
    BY <1>1, <2>1
<1>9. CASE StartRotation
  <2>1. /\ worker.pc = "rotate" /\ lock' = Collector
        /\ UNCHANGED <<worker, holder, page, collections, visits>>
    BY <1>9 DEF StartRotation, Clash!Rotate, poolVars, providerVars
  <2> QED
    BY <1>1, <2>1
<1>10. CASE RotateClash
  <2>1. /\ worker.pc = "rotate" /\ UNCHANGED <<holder, page, collections, visits>>
        /\ lock' = lock \/ lock' = None
        /\ worker' = worker \/ lock' = None
    BY <1>1, <1>10, RotationStepLock DEF RotateClash, poolVars
  <2> QED
    BY <1>1, <2>1
<1>11. ASSUME NEW p \in Pages, NEW what \in {"check", "rotate"}, Click(p, what)
       PROVE  Threads'
  <2>1. /\ page[p] = "idle" /\ visits' = visits + 1 /\ visits < MaxVisits
        /\ page' = [page EXCEPT ![p] = what]
        /\ UNCHANGED <<worker, holder, lock, collections>>
    BY <1>11 DEF Click, poolVars, clashVars
  <2> QED
    BY <1>1, <2>1
<1>12. ASSUME NEW p \in Pages, CheckProxy(p) PROVE Threads'
  <2>1. holder' = None
    BY <1>12, ProxyServed DEF CheckProxy
  <2>2. /\ page[p] = "check" /\ page' = [page EXCEPT ![p] = "idle"]
        /\ UNCHANGED <<lock, collections, visits>>
        /\ worker' = [worker EXCEPT !.overtaken = @ \/ worker.pc = "name"]
    BY <1>12 DEF CheckProxy, clashVars
  <2>3. worker'.pc = worker.pc
    BY <1>2, <2>2 DEF Worker
  <2> QED
    BY <1>1, <2>1, <2>2, <2>3
<1>13. ASSUME NEW p \in Pages, CheckFetches(p) PROVE Threads'
  <2>1. /\ page[p] = "check" /\ holder' = p
        /\ UNCHANGED <<worker, lock, page, collections, visits>>
    BY <1>13 DEF CheckFetches, Pool!FetchList, clashVars, providerVars
  <2> QED
    BY <1>1, <2>1
<1>14. ASSUME NEW p \in Pages, CheckFails(p) PROVE Threads'
  <2>1. /\ page[p] = "check" /\ holder' = None /\ page' = [page EXCEPT ![p] = "idle"]
        /\ UNCHANGED <<worker, lock, collections, visits>>
    BY <1>14 DEF CheckFails, Pool!RefreshFails, clashVars
  <2> QED
    BY <1>1, <2>1
<1>15. ASSUME NEW p \in Pages, PageStartsRotation(p) PROVE Threads'
  <2>1. /\ page[p] = "rotate" /\ lock' = p
        /\ UNCHANGED <<worker, holder, page, collections, visits>>
    BY <1>15 DEF PageStartsRotation, Clash!Rotate, poolVars, providerVars
  <2> QED
    BY <1>1, <2>1
<1>16. ASSUME NEW p \in Pages, PageRotates(p) PROVE Threads'
  <2>1. /\ page[p] = "rotate" /\ UNCHANGED <<worker, holder, collections, visits>>
        /\ lock' = lock \/ lock' = None
        /\ \/ page' = page
           \/ page' = [page EXCEPT ![p] = "idle"] /\ lock' = None
    BY <1>1, <1>16, RotationStepLock DEF PageRotates, poolVars
  <2> QED
    BY <1>1, <2>1
<1>17. CASE UNCHANGED <<worker, holder, lock, page, collections, visits>>
  BY <1>17
<1>18. PoolExpires \/ Meddling \/ UNCHANGED vars
       => UNCHANGED <<worker, holder, lock, page, collections, visits>>
  BY DEF PoolExpires, Meddling, Pool!Expire, Clash!UserStep, Clash!UserSelects,
         Clash!UserChangesMode, Clash!UserReloads, poolVars, clashVars, providerVars, vars
<1> QED
  BY <1>3, <1>4, <1>5, <1>6, <1>7, <1>8, <1>9, <1>10, <1>11, <1>12, <1>13, <1>14,
     <1>15, <1>16, <1>17, <1>18 DEF Next, CollectorStep, PageStep

(* Types, and that the two locks are held exactly by threads in a call.      *)
THEOREM TypeOKHolds == Spec => []TypeOK
<1> DEFINE Inv == /\ Pool!PoolInv /\ Served
                  /\ ClashInv /\ ClashTyped
                  /\ WorkerTyped /\ Threads
<1>1. Init => Inv
  <2>1. Init => WorkerTyped
    BY IdleTyped DEF Init, WorkerTyped
  <2>2. Init => /\ Pool!PoolInv /\ Served /\ ClashInv /\ ClashTyped
                /\ Threads
    BY PoolInitially, ServedInitially, ClashInitially, ClashTypedInitially,
       ThreadsInitially DEF Init
  <2> QED
    BY <2>1, <2>2
<1>2. Inv /\ [Next]_vars => Inv'
  <2> SUFFICES ASSUME Inv, [Next]_vars PROVE Inv'
    OBVIOUS
  <2>1. Pool!PoolInv' /\ Served' /\ ClashInv' /\ ClashTyped'
    BY StepsOfParts, PoolKeepsInv, PoolKeepsServed, ClashKeepsInv, ClashKeepsTypes
  <2>2. WorkerTyped' /\ Threads'
    BY WorkerKeepsTypes, ThreadsKept
  <2> QED
    BY <2>1, <2>2
<1>3. Inv => TypeOK
  BY DEF TypeOK, Pool!PoolInv, ClashInv, ClashTyped, WorkerTyped, Threads
<1> QED
  BY <1>1, <1>2, <1>3, PTL DEF Spec

-----------------------------------------------------------------------------
(* A rotation goes through the order made of its group, which stays as it is *)
(* while the user keeps away: what is left is the end of it, and what is     *)
(* before has failed.                                                        *)
Order(t) == Clash!Ordered(Clash!Candidates(rotation[t].group), now[rotation[t].group])

Done(t) == Len(Order(t)) - Len(rotation[t].todo)

ProgressOf(t) ==
    rotation[t].pc \in {"test", "select"} /\ ~meddled[t] =>
        /\ Done(t) >= 0
        /\ \A i \in 1 .. Len(rotation[t].todo) :
              rotation[t].todo[i] = Order(t)[Done(t) + i]
        /\ \A i \in 1 .. Done(t) : Order(t)[i] \in rotation[t].failed

Progress == \A t \in Callers : ProgressOf(t)

(* The order of a group is made of its layout and its selection alone.       *)
LEMMA OrderStays ==
    ASSUME NEW t \in Callers, UNCHANGED <<layout, now>>,
           rotation'[t].group = rotation[t].group
    PROVE  Order(t)' = Order(t)
  BY DEF Order, Clash!Candidates

LEMMA OrderTyped ==
    ASSUME ClashTyped, NEW t \in Callers
    PROVE  /\ Order(t) \in Seq(Nodes) /\ Len(Order(t)) \in Nat
           /\ rotation[t].todo \in Seq(Nodes) /\ Len(rotation[t].todo) \in Nat
           /\ Done(t) \in Int
<1>1. rotation[t].todo \in Seq(Nodes) /\ rotation[t].group \in Clash!Groups
  BY RotationTyped
<1>2. Clash!Candidates(rotation[t].group) \in Seq(Nodes)
  BY <1>1, CandidatesPlaced DEF ClashTyped, Clash!ClashTypeOK
<1>3. Order(t) \in Seq(Nodes)
  BY <1>2, OrderOf DEF Order
<1> QED
  BY <1>1, <1>3 DEF Done

(* A rotation that a step does not concern.                                  *)
LEMMA ProgressStays ==
    ASSUME NEW t \in Callers, ProgressOf(t), UNCHANGED <<layout, now>>,
           rotation'[t] = rotation[t], meddled'[t] = meddled[t]
    PROVE  ProgressOf(t)'
<1>1. Order(t)' = Order(t)
  BY OrderStays
<1>2. Done(t)' = Done(t)
  BY <1>1 DEF Done
<1> QED
  BY <1>1, <1>2 DEF ProgressOf

(* The candidate that fails goes from what is left to what has failed.       *)
LEMMA ProgressFails ==
    ASSUME ClashTyped, NEW t \in Callers, ProgressOf(t), UNCHANGED <<layout, now, meddled>>,
           rotation[t].pc = "test", Len(rotation[t].todo) > 1,
           rotation'[t] = [rotation[t] EXCEPT !.todo = Tail(@),
                                              !.failed = @ \cup {Head(rotation[t].todo)}]
    PROVE  ProgressOf(t)'
<1> DEFINE todo == rotation[t].todo
           d == Done(t)
<1>1. /\ rotation'[t].todo = Tail(todo) /\ rotation'[t].group = rotation[t].group
      /\ rotation'[t].failed = rotation[t].failed \cup {Head(todo)}
  BY RotationTyped
<1>2. Order(t)' = Order(t)
  BY <1>1, OrderStays
<1>3. /\ todo \in Seq(Nodes) /\ Len(todo) \in Nat /\ Len(todo) > 1 /\ d \in Int
      /\ Len(Order(t)) \in Nat /\ d = Len(Order(t)) - Len(todo)
  BY OrderTyped DEF Done
<1>4. /\ Len(Tail(todo)) = Len(todo) - 1 /\ Head(todo) = todo[1]
      /\ \A i \in 1 .. Len(Tail(todo)) : Tail(todo)[i] = todo[i + 1]
  <2> HIDE DEF todo
  <2>1. todo # << >>
    BY <1>3
  <2> QED
    BY <1>3, <2>1, HeadTailProperties
<1>5. Done(t)' = d + 1
  <2> DEFINE L == Len(Order(t))
             m == Len(todo)
             k == Len(Tail(todo))
  <2>1. Done(t)' = L - k
    BY <1>1, <1>2 DEF Done
  <2>2. L \in Nat /\ m \in Nat /\ d = L - m /\ k = m - 1
    BY <1>3, <1>4
  <2> HIDE DEF d, L, m, k
  <2>3. L - k = d + 1
    BY <2>2
  <2> QED
    BY <2>1, <2>3, Zenon
<1>6. ASSUME ~meddled[t]
      PROVE  /\ d + 1 >= 0
             /\ \A i \in 1 .. Len(Tail(todo)) : Tail(todo)[i] = Order(t)[(d + 1) + i]
             /\ \A i \in 1 .. d + 1 : Order(t)[i] \in rotation[t].failed \cup {Head(todo)}
  <2>1. /\ d >= 0
        /\ \A i \in 1 .. Len(todo) : todo[i] = Order(t)[d + i]
        /\ \A i \in 1 .. d : Order(t)[i] \in rotation[t].failed
    BY <1>6 DEF ProgressOf
  <2> HIDE DEF todo, d
  <2>2. \A i \in 1 .. Len(Tail(todo)) :
           /\ i + 1 \in 1 .. Len(todo) /\ d + (i + 1) = (d + 1) + i
           /\ Tail(todo)[i] = todo[i + 1]
    BY <1>3, <1>4
  <2>3. \A i \in 1 .. Len(Tail(todo)) : Tail(todo)[i] = Order(t)[(d + 1) + i]
    BY <2>1, <2>2
  <2>4. Order(t)[d + 1] = Head(todo)
    BY <1>3, <1>4, <2>1
  <2>5. \A i \in 1 .. d + 1 : i \in 1 .. d \/ i = d + 1
    BY <1>3
  <2> QED
    BY <1>3, <2>1, <2>3, <2>4, <2>5
<1> HIDE DEF todo, d
<1> QED
  BY <1>1, <1>2, <1>5, <1>6 DEF ProgressOf

(* A step of one rotation that leaves Clash as it is.                        *)
LEMMA ProgressGoesOn ==
    ASSUME ClashTyped, Progress, NEW t \in Callers, NEW r,
           rotation' = [rotation EXCEPT ![t] = r],
           UNCHANGED <<layout, now>>,
           \A u \in Callers \ {t} : meddled'[u] = meddled[u],
           ProgressOf(t)'
    PROVE  Progress'
<1>1. rotation \in [Callers -> Clash!Rotation]
  BY DEF ClashTyped, Clash!ClashTypeOK
<1>2. ASSUME NEW u \in Callers \ {t} PROVE ProgressOf(u)'
  <2>1. rotation'[u] = rotation[u] /\ ProgressOf(u)
    BY <1>1 DEF Progress
  <2> QED
    BY <2>1, ProgressStays
<1> QED
  BY <1>2 DEF Progress

(* With the lock held no other thread rotates, so that none does when the    *)
(* one that holds it ends.                                                   *)
LEMMA ProgressEnds ==
    ASSUME ClashTyped, Clash!LockHeld, NEW t \in Callers, NEW result,
           rotation[t].pc # "idle", Clash!Finish(t, result)
    PROVE  Progress'
<1>1. rotation \in [Callers -> Clash!Rotation]
  BY DEF ClashTyped, Clash!ClashTypeOK
<1>2. \A u \in Callers \ {t} : rotation[u].pc = "idle"
  BY DEF Clash!LockHeld
<1>3. \A u \in Callers : rotation'[u].pc = "idle"
  BY <1>1, <1>2 DEF Clash!Finish, Clash!Resting
<1> QED
  BY <1>3 DEF Progress, ProgressOf

(* At first the whole order is left.                                         *)
LEMMA ProgressStarts ==
    ASSUME ClashTyped, NEW t \in Callers, UNCHANGED <<layout, now>>,
           rotation'[t].group = rotation[t].group,
           rotation'[t].todo = Order(t)
    PROVE  ProgressOf(t)'
<1>1. Order(t)' = Order(t)
  BY OrderStays
<1> DEFINE todo == Order(t)
           n == Len(todo)
           d == Done(t)'
<1>2. n \in Nat
  BY OrderTyped
<1>3. d = n - n
  BY <1>1 DEF Done
<1> HIDE DEF n
<1>4. d = 0
  BY <1>2, <1>3
<1>5. \A i \in 1 .. n : d + i = i
  BY <1>4
<1>6. rotation'[t].todo = todo /\ Len(rotation'[t].todo) = n
  BY DEF n
<1> HIDE DEF todo, d
<1>7. /\ d >= 0
      /\ \A i \in 1 .. n : todo[i] = todo[d + i]
      /\ \A i \in 1 .. d : todo[i] \in rotation'[t].failed
  BY <1>4, <1>5
<1>8. Order(t)' = todo
  BY <1>1 DEF todo
<1> QED
  BY <1>6, <1>7, <1>8 DEF ProgressOf, d

(* One step per action of the controller. *)
LEMMA ProgressKept ==
    ASSUME ClashTyped, ClashInv, Progress, [Clash!ClashNext]_clashVars
    PROVE  Progress'
<1>1. /\ rotation \in [Callers -> Clash!Rotation] /\ Clash!LockHeld
      /\ meddled \in [Callers -> BOOLEAN]
  BY DEF ClashTyped, Clash!ClashTypeOK, ClashInv
<1>2. ASSUME NEW t \in Callers, Clash!Rotate(t) PROVE Progress'
  <2> DEFINE r == [rotation[t] EXCEPT !.pc = "mode", !.result = None]
  <2>1. /\ rotation' = [rotation EXCEPT ![t] = r]
        /\ meddled' = [meddled EXCEPT ![t] = FALSE]
        /\ UNCHANGED <<layout, now>>
    BY <1>1, <1>2 DEF Clash!Rotate
  <2>2. r.pc = "mode"
    BY RotationTyped
  <2> HIDE DEF r
  <2>3. ProgressOf(t)'
    BY <1>1, <2>1, <2>2 DEF ProgressOf
  <2>4. \A u \in Callers \ {t} : meddled'[u] = meddled[u]
    BY <1>1, <2>1
  <2> QED
    BY <2>1, <2>3, <2>4, ProgressGoesOn
<1>3. ASSUME NEW t \in Callers, Clash!ReadMode(t) PROVE Progress'
  <2> DEFINE r == [rotation[t] EXCEPT !.pc = "group", !.group = Clash!EffectiveGroup]
  <2>1. /\ rotation' = [rotation EXCEPT ![t] = r]
        /\ UNCHANGED <<layout, now, meddled>>
    BY <1>1, <1>3 DEF Clash!ReadMode
  <2>2. r.pc = "group"
    BY RotationTyped
  <2> HIDE DEF r
  <2>3. ProgressOf(t)'
    BY <1>1, <2>1, <2>2 DEF ProgressOf
  <2> QED
    BY <2>1, <2>3, ProgressGoesOn
<1>4. ASSUME NEW t \in Callers, Clash!ReadGroup(t) PROVE Progress'
  <2> DEFINE g == rotation[t].group
             order == Order(t)
             r == [rotation[t] EXCEPT !.pc = "test", !.current = now[g], !.todo = order]
  <2>1. /\ rotation' = [rotation EXCEPT ![t] = r]
        /\ UNCHANGED <<layout, now, meddled>>
    BY <1>1, <1>4 DEF Clash!ReadGroup, Order
  <2> HIDE DEF order
  <2>2. r.todo = order /\ r.group = rotation[t].group
    BY RotationTyped
  <2> HIDE DEF r
  <2>3. ProgressOf(t)'
    BY <1>1, <2>1, <2>2, ProgressStarts DEF order
  <2> QED
    BY <2>1, <2>3, ProgressGoesOn
<1>5. ASSUME NEW t \in Callers, Clash!TestPasses(t) PROVE Progress'
  <2> DEFINE r == [rotation[t] EXCEPT !.pc = "select"]
  <2>1. /\ rotation' = [rotation EXCEPT ![t] = r] /\ rotation[t].pc = "test"
        /\ UNCHANGED <<layout, now, meddled>>
    BY <1>1, <1>5 DEF Clash!TestPasses
  <2>2. /\ r.todo = rotation[t].todo /\ r.group = rotation[t].group
        /\ r.failed = rotation[t].failed
    BY RotationTyped
  <2> HIDE DEF r
  <2>3. rotation'[t] = r
    BY <1>1, <2>1
  <2>4. Order(t)' = Order(t)
    BY <2>1, <2>2, <2>3, OrderStays
  <2>5. Done(t)' = Done(t)
    BY <2>2, <2>3, <2>4 DEF Done
  <2>6. ProgressOf(t)
    BY DEF Progress
  <2>7. ProgressOf(t)'
    BY <2>1, <2>2, <2>3, <2>4, <2>5, <2>6 DEF ProgressOf
  <2> QED
    BY <2>1, <2>7, ProgressGoesOn
<1>6. ASSUME NEW t \in Callers, Clash!TestFails(t) PROVE Progress'
  <2> DEFINE r == [rotation[t] EXCEPT !.todo = Tail(@),
                                      !.failed = @ \cup {Head(rotation[t].todo)}]
  <2>1. /\ rotation' = [rotation EXCEPT ![t] = r]
        /\ rotation[t].pc = "test" /\ Len(rotation[t].todo) > 1
        /\ UNCHANGED <<layout, now, meddled>>
    BY <1>1, <1>6 DEF Clash!TestFails
  <2>2. rotation'[t] = r /\ ProgressOf(t)
    BY <1>1, <2>1 DEF Progress
  <2>3. ProgressOf(t)'
    BY <2>1, <2>2, ProgressFails
  <2> HIDE DEF r
  <2> QED
    BY <2>1, <2>3, ProgressGoesOn
<1>7. ASSUME NEW t \in Callers, \/ Clash!NoCandidates(t) \/ Clash!LastTestFails(t)
                               \/ Clash!RequestFails(t)
      PROVE  Progress'
  BY <1>1, <1>7, ProgressEnds
     DEF Clash!NoCandidates, Clash!LastTestFails, Clash!RequestFails
<1>8. ASSUME NEW t \in Callers, Clash!SelectProxy(t) \/ Clash!AnswerLost(t)
      PROVE  Progress'
  BY <1>1, <1>8, ProgressEnds DEF Clash!SelectProxy, Clash!AnswerLost
<1>9. CASE Clash!UserStep
  <2>1. meddled' = [t \in Callers |-> TRUE]
    BY <1>9 DEF Clash!UserStep, Clash!UserSelects, Clash!UserChangesMode,
                Clash!UserReloads, Clash!Meddle
  <2> QED
    BY <2>1 DEF Progress, ProgressOf
<1>10. CASE UNCHANGED clashVars
  <2>1. \A t \in Callers : ProgressOf(t)'
    <3> SUFFICES ASSUME NEW t \in Callers PROVE ProgressOf(t)'
      OBVIOUS
    <3> QED
      BY <1>10, ProgressStays DEF Progress, clashVars
  <2> QED
    BY <2>1 DEF Progress
<1> QED
  BY <1>2, <1>3, <1>4, <1>5, <1>6, <1>7, <1>8, <1>9, <1>10
     DEF Clash!ClashNext, Clash!RotationStep

-----------------------------------------------------------------------------
(* A list that has each of its members once.                                 *)
Unique(list) == \A i, j \in DOMAIN list : list[i] = list[j] => i = j

(* In the order after the member at place p of such a list, every allowed    *)
(* member met on the way from p to q is before the one at q.                 *)
LEMMA MetBefore ==
    ASSUME NEW list \in Seq(Nodes), Unique(list),
           NEW c \in Seq(Nodes), NEW place,
           IsPlacing(place, c, list, Allowed, Len(list)),
           NEW p \in 1 .. Len(list), list[p] \in Allowed,
           NEW q \in 1 .. Len(list),
           NEW m \in 1 .. Len(c), Clash!Ordered(c, list[p])[m] = list[q],
           NEW node \in Clash!Between(list, p, q), node \in Allowed
    PROVE  \E i \in 1 .. m - 1 : Clash!Ordered(c, list[p])[i] = node
<1> DEFINE order == Clash!Ordered(c, list[p])
           L == Len(list)
           n == Len(c)
<1>1. /\ L \in Nat \ {0} /\ n \in Nat /\ DOMAIN list = 1 .. L /\ DOMAIN c = 1 .. n
  OBVIOUS
<1>2. PICK d \in 1 .. ((q - p - 1) % L) : node = list[((p + d - 1) % L) + 1]
  BY DEF Clash!Between
<1> DEFINE r == ((p + d - 1) % L) + 1
<1>3. /\ r \in 1 .. L
      /\ q > p => p < r /\ r < q
      /\ q <= p => p < r \/ r < q
  <2> HIDE DEF L
  <2> QED
    BY <1>1, RoundFrom DEF L
<1>4. list[r] = node
  BY <1>2
<1> HIDE DEF r
<1>5. /\ place \in [1 .. n -> 1 .. L]
      /\ \A i, j \in 1 .. n : i < j => place[i] < place[j]
      /\ \A i \in 1 .. n : c[i] = list[place[i]]
      /\ \A x \in 1 .. L : list[x] \in Allowed => \E i \in 1 .. n : place[i] = x
  BY DEF IsPlacing
<1>6. \A i, j \in 1 .. L : list[i] = list[j] => i = j
  BY <1>1 DEF Unique
<1>7. PICK i0 \in 1 .. n : place[i0] = p
  BY <1>5
<1>8. PICK s \in 1 .. n : place[s] = r
  BY <1>3, <1>4, <1>5
<1>9. c[i0] = list[p] /\ c[s] = node
  BY <1>4, <1>5, <1>7, <1>8
<1>10. \A i, j \in 1 .. n : c[i] = c[j] => i = j
  <2> HIDE DEF n, L
  <2> SUFFICES ASSUME NEW i \in 1 .. n, NEW j \in 1 .. n, c[i] = c[j] PROVE i = j
    OBVIOUS
  <2>1. place[i] \in 1 .. L /\ place[j] \in 1 .. L
    BY <1>5
  <2>2. list[place[i]] = list[place[j]]
    BY <1>5
  <2>3. place[i] = place[j]
    BY <1>6, <2>1, <2>2
  <2> QED
    BY <1>1, <1>5, <2>1, <2>3
<1>11. Clash!Place(c, list[p]) = i0
  <2>1. \E i \in DOMAIN c : c[i] = list[p]
    BY <1>1, <1>9
  <2>2. Clash!Place(c, list[p]) \in 1 .. n /\ c[Clash!Place(c, list[p])] = list[p]
    BY <2>1, PlaceFirst
  <2> QED
    BY <1>9, <1>10, <2>2
<1>12. /\ \A k \in 1 .. n - i0 : order[k] = c[i0 + k]
       /\ \A k \in n - i0 + 1 .. n : order[k] = c[k - (n - i0)]
  <2>1. \E i \in DOMAIN c : c[i] = list[p]
    BY <1>1, <1>9
  <2> QED
    BY <1>11, <2>1, OrderOf
<1>13. order[m] = list[q]
  OBVIOUS
<1>14. \A i, j \in 1 .. n : place[i] < place[j] => i < j
  <2> HIDE DEF n, L
  <2> SUFFICES ASSUME NEW i \in 1 .. n, NEW j \in 1 .. n, place[i] < place[j] PROVE i < j
    OBVIOUS
  <2>1. place[i] \in Nat /\ place[j] \in Nat /\ i \in Nat /\ j \in Nat
    BY <1>1, <1>5
  <2>2. i # j /\ ~ (j < i)
    BY <1>5, <2>1
  <2> QED
    BY <2>1, <2>2
<1> HIDE DEF order, n, L
<1>15. CASE m <= n - i0
  <2>1. i0 + m \in 1 .. n /\ m \in 1 .. n - i0
    BY <1>1, <1>15 DEF n
  <2>2. list[place[i0 + m]] = list[q]
    BY <1>5, <1>12, <1>13, <2>1
  <2>3. place[i0 + m] = q
    BY <1>5, <1>6, <2>1, <2>2 DEF L
  <2>4. i0 < i0 + m
    BY <1>1, <2>1
  <2>5. p < q
    BY <1>5, <1>7, <2>1, <2>3, <2>4
  <2>6. i0 < s /\ s < i0 + m
    BY <1>3, <1>7, <1>8, <1>14, <2>1, <2>3, <2>5
  <2>7. s - i0 \in 1 .. m - 1 /\ s - i0 \in 1 .. n - i0 /\ i0 + (s - i0) = s
    BY <1>1, <2>1, <2>6
  <2>8. order[s - i0] = node
    BY <1>9, <1>12, <2>7
  <2> QED
    BY <2>7, <2>8 DEF order
<1>16. CASE ~ (m <= n - i0)
  <2> DEFINE j == m - (n - i0)
  <2>1. j \in 1 .. i0 /\ j \in 1 .. n /\ m \in n - i0 + 1 .. n
    BY <1>1, <1>16 DEF n
  <2>2. list[place[j]] = list[q]
    BY <1>5, <1>12, <1>13, <2>1
  <2>3. place[j] = q
    <3> HIDE DEF j
    <3> QED
      BY <1>5, <1>6, <2>1, <2>2 DEF L
  <2>4. q <= p
    <3> HIDE DEF j
    <3>1. j = i0 \/ j < i0
      BY <1>1, <2>1
    <3>2. p \in Int
      OBVIOUS
    <3> QED
      BY <1>5, <1>7, <2>1, <2>3, <3>1, <3>2
  <2>5. CASE p < r
    <3>1. i0 < s
      BY <1>7, <1>8, <1>14, <2>5
    <3>2. s - i0 \in 1 .. m - 1 /\ s - i0 \in 1 .. n - i0 /\ i0 + (s - i0) = s
      BY <1>1, <2>1, <3>1
    <3>3. order[s - i0] = node
      BY <1>9, <1>12, <3>2
    <3> QED
      BY <3>2, <3>3 DEF order
  <2>6. CASE r < q
    <3> DEFINE k == s + (n - i0)
    <3>1. s < j
      <4> HIDE DEF j
      <4> QED
        BY <1>8, <1>14, <2>1, <2>3, <2>6
    <3>2. k \in 1 .. m - 1 /\ k \in n - i0 + 1 .. n /\ k - (n - i0) = s
      BY <1>1, <2>1, <3>1
    <3> HIDE DEF k
    <3>3. order[k] = node
      BY <1>9, <1>12, <3>2
    <3> QED
      BY <3>2, <3>3 DEF order
  <2> QED
    BY <1>3, <2>4, <2>5, <2>6
<1> QED
  BY <1>15, <1>16

(* What is in an order is a candidate.                                       *)
LEMMA OrderAllowed ==
    ASSUME ClashTyped, NEW t \in Callers, NEW m \in 1 .. Len(Order(t))
    PROVE  /\ m \in 1 .. Len(Clash!Candidates(rotation[t].group))
           /\ Order(t)[m] \in Allowed
<1> DEFINE g == rotation[t].group
           c == Clash!Candidates(g)
           n == Len(c)
           i0 == Clash!Place(c, now[g])
<1>1. g \in Clash!Groups /\ layout \in Layouts
  BY RotationTyped DEF ClashTyped, Clash!ClashTypeOK
<1>2. c \in Seq(Nodes) /\ n \in Nat
  BY <1>1, CandidatesPlaced
<1>3. Len(Order(t)) = n
  BY <1>2, OrderOf DEF Order
<1>4. PICK place : IsPlacing(place, c, layout[g], Allowed, Len(layout[g]))
  BY <1>1, CandidatesPlaced
<1>5. \A i \in 1 .. n : c[i] \in Allowed
  BY <1>4 DEF IsPlacing
<1>6. CASE ~ \E i \in DOMAIN c : c[i] = now[g]
  BY <1>3, <1>5, <1>6 DEF Order, Clash!Ordered
<1>7. CASE \E i \in DOMAIN c : c[i] = now[g]
  <2>1. i0 \in 1 .. n
    BY <1>2, <1>7, PlaceFirst
  <2>2. /\ \A k \in 1 .. n - i0 : Order(t)[k] = c[i0 + k]
        /\ \A k \in n - i0 + 1 .. n : Order(t)[k] = c[k - (n - i0)]
    BY <1>2, <1>7, OrderOf DEF Order
  <2> HIDE DEF i0, n, c
  <2>3. m \in 1 .. n
    BY <1>3
  <2>4. CASE m <= n - i0
    <3>1. m \in 1 .. n - i0 /\ i0 + m \in 1 .. n
      BY <1>2, <2>1, <2>3, <2>4
    <3> QED
      BY <1>5, <2>2, <2>3, <3>1 DEF n, c
  <2>5. CASE ~ (m <= n - i0)
    <3>1. m \in n - i0 + 1 .. n /\ m - (n - i0) \in 1 .. n
      BY <1>2, <2>1, <2>3, <2>5
    <3> QED
      BY <1>5, <2>2, <2>3, <3>1 DEF n, c
  <2> QED
    BY <2>4, <2>5
<1> QED
  BY <1>3, <1>6, <1>7

(* In the candidates of a list without duplicates every allowed member that  *)
(* comes before another in the list comes before it.                         *)
LEMMA FirstBefore ==
    ASSUME NEW list \in Seq(Nodes), NEW c \in Seq(Nodes), NEW place, Unique(list),
           IsPlacing(place, c, list, Allowed, Len(list)),
           NEW m \in 1 .. Len(c), NEW q \in 1 .. Len(list), c[m] = list[q],
           NEW i \in 1 .. Len(list), i < q, list[i] \in Allowed
    PROVE  \E s \in 1 .. m - 1 : c[s] = list[i]
<1> DEFINE n == Len(c)
           L == Len(list)
<1>1. /\ n \in Nat /\ L \in Nat
      /\ place \in [1 .. n -> 1 .. L]
      /\ \A j, k \in 1 .. n : j < k => place[j] < place[k]
      /\ \A k \in 1 .. n : c[k] = list[place[k]]
      /\ \A x \in 1 .. L : list[x] \in Allowed => \E k \in 1 .. n : place[k] = x
      /\ \A j, k \in 1 .. L : list[j] = list[k] => j = k
  BY DEF IsPlacing, Unique
<1> HIDE DEF n, L
<1>2. m \in 1 .. n /\ q \in 1 .. L /\ i \in 1 .. L
  BY DEF n, L
<1>3. place[m] = q
  <2>1. place[m] \in 1 .. L /\ list[place[m]] = list[q]
    BY <1>1, <1>2
  <2> QED
    BY <1>1, <1>2, <2>1
<1>4. PICK s \in 1 .. n : place[s] = i
  BY <1>1, <1>2
<1>5. s # m /\ ~ (m < s)
  <2>1. m < s => q < i
    BY <1>1, <1>2, <1>3, <1>4
  <2> QED
    BY <1>2, <1>3, <1>4, <2>1
<1>6. s \in 1 .. m - 1
  BY <1>1, <1>2, <1>5
<1> QED
  BY <1>1, <1>4, <1>6

(* The progress of a rotation says of its next candidate what NextCandidate  *)
(* asks.                                                                     *)
LEMMA ProgressIsNextCandidate ==
    ClashTyped /\ Progress => NextCandidate
<1> SUFFICES ASSUME ClashTyped, Progress, NEW t \in Callers,
                    rotation[t].pc = "select", ~meddled[t]
             PROVE  LET list == layout[rotation[t].group]
                        current == now[rotation[t].group]
                        next == Head(rotation[t].todo)
                    IN  /\ Clash!Eligible(next)
                        /\ \A p, q \in DOMAIN list :
                              /\ \A i, j \in DOMAIN list : list[i] = list[j] => i = j
                              /\ list[p] = current /\ Clash!Eligible(list[p])
                              /\ list[q] = next
                              => \A node \in Clash!Between(list, p, q) :
                                    Clash!Eligible(node) => node \in rotation[t].failed
                        /\ \A q \in DOMAIN list :
                              /\ \A i, j \in DOMAIN list : list[i] = list[j] => i = j
                              /\ \A p \in DOMAIN list :
                                    list[p] = current => ~Clash!Eligible(list[p])
                              /\ list[q] = next
                              => \A i \in 1 .. q - 1 :
                                    Clash!Eligible(list[i]) => list[i] \in rotation[t].failed
  BY DEF NextCandidate, Clash!NextCandidate
<1> DEFINE g == rotation[t].group
           list == layout[g]
           todo == rotation[t].todo
           next == Head(todo)
           c == Clash!Candidates(g)
           m == Done(t) + 1
<1>1. g \in Clash!Groups /\ layout \in Layouts
  BY RotationTyped DEF ClashTyped, Clash!ClashTypeOK
<1>2. c \in Seq(Nodes) /\ list \in Seq(Nodes)
  BY <1>1, CandidatesPlaced
<1>3. /\ todo \in Seq(Nodes) /\ todo # << >>
      /\ Len(Order(t)) \in Nat /\ Done(t) = Len(Order(t)) - Len(todo)
  BY OrderTyped DEF ClashTyped, Done
<1>4. /\ Done(t) >= 0
      /\ \A i \in 1 .. Len(todo) : todo[i] = Order(t)[Done(t) + i]
      /\ \A i \in 1 .. Done(t) : Order(t)[i] \in rotation[t].failed
  BY DEF Progress, ProgressOf
<1>5. next = todo[1] /\ Len(todo) \in Nat \ {0}
  BY <1>3
<1>6. m \in 1 .. Len(Order(t)) /\ m - 1 = Done(t)
  <2> HIDE DEF todo
  <2> QED
    BY <1>3, <1>4, <1>5
<1>7. Order(t)[m] = next
  BY <1>4, <1>5
<1>8. m \in 1 .. Len(c) /\ next \in Allowed
  BY <1>6, <1>7, OrderAllowed
<1>9. Clash!Eligible(next)
  BY <1>8 DEF Allowed
<1>10. ASSUME NEW p \in DOMAIN list, NEW q \in DOMAIN list, Unique(list),
              list[p] = now[g], Clash!Eligible(list[p]), list[q] = next,
              NEW node \in Clash!Between(list, p, q), Clash!Eligible(node)
       PROVE  node \in rotation[t].failed
  <2>1. p \in 1 .. Len(list) /\ q \in 1 .. Len(list) /\ list[p] \in Nodes
    BY <1>2, <1>10
  <2>2. list[p] \in Allowed
    BY <1>10, <2>1 DEF Allowed
  <2>3. node \in Allowed
    <3>1. PICK d \in 1 .. ((q - p - 1) % Len(list)) :
             node = list[((p + d - 1) % Len(list)) + 1]
      BY DEF Clash!Between
    <3> DEFINE n == Len(list)
               r == ((p + d - 1) % n) + 1
    <3>2. n \in Nat \ {0}
      BY <1>2, <2>1
    <3>3. r \in 1 .. n
      <4> HIDE DEF n
      <4> QED
        BY <2>1, <3>2, RoundFrom DEF n
    <3>4. node = list[r]
      BY <3>1
    <3> HIDE DEF r
    <3>5. node \in Nodes
      BY <1>2, <3>3, <3>4
    <3> QED
      BY <1>10, <3>5 DEF Allowed
  <2>4. PICK place : IsPlacing(place, c, list, Allowed, Len(list))
    BY <1>1, CandidatesPlaced
  <2>5. Clash!Ordered(c, list[p]) = Order(t)
    BY <1>10 DEF Order
  <2>6. Clash!Ordered(c, list[p])[m] = list[q]
    BY <1>7, <1>10, <2>5
  <2> HIDE DEF m, c, list, g
  <2>7. \E i \in 1 .. m - 1 : Clash!Ordered(c, list[p])[i] = node
    BY <1>2, <1>8, <1>10, <2>1, <2>2, <2>3, <2>4, <2>6, MetBefore
  <2> QED
    BY <1>4, <1>6, <2>5, <2>7
<1>11. ASSUME NEW q \in DOMAIN list, Unique(list),
              \A p \in DOMAIN list : list[p] = now[g] => ~Clash!Eligible(list[p]),
              list[q] = next, NEW i \in 1 .. q - 1, Clash!Eligible(list[i])
       PROVE  list[i] \in rotation[t].failed
  <2>1. q \in 1 .. Len(list) /\ i \in 1 .. Len(list) /\ i < q
    BY <1>2, <1>11
  <2>2. list[i] \in Allowed
    BY <1>2, <1>11, <2>1 DEF Allowed
  <2>3. PICK place : IsPlacing(place, c, list, Allowed, Len(list))
    BY <1>1, CandidatesPlaced
  <2>4. /\ ~ \E k \in DOMAIN c : c[k] = now[g]
        /\ \E s \in 1 .. m - 1 : c[s] = list[i]
    <3> HIDE DEF c, m
    <3>1. \A k \in DOMAIN c : c[k] \in Allowed /\ \E p \in DOMAIN list : c[k] = list[p]
      <4> SUFFICES ASSUME NEW k \in DOMAIN c
                   PROVE  c[k] \in Allowed /\ \E p \in DOMAIN list : c[k] = list[p]
        OBVIOUS
      <4>1. k \in 1 .. Len(c) /\ DOMAIN list = 1 .. Len(list)
        BY <1>2
      <4> HIDE DEF list, g
      <4>2. /\ place \in [1 .. Len(c) -> 1 .. Len(list)]
            /\ c[k] = list[place[k]] /\ c[k] \in Allowed
        BY <2>3, <4>1 DEF IsPlacing
      <4> QED
        BY <4>1, <4>2
    <3>2. c[m] = next
      <4>1. ~ \E k \in DOMAIN c : c[k] = now[g]
        BY <1>11, <3>1 DEF Allowed
      <4> QED
        BY <4>1, <1>7 DEF Order, Clash!Ordered, c
    <3>3. \E s \in 1 .. m - 1 : c[s] = list[i]
      BY <1>2, <1>8, <1>11, <2>1, <2>2, <2>3, <3>2, FirstBefore
    <3> QED
      BY <1>11, <3>1, <3>3 DEF Allowed
  <2>5. Order(t) = c
    BY <2>4 DEF Order, Clash!Ordered
  <2> QED
    BY <1>4, <1>6, <2>4, <2>5
<1> QED
  BY <1>9, <1>10, <1>11 DEF Unique

(* Going round a group from the node that was selected, or from the first if *)
(* that node is not eligible, the next candidate passes over nodes that are  *)
(* not eligible or have just failed only.                                    *)
THEOREM NextCandidateHolds == Spec => []NextCandidate
<1> DEFINE Inv == ClashInv /\ ClashTyped /\ Progress
<1>1. Init => Inv
  <2>1. Clash!ClashInit => Progress
    BY DEF Clash!ClashInit, Progress, ProgressOf, Clash!Resting
  <2> QED
    BY <2>1, ClashInitially, ClashTypedInitially DEF Init
<1>2. Inv /\ [Next]_vars => Inv'
  BY StepsOfParts, ClashKeepsInv, ClashKeepsTypes, ProgressKept
<1>3. Inv => NextCandidate
  BY ProgressIsNextCandidate
<1> QED
  BY <1>1, <1>2, <1>3, PTL DEF Spec
=============================================================================
