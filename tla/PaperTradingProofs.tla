-------------------------- MODULE PaperTradingProofs --------------------------
(***************************************************************************)
(* Theorems about PaperTrading and the arithmetic of Sizing, for any books *)
(* of any number of levels, and any wallets, fees and thresholds.          *)
(***************************************************************************)
EXTENDS PaperTrading, SumProofs

-----------------------------------------------------------------------------
(* Orders. *)

\* An order whose id is spent is refused, whatever the gateway's wallet.
LEMMA SpentIdIsRefused ==
    ASSUME NEW g, NEW b, NEW leg, NEW side, NEW qty, <<b, leg>> \in g.seen
    PROVE  ~Accepts(g, Order(b, leg, side, qty, ExitId(b, leg)))
BY DEF Accepts, Duplicate, Order, ExitId

-----------------------------------------------------------------------------
(* The walk of a book, by induction over its levels. *)

\* Arithmetic.
LEMMA TimesMonotone ==
    ASSUME NEW a \in Int, NEW b \in Int, NEW c \in Nat, a <= b
    PROVE  a * c <= b * c /\ c * a <= c * b
OBVIOUS

\* Products of naturals.
LEMMA TimesNat == \A a, b \in Nat : a * b \in Nat
OBVIOUS

\* What a quotient is: the most that fits.
LEMMA Divided ==
    ASSUME NEW m \in Nat, NEW d \in Nat \ {0}
    PROVE  /\ m \div d \in Nat
           /\ (m \div d) * d <= m
           /\ \A n \in Nat : n * d <= m => n <= m \div d
OBVIOUS

\* The levels of a side.
LEMMA LevelTypes ==
    ASSUME NEW levels \in Seq(Level)
    PROVE  /\ Len(levels) \in Nat /\ DOMAIN levels = 1 .. Len(levels)
           /\ \A i \in 1 .. Len(levels) :
                  /\ levels[i].price \in Nat \ {0} /\ levels[i].price \in Nat
                  /\ levels[i].depth \in Nat
<1>1. \A i \in 1 .. Len(levels) : levels[i] \in Level
  OBVIOUS
<1>2. Len(levels) \in Nat /\ DOMAIN levels = 1 .. Len(levels)
  OBVIOUS
<1> QED BY <1>1, <1>2 DEF Level

\* The depths of a side add up level by level.
LEMMA CumSteps ==
    ASSUME NEW levels \in Seq(Level)
    PROVE  /\ Cum(levels, 0) = 0
           /\ \A i \in 0 .. Len(levels) : Cum(levels, i) \in Nat
           /\ \A i \in 0 .. (Len(levels) - 1) :
                  Cum(levels, i + 1) = Cum(levels, i) + levels[i + 1].depth
           /\ Depth(levels) = Cum(levels, Len(levels))
<1> DEFINE n == Len(levels)
           d == Depths(levels)
<1>1. n \in Nat /\ DOMAIN levels = 1 .. n
  OBVIOUS
<1>2. \A i \in 1 .. n : d[i] = levels[i].depth /\ d[i] \in Nat /\ d[i] \in Int
  BY <1>1, LevelTypes DEF Depths
<1>3. \A i \in 0 .. n : IsFiniteSet(1 .. i) /\ (1 .. i) \subseteq 1 .. n
  BY <1>1, FS_Interval
<1>4. Cum(levels, 0) = 0
  <2>1. 1 .. 0 = {}
    OBVIOUS
  <2> QED BY <2>1, SumEmpty DEF Cum
<1>5. ASSUME NEW i \in 0 .. n PROVE Cum(levels, i) \in Nat
  <2>1. \A x \in 1 .. i : d[x] \in Nat
    BY <1>2, <1>3
  <2> HIDE DEF d
  <2>2. SumFunctionOnSet(d, 1 .. i) \in Nat
    BY <1>3, <2>1, SumNat
  <2> QED BY <2>2 DEF Cum, d
<1>6. ASSUME NEW i \in 0 .. (n - 1)
      PROVE  Cum(levels, i + 1) = Cum(levels, i) + levels[i + 1].depth
  <2>1. 1 .. (i + 1) = (1 .. i) \cup {i + 1} /\ i + 1 \notin 1 .. i /\ i \in 0 .. n
        /\ i + 1 \in 1 .. n
    BY <1>1
  <2>2. SumFunctionOnSet(d, (1 .. i) \cup {i + 1}) = d[i + 1] + SumFunctionOnSet(d, 1 .. i)
    <3>1. IsFiniteSet(1 .. i) /\ (\A x \in 1 .. i : d[x] \in Int) /\ d[i + 1] \in Int
      BY <1>2, <1>3, <2>1
    <3> HIDE DEF d
    <3> QED BY <2>1, <3>1, SumAdd
  <2>3. Cum(levels, i + 1) = levels[i + 1].depth + Cum(levels, i)
    BY <1>2, <2>1, <2>2 DEF Cum
  <2>4. Cum(levels, i) \in Nat /\ levels[i + 1].depth \in Nat
    BY <1>2, <1>5, <2>1
  <2> QED BY <2>3, <2>4
<1>7. Depth(levels) = Cum(levels, n)
  BY <1>1 DEF Depth, Cum, SumFunction, Depths
<1> QED BY <1>4, <1>5, <1>6, <1>7

\* They do not decrease.
LEMMA CumMonotone ==
    ASSUME NEW levels \in Seq(Level), NEW i \in 0 .. Len(levels), NEW j \in 0 .. Len(levels), i <= j
    PROVE  Cum(levels, i) <= Cum(levels, j)
<1> DEFINE n == Len(levels)
           Good == {k \in 0 .. n : \A m \in 0 .. k : Cum(levels, m) <= Cum(levels, k)}
<1>1. n \in Nat
  OBVIOUS
<1>2. 0 \in Good
  BY <1>1, CumSteps
<1>3. ASSUME NEW k \in Good, k < n PROVE k + 1 \in Good
  <2>1. k \in 0 .. n /\ k \in 0 .. (n - 1) /\ k + 1 \in 0 .. n /\ k + 1 \in 1 .. n
    BY <1>1, <1>3
  <2>2. levels[k + 1].depth \in Nat
    BY <2>1, LevelTypes
  <2>3. Cum(levels, k) <= Cum(levels, k + 1)
    BY <2>1, <2>2, CumSteps
  <2>4. ASSUME NEW m \in 0 .. (k + 1) PROVE Cum(levels, m) <= Cum(levels, k + 1)
    <3>1. m \in 0 .. k \/ m = k + 1
      BY <2>1
    <3>2. CASE m \in 0 .. k
      <4>1. Cum(levels, m) <= Cum(levels, k)
        BY <3>2
      <4>2. m \in 0 .. n
        BY <2>1, <3>2
      <4> QED BY <2>1, <2>3, <4>1, <4>2, CumSteps
    <3>3. CASE m = k + 1
      BY <2>1, <3>3, CumSteps
    <3> QED BY <3>1, <3>2, <3>3
  <2> QED BY <2>1, <2>4
<1>4. Good = 0 .. n
  <2> HIDE DEF Good
  <2>1. Good \in SUBSET (0 .. n)
    BY DEF Good
  <2> QED BY <1>1, <1>2, <1>3, <2>1, IntervalInduction
<1> QED BY <1>4

\* A quantity that the side can fill reaches one of its levels.
LEMMA ReachedLevel ==
    ASSUME NEW levels \in Seq(Level), NEW q \in Nat, 0 < q,
           NEW i \in 0 .. Len(levels), q <= Cum(levels, i)
    PROVE  \E k \in 1 .. i : Cum(levels, k - 1) < q /\ q <= Cum(levels, k)
<1> DEFINE n == Len(levels)
           Good == {m \in 0 .. n : q <= Cum(levels, m) =>
                       \E k \in 1 .. m : Cum(levels, k - 1) < q /\ q <= Cum(levels, k)}
<1>1. n \in Nat
  BY LevelTypes
<1>2. 0 \in Good
  BY <1>1, CumSteps
<1>3. ASSUME NEW m \in Good, m < n PROVE m + 1 \in Good
  <2>1. m \in 0 .. n /\ m + 1 \in 0 .. n /\ m + 1 - 1 = m /\ m + 1 \in 1 .. (m + 1)
        /\ (1 .. m) \subseteq 1 .. (m + 1)
    BY <1>1, <1>3
  <2>2. Cum(levels, m) \in Nat
    BY <2>1, CumSteps
  <2>3. CASE Cum(levels, m) < q
    BY <2>1, <2>3
  <2>4. CASE q <= Cum(levels, m)
    BY <2>1, <2>4
  <2> QED BY <2>2, <2>3, <2>4
<1>4. Good = 0 .. n
  <2> HIDE DEF Good
  <2>1. Good \in SUBSET (0 .. n)
    BY DEF Good
  <2> QED BY <1>1, <1>2, <1>3, <2>1, IntervalInduction
<1> QED BY <1>4

\* What a walk takes of a level.
LEMMA TakenTypes ==
    ASSUME NEW levels \in Seq(Level), NEW q \in Nat, NEW i \in 1 .. Len(levels)
    PROVE  /\ Taken(levels, i, q) \in Nat
           /\ Taken(levels, i, q) * levels[i].price \in Nat
           /\ q <= Cum(levels, i - 1) => Taken(levels, i, q) = 0
           /\ q >= Cum(levels, i) => Taken(levels, i, q) = levels[i].depth
           /\ Cum(levels, i - 1) < q /\ q <= Cum(levels, i) =>
                  Taken(levels, i, q) = q - Cum(levels, i - 1)
<1>1. /\ i - 1 \in 0 .. (Len(levels) - 1) /\ i - 1 \in 0 .. Len(levels) /\ i \in 0 .. Len(levels)
      /\ i - 1 + 1 = i
  BY LevelTypes
<1>2. levels[i].depth \in Nat /\ levels[i].price \in Nat
  BY LevelTypes
<1>3. Cum(levels, i - 1) \in Nat /\ Cum(levels, i) = Cum(levels, i - 1) + levels[i].depth
  BY <1>1, CumSteps
<1>4. Taken(levels, i, q) \in Nat
  BY <1>2, <1>3 DEF Taken, Least
<1>5. Taken(levels, i, q) * levels[i].price \in Nat
  BY <1>2, <1>4, TimesNat
<1> QED BY <1>2, <1>3, <1>4, <1>5 DEF Taken, Least

\* A walk takes the quantity, as far as the levels reach.
Takes(levels, q) == [i \in DOMAIN levels |-> Taken(levels, i, q)]

\* The quantity is the sum of what is taken at the levels.
LEMMA TakenTotal ==
    ASSUME NEW levels \in Seq(Level), NEW q \in Nat, q <= Depth(levels)
    PROVE  SumFunctionOnSet(Takes(levels, q), 1 .. Len(levels)) = q
<1> DEFINE n == Len(levels)
           t == Takes(levels, q)
           S(k) == SumFunctionOnSet(t, 1 .. k)
           Good == {k \in 0 .. n : S(k) = Least(q, Cum(levels, k))}
<1>1. n \in Nat /\ DOMAIN levels = 1 .. n
  BY LevelTypes
<1>2. \A k \in 1 .. n : t[k] = Taken(levels, k, q) /\ t[k] \in Nat /\ t[k] \in Int
  BY <1>1, TakenTypes DEF Takes
<1>3. 0 \in Good
  <2>1. 1 .. 0 = {} /\ 0 \in 0 .. n
    BY <1>1
  <2>2. S(0) = 0
    BY <2>1, SumEmpty
  <2>3. Cum(levels, 0) = 0
    BY CumSteps
  <2> HIDE DEF t
  <2> QED BY <2>1, <2>2, <2>3 DEF Least
<1>4. ASSUME NEW k \in Good, k < n PROVE k + 1 \in Good
  <2>1. /\ k \in 0 .. n /\ k \in 0 .. (n - 1) /\ k + 1 \in 0 .. n /\ k + 1 \in 1 .. n
        /\ 1 .. (k + 1) = (1 .. k) \cup {k + 1} /\ k + 1 \notin 1 .. k /\ (1 .. k) \subseteq 1 .. n
        /\ k + 1 - 1 = k
    BY <1>1, <1>4
  <2>2. S(k) = Least(q, Cum(levels, k))
    BY <1>4
  <2>3. S(k + 1) = t[k + 1] + S(k)
    <3>1. IsFiniteSet(1 .. k)
      BY <2>1, FS_Interval
    <3>2. (\A x \in 1 .. k : t[x] \in Int) /\ t[k + 1] \in Int
      BY <1>2, <2>1
    <3> HIDE DEF t
    <3>3. SumFunctionOnSet(t, (1 .. k) \cup {k + 1}) = t[k + 1] + SumFunctionOnSet(t, 1 .. k)
      BY <2>1, <3>1, <3>2, SumAdd
    <3> QED BY <2>1, <3>3
  <2>4. /\ Cum(levels, k) \in Nat /\ Cum(levels, k + 1) = Cum(levels, k) + levels[k + 1].depth
        /\ levels[k + 1].depth \in Nat
    BY <2>1, CumSteps, LevelTypes
  <2>5. t[k + 1] = IF q <= Cum(levels, k) THEN 0 ELSE Least(levels[k + 1].depth, q - Cum(levels, k))
    BY <1>2, <2>1 DEF Taken
  <2>6. S(k + 1) = Least(q, Cum(levels, k + 1))
    <3> HIDE DEF S, t
    <3> QED BY <2>2, <2>3, <2>4, <2>5 DEF Least
  <2> QED BY <2>1, <2>6
<1>5. Good = 0 .. n
  <2> HIDE DEF Good
  <2>1. Good \in SUBSET (0 .. n)
    BY DEF Good
  <2> QED BY <1>1, <1>3, <1>4, <2>1, IntervalInduction
<1>6. S(n) = Least(q, Cum(levels, n))
  BY <1>1, <1>5
<1>7. Cum(levels, n) = Depth(levels) /\ Cum(levels, n) \in Nat
  BY <1>1, CumSteps
<1> HIDE DEF S
<1>8. S(n) = q
  BY <1>6, <1>7 DEF Least
<1> QED BY <1>8 DEF S

\* What a walk spends is the sum of what it spends at the levels.
Spends(levels, q) == [i \in DOMAIN levels |-> Taken(levels, i, q) * levels[i].price]

\* The same of what is paid.
LEMMA SpentTotal ==
    ASSUME NEW levels \in Seq(Level), NEW q \in Nat
    PROVE  /\ Spent(levels, q) = SumFunctionOnSet(Spends(levels, q), 1 .. Len(levels))
           /\ Spent(levels, q) \in Nat
           /\ IsFiniteSet(1 .. Len(levels))
           /\ \A i \in 1 .. Len(levels) :
                  /\ Spends(levels, q)[i] = Takes(levels, q)[i] * levels[i].price
                  /\ Takes(levels, q)[i] = Taken(levels, i, q)
                  /\ Takes(levels, q)[i] \in Nat /\ Spends(levels, q)[i] \in Nat
<1>1. Len(levels) \in Nat /\ DOMAIN levels = 1 .. Len(levels)
  BY LevelTypes
<1>2. IsFiniteSet(1 .. Len(levels))
  BY <1>1, FS_Interval
<1>3. ASSUME NEW i \in 1 .. Len(levels)
      PROVE  /\ Spends(levels, q)[i] = Takes(levels, q)[i] * levels[i].price
             /\ Takes(levels, q)[i] = Taken(levels, i, q)
             /\ Takes(levels, q)[i] \in Nat /\ Spends(levels, q)[i] \in Nat
  BY <1>1, TakenTypes DEF Spends, Takes
<1>4. Spent(levels, q) = SumFunctionOnSet(Spends(levels, q), 1 .. Len(levels))
  BY <1>1 DEF Spent, SumFunction, Spends
<1>5. SumFunctionOnSet(Spends(levels, q), 1 .. Len(levels)) \in Nat
  BY <1>2, <1>3, SumNat
<1> QED BY <1>2, <1>3, <1>4, <1>5

\* Bought up to a level, a quantity costs at most the price of that level each; sold
\* down to a level, it brings at least that.
LEMMA SpentUpTo ==
    ASSUME NEW levels \in Seq(Level), NEW q \in Nat,
           NEW i \in 1 .. Len(levels), q <= Cum(levels, i)
    PROVE  /\ Rising(levels) => Spent(levels, q) <= levels[i].price * q
           /\ Falling(levels) => Spent(levels, q) >= levels[i].price * q
<1> DEFINE n == Len(levels)
           t == Takes(levels, q)
           s == Spends(levels, q)
           p == levels[i].price
<1>1. n \in Nat /\ DOMAIN levels = 1 .. n /\ p \in Nat
  BY LevelTypes
<1>2. q <= Depth(levels)
  <2>1. i \in 0 .. n /\ n \in 0 .. n /\ i <= n
    BY <1>1
  <2>2. Cum(levels, i) <= Cum(levels, n) /\ Cum(levels, i) \in Nat /\ Cum(levels, n) \in Nat
    BY <2>1, CumMonotone, CumSteps
  <2> QED BY <2>2, CumSteps
<1>3. ASSUME NEW j \in 1 .. n
      PROVE  (Rising(levels) => s[j] <= p * t[j]) /\ (Falling(levels) => s[j] >= p * t[j])
  <2>1. /\ s[j] = t[j] * levels[j].price /\ t[j] = Taken(levels, j, q) /\ t[j] \in Nat
        /\ levels[j].price \in Nat
    BY SpentTotal, LevelTypes
  <2>2. t[j] * p = p * t[j] /\ t[j] * p \in Nat /\ t[j] * levels[j].price \in Nat
    BY <1>1, <2>1, TimesNat
  <2>3. CASE j <= i
    <3>1. /\ Rising(levels) => levels[j].price <= p
          /\ Falling(levels) => p <= levels[j].price
      BY <1>1, <2>3 DEF Rising, Falling
    <3>2. /\ Rising(levels) => t[j] * levels[j].price <= t[j] * p
          /\ Falling(levels) => t[j] * p <= t[j] * levels[j].price
      BY <1>1, <2>1, <3>1, TimesMonotone
    <3> HIDE DEF s, t, p
    <3> QED BY <2>1, <2>2, <3>2
  <2>4. CASE j > i
    <3>1. i \in 0 .. n /\ j - 1 \in 0 .. n /\ i <= j - 1
      BY <1>1, <2>4
    <3>2. Cum(levels, i) <= Cum(levels, j - 1) /\ Cum(levels, i) \in Nat /\ Cum(levels, j - 1) \in Nat
      BY <3>1, CumMonotone, CumSteps
    <3>3. t[j] = 0
      BY <2>1, <3>2, TakenTypes
    <3> QED BY <1>1, <2>1, <3>3
  <2> QED BY <1>1, <2>3, <2>4
<1>4. ASSUME NEW j \in 1 .. n PROVE s[j] \in Nat /\ t[j] \in Nat
  BY SpentTotal
<1>5. IsFiniteSet(1 .. n) /\ Spent(levels, q) = SumFunctionOnSet(s, 1 .. n)
  BY SpentTotal
<1>6. SumFunctionOnSet(t, 1 .. n) = q
  BY <1>2, TakenTotal
<1> HIDE DEF s, t, p, n
<1>7. p \in Int /\ \A j \in 1 .. n : s[j] \in Int /\ t[j] \in Int
  BY <1>1, <1>4
<1>8. ASSUME Rising(levels)
      PROVE  SumFunctionOnSet(s, 1 .. n) <= p * SumFunctionOnSet(t, 1 .. n)
  <2>1. \A j \in 1 .. n : s[j] <= p * t[j]
    BY <1>3, <1>8
  <2> QED BY <1>5, <1>7, <2>1, SumScaled
<1>9. ASSUME Falling(levels)
      PROVE  SumFunctionOnSet(s, 1 .. n) >= p * SumFunctionOnSet(t, 1 .. n)
  <2>1. \A j \in 1 .. n : s[j] >= p * t[j]
    BY <1>3, <1>9
  <2> QED BY <1>5, <1>7, <2>1, SumScaledBelow
<1> QED BY <1>5, <1>6, <1>8, <1>9 DEF p

\* What a longer walk takes beyond a shorter one lies at the level the shorter one
\* reaches and after it.
LEMMA TakenBeyond ==
    ASSUME NEW levels \in Seq(Level), NEW q \in Nat, NEW z \in Nat, q <= z,
           NEW k \in 1 .. Len(levels), Cum(levels, k - 1) < q, q <= Cum(levels, k),
           NEW j \in 1 .. Len(levels)
    PROVE  /\ Taken(levels, j, q) <= Taken(levels, j, z)
           /\ j < k => Taken(levels, j, q) = Taken(levels, j, z)
<1> DEFINE n == Len(levels)
           d == levels[j].depth
<1>1. /\ n \in Nat /\ j \in 0 .. n /\ j - 1 \in 0 .. n /\ k - 1 \in 0 .. n /\ k \in 0 .. n
      /\ j - 1 \in 0 .. (n - 1) /\ j - 1 + 1 = j
  BY LevelTypes
<1>2. /\ Cum(levels, j) \in Nat /\ Cum(levels, j - 1) \in Nat /\ Cum(levels, k - 1) \in Nat
      /\ d \in Nat /\ Cum(levels, j) = Cum(levels, j - 1) + d
  BY <1>1, CumSteps, LevelTypes
<1>3. Taken(levels, j, q) <= Taken(levels, j, z)
  <2> HIDE DEF d
  <2>1. /\ Taken(levels, j, q) = IF q <= Cum(levels, j - 1) THEN 0 ELSE Least(d, q - Cum(levels, j - 1))
        /\ Taken(levels, j, z) = IF z <= Cum(levels, j - 1) THEN 0 ELSE Least(d, z - Cum(levels, j - 1))
    BY DEF Taken, d
  <2> QED BY <1>2, <2>1 DEF Least
<1>4. ASSUME j < k PROVE Taken(levels, j, q) = Taken(levels, j, z)
  <2>1. Cum(levels, j) <= Cum(levels, k - 1)
    <3>1. j <= k - 1
      BY <1>1, <1>4
    <3> QED BY <1>1, <3>1, CumMonotone
  <2>2. q >= Cum(levels, j) /\ z >= Cum(levels, j)
    BY <1>2, <2>1
  <2> QED BY <2>2, TakenTypes
<1> QED BY <1>3, <1>4

\* The rest of a longer walk costs at least, or brings at most, the price of the level
\* that the shorter one reaches.
LEMMA SpentBeyond ==
    ASSUME NEW levels \in Seq(Level), NEW q \in Nat, NEW z \in Nat, q <= z, z <= Depth(levels),
           NEW k \in 1 .. Len(levels), Cum(levels, k - 1) < q, q <= Cum(levels, k)
    PROVE  /\ Rising(levels) => Spent(levels, z) - Spent(levels, q) >= levels[k].price * (z - q)
           /\ Falling(levels) => Spent(levels, z) - Spent(levels, q) <= levels[k].price * (z - q)
<1> DEFINE n == Len(levels)
           p == levels[k].price
           more == [j \in 1 .. n |-> Taken(levels, j, z) - Taken(levels, j, q)]
           cost == [j \in 1 .. n |-> more[j] * levels[j].price]
<1>1. n \in Nat /\ DOMAIN levels = 1 .. n /\ p \in Nat /\ p \in Int /\ IsFiniteSet(1 .. n)
  <2>1. n \in Nat /\ DOMAIN levels = 1 .. n /\ p \in Nat
    BY LevelTypes
  <2>2. IsFiniteSet(1 .. n)
    BY <2>1, FS_Interval
  <2> QED BY <2>1, <2>2
<1>2. ASSUME NEW j \in 1 .. n
      PROVE  /\ more[j] \in Nat /\ more[j] \in Int /\ cost[j] \in Int /\ levels[j].price \in Nat
             /\ cost[j] = more[j] * levels[j].price
             /\ Takes(levels, q)[j] \in Int
             /\ Takes(levels, z)[j] = Takes(levels, q)[j] + more[j]
             /\ Spends(levels, q)[j] \in Int
             /\ Spends(levels, z)[j] = Spends(levels, q)[j] + cost[j]
             /\ j < k => more[j] = 0
  <2> DEFINE a == Taken(levels, j, q)
             b == Taken(levels, j, z)
             c == levels[j].price
  <2>1. a \in Nat /\ b \in Nat /\ a <= b /\ (j < k => a = b) /\ c \in Nat
    <3>1. a \in Nat /\ b \in Nat
      BY TakenTypes
    <3>2. a <= b /\ (j < k => a = b)
      BY TakenBeyond
    <3> QED BY <3>1, <3>2, LevelTypes
  <2>2. /\ Takes(levels, q)[j] = a /\ Takes(levels, z)[j] = b
        /\ Spends(levels, q)[j] = a * c /\ Spends(levels, z)[j] = b * c
    <3>1. Takes(levels, q)[j] = a /\ Spends(levels, q)[j] = Takes(levels, q)[j] * c
      BY SpentTotal
    <3>2. Takes(levels, z)[j] = b /\ Spends(levels, z)[j] = Takes(levels, z)[j] * c
      BY SpentTotal
    <3> HIDE DEF a, b, c
    <3> QED BY <3>1, <3>2
  <2>3. more[j] = b - a /\ cost[j] = more[j] * c
    OBVIOUS
  <2> HIDE DEF a, b, c, more, cost
  <2>4. b - a \in Nat /\ a + (b - a) = b
    BY <2>1
  <2>5. b * c = a * c + (b - a) * c /\ a * c \in Nat /\ (b - a) * c \in Nat
    BY <2>1, <2>4, TimesNat
  <2> QED BY <2>1, <2>2, <2>3, <2>4, <2>5 DEF c
<1>3. q <= Depth(levels)
  <2>1. Depth(levels) \in Nat
    BY <1>1, CumSteps
  <2> QED BY <2>1
<1>4. SumFunctionOnSet(Takes(levels, q), 1 .. n) = q /\ SumFunctionOnSet(Takes(levels, z), 1 .. n) = z
  BY <1>3, TakenTotal
<1>5. /\ Spent(levels, q) = SumFunctionOnSet(Spends(levels, q), 1 .. n)
      /\ Spent(levels, z) = SumFunctionOnSet(Spends(levels, z), 1 .. n)
  BY SpentTotal
<1>6. ASSUME NEW j \in 1 .. n
      PROVE  /\ Rising(levels) => cost[j] >= p * more[j]
             /\ Falling(levels) => cost[j] <= p * more[j]
  <2>1. CASE j < k
    BY <1>1, <1>2, <2>1
  <2>2. CASE k <= j
    <3>1. /\ Rising(levels) => p <= levels[j].price
          /\ Falling(levels) => levels[j].price <= p
      BY <1>1, <2>2 DEF Rising, Falling
    <3>2. /\ Rising(levels) => more[j] * p <= more[j] * levels[j].price
          /\ Falling(levels) => more[j] * levels[j].price <= more[j] * p
      <4>1. p \in Int /\ levels[j].price \in Int /\ more[j] \in Nat
        BY <1>1, <1>2
      <4> HIDE DEF p, more, cost
      <4> QED BY <3>1, <4>1, TimesMonotone
    <3>3. more[j] * p = p * more[j] /\ more[j] * p \in Nat /\ more[j] * levels[j].price \in Nat
      <4>1. p \in Nat /\ levels[j].price \in Nat /\ more[j] \in Nat
        BY <1>1, <1>2
      <4> HIDE DEF p, more, cost
      <4>2. more[j] * p \in Nat /\ more[j] * levels[j].price \in Nat
        BY <4>1, TimesNat
      <4> QED BY <4>1, <4>2
    <3>4. cost[j] = more[j] * levels[j].price
      BY <1>2
    <3> HIDE DEF p, more, cost
    <3> QED BY <3>2, <3>3, <3>4
  <2> QED BY <1>1, <2>1, <2>2
<1> DEFINE M == SumFunctionOnSet(more, 1 .. n)
           C == SumFunctionOnSet(cost, 1 .. n)
<1> HIDE DEF more, cost, p, n
<1>7. z = q + M
  <2>1. \A j \in 1 .. n : /\ Takes(levels, q)[j] \in Int /\ more[j] \in Int
                          /\ Takes(levels, z)[j] = Takes(levels, q)[j] + more[j]
    BY <1>2
  <2>2. SumFunctionOnSet(Takes(levels, z), 1 .. n) = SumFunctionOnSet(Takes(levels, q), 1 .. n) + M
    BY <1>1, <2>1, SumPlus
  <2> QED BY <1>4, <2>2
<1>8. Spent(levels, z) = Spent(levels, q) + C
  <2>1. \A j \in 1 .. n : /\ Spends(levels, q)[j] \in Int /\ cost[j] \in Int
                          /\ Spends(levels, z)[j] = Spends(levels, q)[j] + cost[j]
    BY <1>2
  <2>2. SumFunctionOnSet(Spends(levels, z), 1 .. n) = SumFunctionOnSet(Spends(levels, q), 1 .. n) + C
    BY <1>1, <2>1, SumPlus
  <2> QED BY <1>5, <2>2
<1>9. (\A j \in 1 .. n : more[j] \in Int /\ cost[j] \in Int)
  BY <1>2
<1>10. M \in Int /\ C \in Int /\ Spent(levels, q) \in Nat
  BY <1>1, <1>9, SumInt, SpentTotal
<1>11. ASSUME Rising(levels) PROVE C >= p * M
  <2>1. \A j \in 1 .. n : cost[j] >= p * more[j]
    BY <1>6, <1>11
  <2> QED BY <1>1, <1>9, <2>1, SumScaledBelow
<1>12. ASSUME Falling(levels) PROVE C <= p * M
  <2>1. \A j \in 1 .. n : cost[j] <= p * more[j]
    BY <1>6, <1>12
  <2> QED BY <1>1, <1>9, <2>1, SumScaled
<1>13. z - q = M /\ Spent(levels, z) - Spent(levels, q) = C
  BY <1>7, <1>8, <1>10
<1> HIDE DEF M, C
<1> QED BY <1>11, <1>12, <1>13 DEF p

\* The arithmetic of averages: what lies beyond a point above the average up to there
\* raises it, and what lies below lowers it.
LEMMA Averages ==
    ASSUME NEW a \in Nat, NEW b \in Nat, NEW p \in Nat, NEW q \in Nat, NEW z \in Nat, q <= z
    PROVE  /\ a <= p * q /\ b - a >= p * (z - q) => a * z <= b * q
           /\ a >= p * q /\ b - a <= p * (z - q) => b * q <= a * z
<1> DEFINE d == z - q
<1>1. d \in Nat /\ z = q + d
  OBVIOUS
<1>2. (p * q) * d = (p * d) * q /\ p * q \in Nat /\ p * d \in Nat /\ (p * q) * d \in Nat
  BY <1>1, TimesNat
<1>3. a * z = a * q + a * d /\ a * q \in Nat /\ a * d \in Nat
  BY <1>1, TimesNat
<1>4. b * q = a * q + (b - a) * q /\ (b - a) * q \in Int
  OBVIOUS
<1>5. a <= p * q => a * d <= (p * q) * d
  BY <1>1, <1>2, TimesMonotone
<1>6. a >= p * q => (p * q) * d <= a * d
  BY <1>1, <1>2, TimesMonotone
<1>7. b - a >= p * d => (p * d) * q <= (b - a) * q
  BY <1>1, <1>2, TimesMonotone
<1>8. b - a <= p * d => (b - a) * q <= (p * d) * q
  BY <1>1, <1>2, TimesMonotone
<1> DEFINE pqd == (p * q) * d
           ad == a * d
           baq == (b - a) * q
           aq == a * q
<1>9. ASSUME a <= p * q, b - a >= p * d PROVE a * z <= b * q
  <2>1. ad <= pqd /\ pqd <= baq
    BY <1>2, <1>5, <1>7, <1>9
  <2>2. ad \in Int /\ pqd \in Int /\ baq \in Int /\ aq \in Int
    BY <1>2, <1>3, <1>4
  <2>3. a * z = aq + ad /\ b * q = aq + baq
    BY <1>3, <1>4
  <2> HIDE DEF ad, pqd, baq, aq
  <2> QED BY <2>1, <2>2, <2>3
<1>10. ASSUME a >= p * q, b - a <= p * d PROVE b * q <= a * z
  <2>1. pqd <= ad /\ baq <= pqd
    BY <1>2, <1>6, <1>8, <1>10
  <2>2. ad \in Int /\ pqd \in Int /\ baq \in Int /\ aq \in Int
    BY <1>2, <1>3, <1>4
  <2>3. a * z = aq + ad /\ b * q = aq + baq
    BY <1>3, <1>4
  <2> HIDE DEF ad, pqd, baq, aq
  <2> QED BY <2>1, <2>2, <2>3
<1> QED BY <1>9, <1>10

\* The average price gets no better with the quantity.
LEMMA AveragePrice ==
    ASSUME NEW levels \in Seq(Level), NEW q \in Nat, NEW z \in Nat,
           0 < q, q <= z, z <= Depth(levels)
    PROVE  /\ Rising(levels) => Spent(levels, q) * z <= Spent(levels, z) * q
           /\ Falling(levels) => Spent(levels, z) * q <= Spent(levels, q) * z
<1>1. Len(levels) \in 0 .. Len(levels) /\ Depth(levels) \in Nat
      /\ Depth(levels) = Cum(levels, Len(levels))
  BY LevelTypes, CumSteps
<1>2. PICK k \in 1 .. Len(levels) : Cum(levels, k - 1) < q /\ q <= Cum(levels, k)
  <2>1. q <= Cum(levels, Len(levels))
    BY <1>1
  <2> QED BY <1>1, <2>1, ReachedLevel
<1>3. /\ levels[k].price \in Nat /\ Spent(levels, q) \in Nat /\ Spent(levels, z) \in Nat
  BY LevelTypes, SpentTotal
<1>4. /\ Rising(levels) => Spent(levels, q) <= levels[k].price * q
      /\ Falling(levels) => Spent(levels, q) >= levels[k].price * q
  BY <1>2, SpentUpTo
<1>5. /\ Rising(levels) => Spent(levels, z) - Spent(levels, q) >= levels[k].price * (z - q)
      /\ Falling(levels) => Spent(levels, z) - Spent(levels, q) <= levels[k].price * (z - q)
  BY <1>2, SpentBeyond
<1> QED BY <1>3, <1>4, <1>5, Averages

-----------------------------------------------------------------------------
(* The size of an entry. *)

\* Products of positive numbers, and factors that cancel.
LEMMA TimesPositive == \A a, b \in Nat \ {0} : a * b \in Nat \ {0}
OBVIOUS

\* A positive factor cancels.
LEMMA Cancels ==
    ASSUME NEW a \in Nat, NEW b \in Nat, NEW c \in Nat \ {0}, a * c <= b * c
    PROVE  a <= b
<1> SUFFICES ASSUME b < a PROVE FALSE
  OBVIOUS
<1>1. b + 1 <= a /\ b + 1 \in Int
  OBVIOUS
<1>2. (b + 1) * c <= a * c
  BY <1>1, TimesMonotone
<1>3. (b + 1) * c = b * c + c
  OBVIOUS
<1> QED BY <1>2, <1>3

\* The unit of the wallets over that of the rates and the prices.
Cube == One * One * One

\* The unit is positive.
LEMMA CubeTypes == /\ One \in Nat \ {0} /\ Cube \in Nat \ {0}
                   /\ \A p \in Nat \ {0} : Cube * p \in Nat \ {0}
<1>1. One \in Nat \ {0}
  BY SizingAssumption
<1>2. Cube \in Nat \ {0}
  BY <1>1, TimesPositive DEF Cube
<1> QED BY <1>1, <1>2, TimesPositive

\* What a wallet funds at a price is the largest quantity that the safe part of it pays.
LEMMA FundableIs ==
    ASSUME NEW money \in Nat, NEW price \in Nat \ {0}
    PROVE  /\ Fundable(money, price) \in Nat
           /\ Fundable(money, price) * (Cube * price) <= money * Safety
           /\ \A n \in Nat : n * (Cube * price) <= money * Safety => n <= Fundable(money, price)
<1>1. Safety \in Nat
  BY SizingAssumption
<1>2. money * Safety \in Nat /\ Cube * price \in Nat \ {0}
  BY <1>1, TimesNat, CubeTypes
<1>3. Fundable(money, price) = (money * Safety) \div (Cube * price)
  BY DEF Fundable, Cube
<1> QED BY <1>2, <1>3, Divided

\* It does not rise with the price.
LEMMA FundableFalls ==
    ASSUME NEW money \in Nat, NEW a \in Nat \ {0}, NEW b \in Nat \ {0}, a <= b
    PROVE  Fundable(money, b) <= Fundable(money, a)
<1> DEFINE f == Fundable(money, b)
<1>1. f \in Nat /\ f * (Cube * b) <= money * Safety
  BY FundableIs
<1>2. Cube * a <= Cube * b /\ Cube * a \in Nat /\ Cube * b \in Nat
  BY CubeTypes, TimesMonotone
<1>3. f * (Cube * a) <= f * (Cube * b)
  BY <1>1, <1>2, TimesMonotone
<1>4. f * (Cube * a) \in Nat /\ f * (Cube * b) \in Nat /\ money * Safety \in Nat
  BY <1>1, <1>2, TimesNat, SizingAssumption
<1>5. f * (Cube * a) <= money * Safety
  BY <1>1, <1>3, <1>4
<1> HIDE DEF f
<1> QED BY <1>1, <1>5, FundableIs DEF f

\* What is feasible at a level.
LEMMA FeasibleIs ==
    ASSUME NEW asks \in Seq(Level), NEW money \in Nat, NEW i \in 1 .. Len(asks)
    PROVE  /\ Feasible(asks, money, i) \in Nat
           /\ Feasible(asks, money, i) <= Cum(asks, i)
           /\ Feasible(asks, money, i) <= Fundable(money, asks[i].price)
           /\ \A n \in Int : n <= Cum(asks, i) /\ n <= Fundable(money, asks[i].price)
                               => n <= Feasible(asks, money, i)
           /\ Cum(asks, i) \in Nat /\ Cum(asks, i) <= Depth(asks)
<1>1. Len(asks) \in Nat /\ asks[i].price \in Nat \ {0}
  BY LevelTypes
<1>2. i \in 0 .. Len(asks) /\ Len(asks) \in 0 .. Len(asks) /\ i <= Len(asks)
  BY <1>1
<1>3. Cum(asks, i) \in Nat /\ Depth(asks) = Cum(asks, Len(asks))
  BY <1>2, CumSteps
<1>4. Cum(asks, i) <= Cum(asks, Len(asks))
  BY <1>2, CumMonotone
<1>5. Fundable(money, asks[i].price) \in Nat
  BY <1>1, FundableIs
<1> QED BY <1>3, <1>4, <1>5 DEF Feasible, Least

\* The argmax: no level makes more feasible, and some level makes as much.
LEMMA SpotBindingIs ==
    ASSUME NEW asks \in Seq(Level), NEW money \in Nat
    PROVE  /\ SpotBinding(asks, money) \in Nat
           /\ SpotBinding(asks, money) <= Depth(asks)
           /\ \/ SpotBinding(asks, money) = 0
              \/ \E i \in 1 .. Len(asks) : SpotBinding(asks, money) = Feasible(asks, money, i)
           /\ \A i \in 1 .. Len(asks) : Feasible(asks, money, i) <= SpotBinding(asks, money)
<1> DEFINE n == Len(asks)
           feasible == {Feasible(asks, money, i) : i \in 1 .. n}
           S == feasible \cup {0}
<1>1. n \in Nat /\ DOMAIN asks = 1 .. n
  BY LevelTypes
<1>2. IsFiniteSet(S)
  <2>1. Depth(asks) \in Nat
    BY <1>1, CumSteps
  <2>2. IsFiniteSet(0 .. Depth(asks))
    BY <2>1, FS_Interval
  <2>3. ASSUME NEW i \in 1 .. n PROVE Feasible(asks, money, i) \in 0 .. Depth(asks)
    BY <2>1, FeasibleIs
  <2>4. S \subseteq 0 .. Depth(asks)
    BY <2>1, <2>3
  <2> QED BY <2>2, <2>4, FS_Subset
<1>3. S \subseteq Int /\ S # {}
  <2>1. \A i \in 1 .. n : Feasible(asks, money, i) \in Nat
    BY FeasibleIs
  <2> QED BY <2>1
<1>4. SpotBinding(asks, money) = Max(S)
  BY <1>1 DEF SpotBinding
<1>5. Max(S) \in S /\ \A x \in S : x <= Max(S)
  <2> HIDE DEF S
  <2> QED BY <1>2, <1>3, MaxIsLargest
<1>6. \A i \in 1 .. n : Feasible(asks, money, i) <= SpotBinding(asks, money)
  BY <1>4, <1>5
<1>7. SpotBinding(asks, money) = 0
      \/ \E i \in 1 .. n : SpotBinding(asks, money) = Feasible(asks, money, i)
  BY <1>4, <1>5
<1>8. \A i \in 1 .. n : /\ Feasible(asks, money, i) \in Nat
                        /\ Feasible(asks, money, i) <= Depth(asks)
  <2>1. ASSUME NEW i \in 1 .. n
        PROVE  Feasible(asks, money, i) \in Nat /\ Feasible(asks, money, i) <= Depth(asks)
    <3>1. Depth(asks) \in Nat
      BY <1>1, CumSteps
    <3> QED BY <3>1, FeasibleIs
  <2> QED BY <2>1
<1>9. Depth(asks) \in Nat
  BY <1>1, CumSteps
<1> HIDE DEF S, feasible
<1> QED BY <1>6, <1>7, <1>8, <1>9

\* The floor to the lot never adds to the size.
LEMMA FloorToLotDown ==
    ASSUME NEW raw \in Nat
    PROVE  FloorToLot(raw) \in Nat /\ FloorToLot(raw) <= raw
<1> DEFINE k == (raw * SubNum) \div (SubDen * Lot)
<1>1. SubNum \in Nat \ {0} /\ SubDen \in Nat \ {0} /\ Lot \in Nat \ {0} /\ SubNum <= SubDen
  BY SizingAssumption
<1>2. raw * SubNum \in Nat /\ SubDen * Lot \in Nat \ {0} /\ raw * SubDen \in Nat
  BY <1>1, TimesNat, TimesPositive
<1>3. k \in Nat /\ k * (SubDen * Lot) <= raw * SubNum
  BY <1>2, Divided
<1>4. raw * SubNum <= raw * SubDen
  BY <1>1, TimesMonotone
<1> HIDE DEF k
<1>5. k * (SubDen * Lot) = (k * Lot) * SubDen /\ k * Lot \in Nat /\ (k * Lot) * SubDen \in Nat
  BY <1>1, <1>3, TimesNat
<1>6. (k * Lot) * SubDen <= raw * SubDen
  BY <1>2, <1>3, <1>4, <1>5
<1>7. k * Lot <= raw
  BY <1>1, <1>5, <1>6, Cancels
<1> QED BY <1>5, <1>7 DEF FloorToLot, k

\* The quantities that the book fills and the wallet funds at the price of the last level
\* they reach.
Fits(asks, money) ==
    {q \in 1 .. Depth(asks) :
       \E i \in DOMAIN asks :
           (Cum(asks, i - 1) < q /\ q <= Cum(asks, i)) /\ q <= Fundable(money, asks[i].price)}

\* The argmax over the levels is the largest of them.
LEMMA SpotBindingIsLargest ==
    ASSUME NEW asks \in Seq(Level), Rising(asks), NEW money \in Nat
    PROVE  SpotBinding(asks, money) = Max(Fits(asks, money) \cup {0})
<1> DEFINE B == SpotBinding(asks, money)
           S == Fits(asks, money) \cup {0}
           n == Len(asks)
<1>1. n \in Nat /\ DOMAIN asks = 1 .. n /\ Depth(asks) \in Nat
  BY LevelTypes, CumSteps
<1>2. B \in Nat /\ B <= Depth(asks) /\ \A i \in 1 .. n : Feasible(asks, money, i) <= B
  BY SpotBindingIs
<1>3. ASSUME NEW q \in Fits(asks, money) PROVE q <= B
  <2>1. q \in 1 .. Depth(asks)
    BY DEF Fits
  <2>2. PICK i \in 1 .. n : q <= Cum(asks, i) /\ q <= Fundable(money, asks[i].price)
    BY <1>1 DEF Fits
  <2>3. q <= Feasible(asks, money, i) /\ Feasible(asks, money, i) \in Nat
    BY <2>1, <2>2, FeasibleIs
  <2>4. Feasible(asks, money, i) <= B
    BY <1>2
  <2> HIDE DEF B
  <2> QED BY <1>2, <2>1, <2>3, <2>4
<1>4. ASSUME B # 0 PROVE B \in Fits(asks, money)
  <2>1. PICK i \in 1 .. n : B = Feasible(asks, money, i)
    BY <1>4, SpotBindingIs
  <2>2. B <= Cum(asks, i) /\ B <= Fundable(money, asks[i].price)
    BY <2>1, FeasibleIs
  <2>3. 0 < B /\ i \in 0 .. n
    BY <1>1, <1>2, <1>4
  <2> HIDE DEF B
  <2>4. PICK k \in 1 .. i : Cum(asks, k - 1) < B /\ B <= Cum(asks, k)
    BY <1>2, <2>2, <2>3, ReachedLevel
  <2>5. k \in 1 .. n /\ asks[k].price <= asks[i].price
    BY <1>1 DEF Rising
  <2>6. asks[k].price \in Nat \ {0} /\ asks[i].price \in Nat \ {0}
    BY <2>5, LevelTypes
  <2>7. Fundable(money, asks[i].price) <= Fundable(money, asks[k].price)
    BY <2>5, <2>6, FundableFalls
  <2>8. Fundable(money, asks[i].price) \in Nat /\ Fundable(money, asks[k].price) \in Nat
    BY <2>6, FundableIs
  <2>9. B <= Fundable(money, asks[k].price)
    BY <1>2, <2>2, <2>7, <2>8
  <2>10. B \in 1 .. Depth(asks)
    BY <1>1, <1>2, <2>3
  <2> QED BY <1>1, <2>4, <2>5, <2>9, <2>10 DEF Fits
<1>5. IsFiniteSet(S) /\ S \subseteq Int
  <2>1. IsFiniteSet(0 .. Depth(asks))
    BY <1>1, FS_Interval
  <2>2. S \subseteq 0 .. Depth(asks)
    BY <1>1 DEF Fits
  <2>3. S \subseteq Int
    BY <1>1, <2>2
  <2>4. IsFiniteSet(S)
    BY <2>1, <2>2, FS_Subset
  <2> QED BY <2>3, <2>4
<1>6. Max(S) \in S /\ \A x \in S : x <= Max(S)
  <2>1. S # {}
    OBVIOUS
  <2> HIDE DEF S
  <2> QED BY <1>5, <2>1, MaxIsLargest
<1>7. B \in S
  BY <1>4
<1>8. Max(S) <= B
  BY <1>2, <1>3, <1>6
<1>9. Max(S) \in Int /\ B <= Max(S)
  BY <1>5, <1>6, <1>7
<1> HIDE DEF S, B
<1> QED BY <1>2, <1>8, <1>9 DEF S, B

\* The prices at which a book is walked and the wallets are divided.
LEMMA BookTypes ==
    ASSUME NEW book, IsBook(book)
    PROVE  /\ book.asks \in Seq(Level) /\ book.bids \in Seq(Level) /\ book.mid \in Nat \ {0}
           /\ Rising(book.asks) /\ Falling(book.bids)
           /\ Depth(book.asks) \in Nat /\ Depth(book.bids) \in Nat
<1>1. book.asks \in Seq(Level) /\ book.bids \in Seq(Level) /\ book.mid \in Nat \ {0}
  BY DEF IsBook
<1>2. Depth(book.asks) \in Nat
  BY <1>1, LevelTypes, CumSteps
<1>3. Depth(book.bids) \in Nat
  BY <1>1, LevelTypes, CumSteps
<1> QED BY <1>1, <1>2, <1>3 DEF IsBook

\* The size of an entry is within both bindings, and these are within the books.
LEMMA SizedWithin ==
    ASSUME NEW spot, IsBook(spot), NEW perp, IsBook(perp),
           NEW spotMoney \in Nat, NEW perpMoney \in Nat
    PROVE  LET z == SizeEntry(spot, perp, spotMoney, perpMoney)
           IN /\ z.qty \in Nat /\ z.spot \in Nat /\ z.perp \in Nat
              /\ z.qty <= z.spot /\ z.spot <= Depth(spot.asks)
              /\ z.qty <= z.perp /\ z.perp <= Depth(perp.bids)
              /\ z.spot = SpotBinding(spot.asks, spotMoney)
<1> DEFINE z == SizeEntry(spot, perp, spotMoney, perpMoney)
           s == SpotBinding(spot.asks, spotMoney)
           p == PerpBinding(perp.bids, perp.mid, perpMoney)
           cap == OperatorCap(spotMoney + perpMoney, spot.mid)
           raw == Least(Least(s, p), cap)
<1>1. s \in Nat /\ s <= Depth(spot.asks)
  BY BookTypes, SpotBindingIs
<1>2. p \in Nat /\ p <= Depth(perp.bids)
  <2>1. perpMoney * Leverage \in Nat
    BY TimesNat, SizingAssumption
  <2>2. Fundable(perpMoney * Leverage, perp.mid) \in Nat
    BY <2>1, BookTypes, FundableIs
  <2> QED BY <2>2, BookTypes DEF PerpBinding, Least
<1>3. cap \in Nat
  <2>1. MaxPct \in Nat /\ spotMoney + perpMoney \in Nat
    BY SizingAssumption
  <2>2. (spotMoney + perpMoney) * MaxPct \in Nat /\ Cube * spot.mid \in Nat \ {0}
    BY <2>1, TimesNat, CubeTypes, BookTypes
  <2>3. cap = ((spotMoney + perpMoney) * MaxPct) \div (Cube * spot.mid)
    BY DEF OperatorCap, Cube
  <2> QED BY <2>2, <2>3, Divided
<1>4. raw \in Nat /\ raw <= s /\ raw <= p
  <2> HIDE DEF s, p, cap
  <2> QED BY <1>1, <1>2, <1>3 DEF Least
<1>5. z.spot = s /\ z.perp = p /\ z.qty = FloorToLot(raw)
  BY DEF SizeEntry
<1> HIDE DEF s, p, cap, raw
<1>6. FloorToLot(raw) \in Nat /\ FloorToLot(raw) <= raw
  BY <1>4, FloorToLotDown
<1>7. z.qty <= z.spot /\ z.qty <= z.perp
  BY <1>1, <1>2, <1>4, <1>5, <1>6
<1> QED BY <1>1, <1>2, <1>5, <1>6, <1>7 DEF s

\* Within the spot binding, the fill costs no more than the safe part of the wallet, before
\* slippage and fee.
LEMMA BindingPays ==
    ASSUME NEW asks \in Seq(Level), Rising(asks), NEW money \in Nat,
           NEW qty \in Nat, 0 < qty, qty <= SpotBinding(asks, money)
    PROVE  Spent(asks, qty) \in Nat /\ Spent(asks, qty) * Cube <= money * Safety
<1> DEFINE B == SpotBinding(asks, money)
<1>1. B \in Nat /\ B # 0
  BY SpotBindingIs
<1>2. PICK i \in 1 .. Len(asks) : B = Feasible(asks, money, i)
  BY <1>1, SpotBindingIs
<1> DEFINE p == asks[i].price
           f == Fundable(money, p)
<1>3. p \in Nat \ {0} /\ p \in Nat
  BY LevelTypes
<1>4. f \in Nat /\ f * (Cube * p) <= money * Safety
  BY <1>3, FundableIs
<1>5. qty <= f /\ qty <= Cum(asks, i)
  <2>1. B <= f /\ B <= Cum(asks, i) /\ Cum(asks, i) \in Nat
    BY <1>2, FeasibleIs
  <2> HIDE DEF B, f
  <2> QED BY <1>1, <1>4, <2>1 DEF B
<1>6. Spent(asks, qty) <= p * qty /\ Spent(asks, qty) \in Nat
  BY <1>5, SpentUpTo, SpentTotal
<1> HIDE DEF B, f, p
<1>7. /\ Cube \in Nat /\ Cube * p \in Nat /\ p * qty \in Nat /\ qty * (Cube * p) \in Nat
      /\ f * (Cube * p) \in Nat /\ money * Safety \in Nat /\ Spent(asks, qty) * Cube \in Nat
  BY <1>3, <1>4, <1>6, CubeTypes, TimesNat, SizingAssumption
<1>8. qty * (Cube * p) <= f * (Cube * p)
  BY <1>4, <1>5, <1>7, TimesMonotone
<1>9. Spent(asks, qty) * Cube <= (p * qty) * Cube
  BY <1>6, <1>7, TimesMonotone
<1>10. (p * qty) * Cube = qty * (Cube * p)
  BY <1>3, <1>7
<1> QED BY <1>4, <1>6, <1>7, <1>8, <1>9, <1>10

\* When the margin of safety covers slippage and fee, the wallet pays the fill with both.
LEMMA MarginPays ==
    ASSUME NEW slip \in Nat, NEW fee \in Nat, Safety * ((One + slip) * (One + fee)) <= Cube,
           NEW money \in Nat, NEW spent \in Nat, spent * Cube <= money * Safety
    PROVE  spent * (One + slip) * (One + fee) <= money
<1> DEFINE k == (One + slip) * (One + fee)
<1>1. One + slip \in Nat /\ One + fee \in Nat /\ Safety \in Nat /\ Cube \in Nat \ {0} /\ Cube \in Nat
  BY SizingAssumption, CubeTypes
<1>2. k \in Nat
  BY <1>1, TimesNat
<1>3. spent * (One + slip) * (One + fee) = spent * k
  BY <1>1
<1>4. Safety * k <= Cube
  OBVIOUS
<1> HIDE DEF k
<1>5. /\ spent * k \in Nat /\ spent * Cube \in Nat /\ money * Safety \in Nat /\ Safety * k \in Nat
      /\ (spent * Cube) * k \in Nat /\ (money * Safety) * k \in Nat /\ money * Cube \in Nat
  BY <1>1, <1>2, TimesNat
<1>6. (spent * Cube) * k <= (money * Safety) * k
  BY <1>2, <1>5, TimesMonotone
<1>7. (spent * Cube) * k = (spent * k) * Cube
  BY <1>1, <1>2
<1>8. (money * Safety) * k = money * (Safety * k)
  BY <1>1, <1>2
<1>9. money * (Safety * k) <= money * Cube
  BY <1>1, <1>4, <1>5, TimesMonotone
<1>10. (spent * k) * Cube <= money * Cube
  BY <1>5, <1>6, <1>7, <1>8, <1>9
<1>11. spent * k <= money
  BY <1>1, <1>5, <1>10, Cancels
<1> QED BY <1>3, <1>11

-----------------------------------------------------------------------------
(* The types. *)

Wallets(S) == [spot : S, futures : S, coins : [Bases -> S]]
Gateways == [wallet : Wallets(Nat), ledger : Wallets(Int), seen : SUBSET (Bases \X Legs)]
Orders == [base : Bases, leg : Legs, side : {"buy", "sell"}, qty : Nat, id : SUBSET (Bases \X Legs)]
Rows == [qty : Nat, spotCost : Nat, perpProceeds : Nat]

\* The books that a base is quoted with.
LEMMA Quoted ==
    ASSUME TypeOK, NEW b \in Bases
    PROVE  IsBook(market[b].spot) /\ IsBook(market[b].futures)
BY PaperAssumption DEF TypeOK

\* The side that an order meets is a side of a book, and the fill is a natural number,
\* with and without slippage and fee.
LEMMA FilledTypes ==
    ASSUME TypeOK, NEW o \in Orders
    PROVE  /\ Side(o) \in Seq(Level)
           /\ Filled(o) \in Nat
           /\ Filled(o) * (One + Fee) \in Nat /\ Filled(o) * (One - Fee) \in Nat
<1>1. o.base \in Bases /\ o.leg \in {"spot", "futures"} /\ o.qty \in Nat
  BY DEF Orders, Legs
<1>2. IsBook(market[o.base].spot) /\ IsBook(market[o.base].futures)
  BY <1>1, Quoted
<1>3. /\ market[o.base].spot.asks \in Seq(Level) /\ market[o.base].spot.bids \in Seq(Level)
      /\ market[o.base].futures.asks \in Seq(Level) /\ market[o.base].futures.bids \in Seq(Level)
  BY <1>2 DEF IsBook
<1>4. Side(o) \in Seq(Level)
  BY <1>1, <1>3 DEF Side
<1>5. Spent(Side(o), o.qty) \in Nat
  BY <1>1, <1>4, SpentTotal
<1>6. One + Slip \in Nat /\ One - Slip \in Nat /\ One + Fee \in Nat /\ One - Fee \in Nat
  BY SizingAssumption, PaperAssumption
<1>7. Filled(o) \in Nat
  BY <1>5, <1>6, TimesNat DEF Filled
<1> QED BY <1>4, <1>6, <1>7, TimesNat

\* What a fill takes from the wallet of its leg, or, negative, brings.
Debit(o) == IF o.side = "buy" THEN Filled(o) * (One + Fee) ELSE - (Filled(o) * (One - Fee))

\* What it brings in coins.
Coins(o) == IF o.leg = "futures" THEN 0 ELSE IF o.side = "buy" THEN o.qty ELSE - o.qty

\* The balances after a fill.
LEMMA SettleIs ==
    ASSUME TypeOK, NEW w \in Wallets(Int), NEW o \in Orders
    PROVE  /\ Settle(w, o) \in Wallets(Int)
           /\ Settle(w, o).spot = w.spot - (IF o.leg = "spot" THEN Debit(o) ELSE 0)
           /\ Settle(w, o).futures = w.futures - (IF o.leg = "futures" THEN Debit(o) ELSE 0)
           /\ Settle(w, o).coins = [w.coins EXCEPT ![o.base] = @ + Coins(o)]
<1> DEFINE sign == IF o.side = "buy" THEN 1 ELSE -1
           d == sign * Filled(o) * (One + sign * Fee)
<1>1. /\ o.base \in Bases /\ o.leg \in {"spot", "futures"} /\ o.qty \in Nat /\ o.side \in {"buy", "sell"}
      /\ w.spot \in Int /\ w.futures \in Int /\ w.coins \in [Bases -> Int]
  BY DEF Orders, Legs, Wallets
<1>2. d = Debit(o) /\ d \in Int
  <2>1. Filled(o) \in Nat /\ Filled(o) * (One + Fee) \in Nat /\ Filled(o) * (One - Fee) \in Nat
    BY FilledTypes
  <2>2. One \in Nat /\ Fee \in Nat
    BY SizingAssumption, PaperAssumption
  <2>3. CASE o.side = "buy"
    BY <2>1, <2>2, <2>3 DEF Debit
  <2>4. CASE o.side = "sell"
    BY <2>1, <2>2, <2>4 DEF Debit
  <2> QED BY <1>1, <2>3, <2>4
<1>3. Settle(w, o) = [w EXCEPT ![o.leg] = @ - d,
                               !.coins[o.base] = IF o.leg = "spot" THEN @ + sign * o.qty ELSE @]
  BY DEF Settle
<1>4. CASE o.leg = "spot"
  <2>1. Coins(o) = sign * o.qty /\ Coins(o) \in Int
    BY <1>1, <1>4 DEF Coins
  <2>2. Settle(w, o) = [w EXCEPT !.spot = @ - d, !.coins[o.base] = @ + Coins(o)]
    BY <1>3, <1>4, <2>1
  <2> HIDE DEF d, sign
  <2>3. Settle(w, o) = [spot |-> w.spot - d, futures |-> w.futures,
                        coins |-> [w.coins EXCEPT ![o.base] = @ + Coins(o)]]
    BY <2>2 DEF Wallets
  <2> QED BY <1>1, <1>2, <1>4, <2>1, <2>3 DEF Wallets
<1>5. CASE o.leg = "futures"
  <2>1. Coins(o) = 0
    BY <1>5 DEF Coins
  <2>2. Settle(w, o) = [w EXCEPT !.futures = @ - d, !.coins[o.base] = @]
    BY <1>3, <1>5
  <2> HIDE DEF d, sign
  <2>3. Settle(w, o) = [spot |-> w.spot, futures |-> w.futures - d, coins |-> [w.coins EXCEPT ![o.base] = @]]
    BY <2>2 DEF Wallets
  <2> QED BY <1>1, <1>2, <1>5, <2>1, <2>3 DEF Wallets
<1> QED BY <1>1, <1>4, <1>5

\* An order leaves the gateway well-typed.
LEMMA PlaceTypes ==
    ASSUME TypeOK, NEW g \in Gateways, NEW o \in Orders
    PROVE  Place(g, o) \in Gateways
<1>1. g.wallet \in Wallets(Nat) /\ g.ledger \in Wallets(Int) /\ g.seen \subseteq Bases \X Legs
  BY DEF Gateways
<1>2. g.wallet \in Wallets(Int)
  BY <1>1 DEF Wallets
<1>3. Settle(g.wallet, o) \in Wallets(Int) /\ Settle(g.ledger, o) \in Wallets(Int)
  BY <1>1, <1>2, SettleIs
<1>4. \A w \in Wallets(Int) : Clamped(w) \in Wallets(Nat)
  BY DEF Clamped, NonNegative, Wallets
<1>5. o.id \subseteq Bases \X Legs
  BY DEF Orders
<1> QED BY <1>1, <1>3, <1>4, <1>5 DEF Place, Gateways

\* The balances after an order.
LEMMA PlaceIs ==
    ASSUME TypeOK, NEW g \in Gateways, NEW o \in Orders
    PROVE  /\ Place(g, o) \in Gateways
           /\ Place(g, o).seen = g.seen \cup o.id
           /\ ~Accepts(g, o) => /\ Place(g, o).wallet = g.wallet
                                /\ Place(g, o).ledger = g.ledger
           /\ Accepts(g, o) =>
                /\ Place(g, o).wallet.spot = NonNegative(g.wallet.spot - (IF o.leg = "spot" THEN Debit(o) ELSE 0))
                /\ Place(g, o).ledger.spot = g.ledger.spot - (IF o.leg = "spot" THEN Debit(o) ELSE 0)
                /\ Place(g, o).wallet.coins = [g.wallet.coins EXCEPT ![o.base] = NonNegative(@ + Coins(o))]
                /\ Place(g, o).ledger.coins = [g.ledger.coins EXCEPT ![o.base] = @ + Coins(o)]
<1> DEFINE w == g.wallet
           l == g.ledger
<1>1. w \in Wallets(Nat) /\ l \in Wallets(Int) /\ w \in Wallets(Int)
  BY DEF Gateways, Wallets
<1>2. Place(g, o) \in Gateways /\ Place(g, o).seen = g.seen \cup o.id
  BY PlaceTypes DEF Place
<1>3. ASSUME ~Accepts(g, o) PROVE Place(g, o).wallet = w /\ Place(g, o).ledger = l
  BY <1>3 DEF Place
<1>4. ASSUME Accepts(g, o)
      PROVE  Place(g, o).wallet = Clamped(Settle(w, o)) /\ Place(g, o).ledger = Settle(l, o)
  BY <1>4 DEF Place
<1>5. /\ Settle(w, o) \in Wallets(Int)
      /\ Settle(w, o).spot = w.spot - (IF o.leg = "spot" THEN Debit(o) ELSE 0)
      /\ Settle(w, o).coins = [w.coins EXCEPT ![o.base] = @ + Coins(o)]
  BY <1>1, SettleIs
<1>6. /\ Settle(l, o).spot = l.spot - (IF o.leg = "spot" THEN Debit(o) ELSE 0)
      /\ Settle(l, o).coins = [l.coins EXCEPT ![o.base] = @ + Coins(o)]
  BY <1>1, SettleIs
<1>7. Clamped(Settle(w, o)).coins = [w.coins EXCEPT ![o.base] = NonNegative(@ + Coins(o))]
  <2>1. w.coins \in [Bases -> Nat] /\ o.base \in Bases
    BY <1>1 DEF Wallets, Orders
  <2>2. Clamped(Settle(w, o)).coins = [b \in Bases |-> NonNegative(Settle(w, o).coins[b])]
    BY DEF Clamped
  <2>3. \A b \in Bases : b # o.base => NonNegative(Settle(w, o).coins[b]) = w.coins[b]
    BY <1>5, <2>1 DEF NonNegative
  <2>4. NonNegative(Settle(w, o).coins[o.base]) = NonNegative(w.coins[o.base] + Coins(o))
    BY <1>5, <2>1
  <2> HIDE DEF w
  <2> QED BY <2>1, <2>2, <2>3, <2>4
<1>8. Clamped(Settle(w, o)).spot = NonNegative(w.spot - (IF o.leg = "spot" THEN Debit(o) ELSE 0))
  BY <1>5 DEF Clamped
<1> QED BY <1>2, <1>3, <1>4, <1>6, <1>7, <1>8

\* The wallet and the ledger agree on the coins; on the quote of the spot wallet.
SameCoins(g) == g.wallet.coins = g.ledger.coins
SameSpot(g) == g.wallet.spot = g.ledger.spot

\* An order of the futures leg leaves the spot wallet alone.
LEMMA FuturesOrder ==
    ASSUME TypeOK, NEW g \in Gateways, NEW o \in Orders, o.leg = "futures"
    PROVE  /\ Place(g, o).wallet.coins = g.wallet.coins /\ Place(g, o).ledger.coins = g.ledger.coins
           /\ Place(g, o).wallet.spot = g.wallet.spot /\ Place(g, o).ledger.spot = g.ledger.spot
<1>1. /\ g.wallet.coins \in [Bases -> Nat] /\ g.ledger.coins \in [Bases -> Int]
      /\ g.wallet.spot \in Nat /\ g.ledger.spot \in Int /\ o.base \in Bases
  BY DEF Gateways, Wallets, Orders
<1>2. CASE ~Accepts(g, o)
  BY <1>2, PlaceIs
<1>3. CASE Accepts(g, o)
  <2>1. /\ Place(g, o).wallet.spot = NonNegative(g.wallet.spot - 0)
        /\ Place(g, o).ledger.spot = g.ledger.spot - 0
        /\ Place(g, o).wallet.coins = [g.wallet.coins EXCEPT ![o.base] = NonNegative(@ + 0)]
        /\ Place(g, o).ledger.coins = [g.ledger.coins EXCEPT ![o.base] = @ + 0]
    BY <1>3, PlaceIs DEF Coins
  <2> QED BY <1>1, <2>1 DEF NonNegative
<1> QED BY <1>2, <1>3

\* An accepted sale of no more coins than there are cuts nothing off.
LEMMA SpotSale ==
    ASSUME TypeOK, NEW g \in Gateways, NEW o \in Orders, o.leg = "spot", o.side = "sell",
           Accepts(g, o), o.qty <= g.wallet.coins[o.base]
    PROVE  /\ Place(g, o).wallet.coins = [g.wallet.coins EXCEPT ![o.base] = @ - o.qty]
           /\ SameCoins(g) => SameCoins(Place(g, o))
           /\ SameSpot(g) => SameSpot(Place(g, o))
<1>1. /\ g.wallet.coins \in [Bases -> Nat] /\ g.wallet.spot \in Nat /\ o.base \in Bases /\ o.qty \in Nat
  BY DEF Gateways, Wallets, Orders
<1>2. Coins(o) = - o.qty /\ Debit(o) = - (Filled(o) * (One - Fee))
  BY DEF Coins, Debit
<1>3. Filled(o) * (One - Fee) \in Nat
  BY FilledTypes
<1>4. /\ Place(g, o).wallet.spot = NonNegative(g.wallet.spot - Debit(o))
      /\ Place(g, o).ledger.spot = g.ledger.spot - Debit(o)
      /\ Place(g, o).wallet.coins = [g.wallet.coins EXCEPT ![o.base] = NonNegative(@ + Coins(o))]
      /\ Place(g, o).ledger.coins = [g.ledger.coins EXCEPT ![o.base] = @ + Coins(o)]
  BY PlaceIs
<1>5. NonNegative(g.wallet.coins[o.base] + Coins(o)) = g.wallet.coins[o.base] - o.qty
      /\ g.wallet.coins[o.base] + Coins(o) = g.wallet.coins[o.base] - o.qty
  BY <1>1, <1>2 DEF NonNegative
<1>6. NonNegative(g.wallet.spot - Debit(o)) = g.wallet.spot - Debit(o)
  BY <1>1, <1>2, <1>3 DEF NonNegative
<1> QED BY <1>4, <1>5, <1>6 DEF SameCoins, SameSpot

\* A buy adds its coins, and cuts nothing off when the wallet pays it.
LEMMA SpotBuy ==
    ASSUME TypeOK, NEW g \in Gateways, NEW o \in Orders, o.leg = "spot", o.side = "buy",
           Accepts(g, o)
    PROVE  /\ Place(g, o).wallet.coins = [g.wallet.coins EXCEPT ![o.base] = @ + o.qty]
           /\ SameCoins(g) => SameCoins(Place(g, o))
           /\ SameSpot(g) /\ Filled(o) * (One + Fee) <= g.wallet.spot => SameSpot(Place(g, o))
<1>1. /\ g.wallet.coins \in [Bases -> Nat] /\ g.wallet.spot \in Nat /\ o.base \in Bases /\ o.qty \in Nat
  BY DEF Gateways, Wallets, Orders
<1>2. Coins(o) = o.qty /\ Debit(o) = Filled(o) * (One + Fee)
  BY DEF Coins, Debit
<1>3. Filled(o) * (One + Fee) \in Nat
  BY FilledTypes
<1>4. /\ Place(g, o).wallet.spot = NonNegative(g.wallet.spot - Debit(o))
      /\ Place(g, o).ledger.spot = g.ledger.spot - Debit(o)
      /\ Place(g, o).wallet.coins = [g.wallet.coins EXCEPT ![o.base] = NonNegative(@ + Coins(o))]
      /\ Place(g, o).ledger.coins = [g.ledger.coins EXCEPT ![o.base] = @ + Coins(o)]
  BY PlaceIs
<1>5. NonNegative(g.wallet.coins[o.base] + Coins(o)) = g.wallet.coins[o.base] + o.qty
      /\ g.wallet.coins[o.base] + Coins(o) = g.wallet.coins[o.base] + o.qty
  BY <1>1, <1>2 DEF NonNegative
<1>6. Debit(o) <= g.wallet.spot => NonNegative(g.wallet.spot - Debit(o)) = g.wallet.spot - Debit(o)
  BY <1>1, <1>2, <1>3 DEF NonNegative
<1> QED BY <1>2, <1>4, <1>5, <1>6 DEF SameCoins, SameSpot

-----------------------------------------------------------------------------
(* The size of an entry of the worker. *)

\* A size is within both of its bindings, and these are within the books.
LEMMA SizedIs ==
    ASSUME TypeOK, NEW b \in Bases
    PROVE  /\ Sized(b).qty \in Nat /\ Sized(b).spot \in Nat /\ Sized(b).perp \in Nat
           /\ Sized(b).qty <= Sized(b).spot /\ Sized(b).spot <= Depth(market[b].spot.asks)
           /\ Sized(b).qty <= Sized(b).perp /\ Sized(b).perp <= Depth(market[b].futures.bids)
           /\ Sized(b).spot = SpotBinding(market[b].spot.asks, gateway.wallet.spot)
           /\ Sized(b).qty <= Depth(market[b].spot.asks) /\ Sized(b).qty <= Depth(market[b].futures.bids)
<1>1. IsBook(market[b].spot) /\ IsBook(market[b].futures)
  BY Quoted
<1>2. gateway.wallet.spot \in Nat /\ gateway.wallet.futures \in Nat
  BY DEF TypeOK
<1>3. Sized(b) = SizeEntry(market[b].spot, market[b].futures, gateway.wallet.spot, gateway.wallet.futures)
  BY DEF Sized
<1> DEFINE spot == market[b].spot
           perp == market[b].futures
           x == gateway.wallet.spot
           y == gateway.wallet.futures
           z == Sized(b)
<1>4. /\ z.qty \in Nat /\ z.spot \in Nat /\ z.perp \in Nat
      /\ z.qty <= z.spot /\ z.spot <= Depth(spot.asks)
      /\ z.qty <= z.perp /\ z.perp <= Depth(perp.bids)
      /\ z.spot = SpotBinding(spot.asks, x)
  <2> HIDE DEF z, spot, perp, x, y
  <2>1. IsBook(spot) /\ IsBook(perp) /\ x \in Nat /\ y \in Nat /\ z = SizeEntry(spot, perp, x, y)
    BY <1>1, <1>2, <1>3 DEF z, spot, perp, x, y
  <2> QED BY <2>1, SizedWithin
<1>5. Depth(market[b].spot.asks) \in Nat /\ Depth(market[b].futures.bids) \in Nat
  BY <1>1, BookTypes
<1>6. z.qty <= Depth(market[b].spot.asks) /\ z.qty <= Depth(market[b].futures.bids)
  <2> HIDE DEF z
  <2> QED BY <1>4, <1>5
<1> QED BY <1>4, <1>6

\* The wallet pays the fill of a size, slippage and fee included.
LEMMA SizedPays ==
    ASSUME TypeOK, SafetyCovers, NEW b \in Bases, Sized(b).qty > 0
    PROVE  Spent(market[b].spot.asks, Sized(b).qty) * (One + Slip) * (One + Fee) <= gateway.wallet.spot
<1> DEFINE qty == Sized(b).qty
           asks == market[b].spot.asks
           money == gateway.wallet.spot
<1>1. asks \in Seq(Level) /\ Rising(asks) /\ money \in Nat
  BY Quoted DEF IsBook, TypeOK
<1>2. qty \in Nat /\ 0 < qty /\ qty <= SpotBinding(asks, money)
  BY SizedIs
<1>3. Slip \in Nat /\ Fee \in Nat
  BY SizingAssumption, PaperAssumption
<1> HIDE DEF qty, asks, money
<1>4. Spent(asks, qty) \in Nat /\ Spent(asks, qty) * Cube <= money * Safety
  BY <1>1, <1>2, BindingPays
<1>5. Spent(asks, qty) * (One + Slip) * (One + Fee) <= money
  BY <1>1, <1>3, <1>4, MarginPays DEF SafetyCovers, Cube
<1> QED BY <1>5 DEF qty, asks, money

-----------------------------------------------------------------------------
(* The orders of an entry and of a close. *)

\* An entry's orders are both accepted.
LEMMA EntryAccepted ==
    ASSUME TypeOK, NEW b \in Bases, Sized(b).qty > 0, NEW g
    PROVE  /\ EntryOrder(b, "spot", "buy") \in Orders /\ EntryOrder(b, "futures", "sell") \in Orders
           /\ Accepts(g, EntryOrder(b, "spot", "buy")) /\ Accepts(g, EntryOrder(b, "futures", "sell"))
<1>1. Sized(b).qty \in Nat
  BY SizedIs
<1>2. EntryOrder(b, "spot", "buy") \in Orders /\ EntryOrder(b, "futures", "sell") \in Orders
  BY <1>1 DEF EntryOrder, Order, Fresh, Orders, Legs
<1>3. /\ Sized(b).qty <= Depth(Side(EntryOrder(b, "spot", "buy")))
      /\ Sized(b).qty <= Depth(Side(EntryOrder(b, "futures", "sell")))
  BY SizedIs DEF EntryOrder, Order, Side
<1> QED BY <1>2, <1>3 DEF Accepts, Duplicate, EntryOrder, Order, Fresh

\* What an entry does.
LEMMA EnterIs ==
    ASSUME TypeOK, NEW b \in Bases, Enter(b)
    PROVE  LET buy == EntryOrder(b, "spot", "buy")
               sell == EntryOrder(b, "futures", "sell")
               bought == Place(gateway, buy)
           IN /\ Sized(b).qty > 0 /\ b \notin Held /\ rows[b] = NoRow
              /\ buy \in Orders /\ sell \in Orders /\ gateway \in Gateways /\ bought \in Gateways
              /\ Accepts(gateway, buy)
              /\ gateway' = Place(bought, sell)
              /\ rows' = [rows EXCEPT ![b] = EntryRow(b)]
              /\ EntryRow(b) \in Rows
              /\ pc' = "idle" /\ UNCHANGED <<market, todo>>
<1>1. Sized(b).qty > 0
  BY DEF Enter, WorthIt
<1>2. b \notin Held /\ rows[b] = NoRow
  BY DEF Enter, Best, Candidates, Held
<1>3. gateway \in Gateways
  BY DEF TypeOK, Gateways, Wallets
<1>4. /\ EntryOrder(b, "spot", "buy") \in Orders /\ EntryOrder(b, "futures", "sell") \in Orders
      /\ Accepts(gateway, EntryOrder(b, "spot", "buy"))
      /\ Accepts(Place(gateway, EntryOrder(b, "spot", "buy")), EntryOrder(b, "futures", "sell"))
  BY <1>1, EntryAccepted
<1>5. Place(gateway, EntryOrder(b, "spot", "buy")) \in Gateways
  BY <1>3, <1>4, PlaceTypes
<1>6. EntryRow(b) \in Rows
  <2>1. Sized(b).qty \in Nat
    BY SizedIs
  <2>2. Filled(EntryOrder(b, "spot", "buy")) \in Nat /\ Filled(EntryOrder(b, "futures", "sell")) \in Nat
    BY <1>4, FilledTypes
  <2> QED BY <2>1, <2>2 DEF EntryRow, Rows
<1>7. /\ gateway' = Place(Place(gateway, EntryOrder(b, "spot", "buy")), EntryOrder(b, "futures", "sell"))
      /\ rows' = [rows EXCEPT ![b] = EntryRow(b)]
  BY <1>4 DEF Enter
<1>8. pc' = "idle" /\ UNCHANGED <<market, todo>>
  BY DEF Enter, EndCycle
<1> QED BY <1>1, <1>2, <1>3, <1>4, <1>5, <1>6, <1>7, <1>8

\* What a close does.
LEMMA CloseIs ==
    ASSUME TypeOK, NEW b \in Bases, ClosePosition(b)
    PROVE  LET sell == Order(b, "spot", "sell", rows[b].qty, ExitId(b, "spot"))
               buy == Order(b, "futures", "buy", rows[b].qty, ExitId(b, "futures"))
               sold == Place(gateway, sell)
           IN /\ b \in Held
              /\ sell \in Orders /\ buy \in Orders /\ gateway \in Gateways /\ sold \in Gateways
              /\ gateway' = Place(sold, buy)
              /\ rows' = IF Accepts(gateway, sell) /\ Accepts(sold, buy)
                         THEN [rows EXCEPT ![b] = NoRow] ELSE rows
              /\ todo' = todo \ {b} /\ UNCHANGED <<market, pc>>
<1> DEFINE sell == Order(b, "spot", "sell", rows[b].qty, ExitId(b, "spot"))
           buy == Order(b, "futures", "buy", rows[b].qty, ExitId(b, "futures"))
<1>1. rows[b].qty \in Nat /\ b \in Held
  BY DEF TypeOK, ClosePosition, Visit
<1>2. sell \in Orders /\ buy \in Orders
  BY <1>1 DEF Order, ExitId, Orders, Legs
<1>3. gateway \in Gateways
  BY DEF TypeOK, Gateways, Wallets
<1>4. Place(gateway, sell) \in Gateways
  BY <1>2, <1>3, PlaceTypes
<1>5. todo' = todo \ {b} /\ UNCHANGED <<market, pc>>
  BY DEF ClosePosition, Visit
<1> QED BY <1>1, <1>2, <1>3, <1>4, <1>5 DEF ClosePosition

-----------------------------------------------------------------------------
(* The invariant: types, coins, and the coins of the ledger. *)

WorkerInv == TypeOK /\ CoinsMatchRows /\ SameCoins(gateway)

\* The parts of TypeOK.
LEMMA TypeOKIs ==
    TypeOK <=> /\ market \in [Bases -> Quotes]
               /\ gateway \in Gateways
               /\ rows \in [Bases -> Rows]
               /\ pc \in {"idle", "exits", "entries"}
               /\ todo \subseteq Held
BY DEF TypeOK, Gateways, Wallets, Rows

\* A step that leaves the gateway and the rows alone.
Quiet ==
    /\ market' \in [Bases -> Quotes]
    /\ pc' \in {"idle", "exits", "entries"}
    /\ todo' \subseteq Held
    /\ UNCHANGED <<gateway, rows>>

\* Every step but an entry or a close is one.
LEMMA OtherStepsQuiet ==
    ASSUME TypeOK, [Next]_vars, \A b \in Bases : ~Enter(b) /\ ~ClosePosition(b)
    PROVE  Quiet
<1>1. /\ market \in [Bases -> Quotes] /\ pc \in {"idle", "exits", "entries"} /\ todo \subseteq Held
  BY TypeOKIs
<1>2. ASSUME NEW b \in Bases, Quote(b) PROVE Quiet
  BY <1>1, <1>2 DEF Quiet, Quote
<1>3. ASSUME NEW b \in Bases, SkipSkewedExit(b) \/ Keep(b) PROVE Quiet
  BY <1>1, <1>3 DEF Quiet, SkipSkewedExit, Keep, Visit
<1>4. ASSUME NEW b \in Bases, Reject(b) PROVE Quiet
  BY <1>1, <1>4 DEF Quiet, Reject, EndCycle
<1>5. CASE StartCycle
  BY <1>1, <1>5 DEF Quiet, StartCycle
<1>6. CASE EndExits
  BY <1>1, <1>6 DEF Quiet, EndExits
<1>7. CASE NoEntry
  BY <1>1, <1>7 DEF Quiet, NoEntry, EndCycle
<1>8. CASE UNCHANGED vars
  BY <1>1, <1>8 DEF Quiet, vars
<1> QED BY <1>2, <1>3, <1>4, <1>5, <1>6, <1>7, <1>8 DEF Next

\* It keeps the invariant.
LEMMA QuietKeeps ==
    ASSUME WorkerInv, Quiet
    PROVE  WorkerInv' /\ (SameSpot(gateway) => SameSpot(gateway)')
<1>1. gateway' = gateway /\ rows' = rows /\ Held' = Held
  BY DEF Quiet, Held
<1>2. gateway \in Gateways /\ rows \in [Bases -> Rows]
  BY TypeOKIs DEF WorkerInv
<1>3. TypeOK'
  <2>1. gateway' \in Gateways /\ rows' \in [Bases -> Rows] /\ todo' \subseteq Held'
    BY <1>1, <1>2 DEF Quiet
  <2> QED BY <2>1 DEF Quiet, TypeOK, Gateways, Wallets, Rows
<1>4. CoinsMatchRows'
  BY <1>1 DEF WorkerInv, CoinsMatchRows
<1>5. SameCoins(gateway)' /\ (SameSpot(gateway) => SameSpot(gateway)')
  BY <1>1 DEF WorkerInv, SameCoins, SameSpot
<1> QED BY <1>3, <1>4, <1>5 DEF WorkerInv

\* So does an entry, and the wallet pays it when the margin of safety covers it.
LEMMA EnterKeeps ==
    ASSUME WorkerInv, NEW b \in Bases, Enter(b)
    PROVE  /\ WorkerInv'
           /\ SafetyCovers /\ SameSpot(gateway) => SameSpot(gateway)'
<1> DEFINE buy == EntryOrder(b, "spot", "buy")
           sell == EntryOrder(b, "futures", "sell")
           bought == Place(gateway, buy)
           coins == gateway.wallet.coins
<1>1. TypeOK /\ CoinsMatchRows /\ SameCoins(gateway)
  BY DEF WorkerInv
<1>2. /\ Sized(b).qty > 0 /\ b \notin Held /\ rows[b] = NoRow
      /\ buy \in Orders /\ sell \in Orders /\ gateway \in Gateways /\ bought \in Gateways
      /\ Accepts(gateway, buy)
      /\ gateway' = Place(bought, sell)
      /\ rows' = [rows EXCEPT ![b] = EntryRow(b)]
      /\ EntryRow(b) \in Rows
      /\ pc' = "idle" /\ UNCHANGED <<market, todo>>
  BY <1>1, EnterIs
<1>3. /\ buy.base = b /\ buy.leg = "spot" /\ buy.side = "buy" /\ buy.qty = Sized(b).qty
      /\ sell.leg = "futures" /\ EntryRow(b).qty = Sized(b).qty
  BY DEF EntryOrder, Order, EntryRow
<1>4. Sized(b).qty \in Nat
  BY <1>1, SizedIs
<1>5. /\ gateway'.wallet.coins = bought.wallet.coins /\ gateway'.ledger.coins = bought.ledger.coins
      /\ gateway'.wallet.spot = bought.wallet.spot /\ gateway'.ledger.spot = bought.ledger.spot
      /\ gateway' \in Gateways /\ gateway.seen \subseteq gateway'.seen
  <2>1. gateway' \in Gateways
    BY <1>1, <1>2, PlaceTypes
  <2>2. gateway.seen \subseteq gateway'.seen
    BY <1>2 DEF Place
  <2> HIDE DEF buy, sell, bought
  <2> QED BY <1>1, <1>2, <1>3, <2>1, <2>2, FuturesOrder
<1>6. /\ bought.wallet.coins = [coins EXCEPT ![b] = @ + Sized(b).qty]
      /\ SameCoins(bought)
      /\ SameSpot(gateway) /\ Filled(buy) * (One + Fee) <= gateway.wallet.spot => SameSpot(bought)
  <2> HIDE DEF buy
  <2> QED BY <1>1, <1>2, <1>3, SpotBuy
<1>7. rows \in [Bases -> Rows] /\ coins \in [Bases -> Nat] /\ todo \subseteq Held
  <2>1. rows \in [Bases -> Rows] /\ todo \subseteq Held
    BY <1>1, TypeOKIs
  <2>2. coins \in [Bases -> Nat]
    BY <1>2 DEF Gateways, Wallets
  <2> QED BY <2>1, <2>2
<1>8. /\ rows' \in [Bases -> Rows] /\ rows'[b] = EntryRow(b)
      /\ \A c \in Bases : c # b => rows'[c] = rows[c]
  BY <1>2, <1>7
<1>9. b \in Held' /\ \A c \in Bases : c # b => (c \in Held' <=> c \in Held)
  <2>1. rows'[b] # NoRow
    BY <1>2, <1>3, <1>4, <1>8 DEF NoRow
  <2> QED BY <1>8, <2>1 DEF Held, NoRow
<1> HIDE DEF buy, sell, bought
<1>10. TypeOK'
  <2>1. Held \subseteq Held'
    BY <1>9 DEF Held
  <2>2. /\ market' \in [Bases -> Quotes] /\ pc' \in {"idle", "exits", "entries"}
        /\ todo' \subseteq Held'
    BY <1>1, <1>2, <1>7, <2>1 DEF TypeOK
  <2> QED BY <1>5, <1>8, <2>2 DEF TypeOK, Gateways, Wallets, Rows
<1>11. CoinsMatchRows'
  <2>1. coins[b] = 0
    <3>1. rows[b].qty = 0 /\ b \notin Held
      BY <1>2 DEF NoRow
    <3> QED BY <1>1, <3>1 DEF CoinsMatchRows
  <2>2. gateway'.wallet.coins[b] = rows'[b].qty
    BY <1>3, <1>4, <1>5, <1>6, <1>7, <1>8, <2>1
  <2>3. ASSUME NEW c \in Bases, c # b
        PROVE  \/ gateway'.wallet.coins[c] = rows'[c].qty
               \/ gateway'.wallet.coins[c] = 0 /\ c \in Held' /\ <<c, "spot">> \in gateway'.seen
    <3>1. gateway'.wallet.coins[c] = coins[c] /\ rows'[c] = rows[c] /\ (c \in Held' <=> c \in Held)
      BY <1>5, <1>6, <1>7, <1>8, <1>9, <2>3
    <3> QED BY <1>1, <1>5, <3>1 DEF CoinsMatchRows
  <2> QED BY <2>2, <2>3 DEF CoinsMatchRows
<1>12. SameCoins(gateway)'
  BY <1>5, <1>6 DEF SameCoins
<1>13. ASSUME SafetyCovers, SameSpot(gateway) PROVE SameSpot(gateway)'
  <2>1. Filled(buy) = Spent(market[b].spot.asks, Sized(b).qty) * (One + Slip)
    BY <1>3 DEF Filled, buy, EntryOrder, Order, Side
  <2>2. Filled(buy) * (One + Fee) <= gateway.wallet.spot
    BY <1>1, <1>2, <1>13, <2>1, SizedPays
  <2> QED BY <1>5, <1>6, <1>13, <2>2 DEF SameSpot
<1> QED BY <1>10, <1>11, <1>12, <1>13 DEF WorkerInv

\* And a close: it sells the coins of a whole row, once.
LEMMA CloseKeeps ==
    ASSUME WorkerInv, NEW b \in Bases, ClosePosition(b)
    PROVE  WorkerInv' /\ (SameSpot(gateway) => SameSpot(gateway)')
<1> DEFINE sell == Order(b, "spot", "sell", rows[b].qty, ExitId(b, "spot"))
           buy == Order(b, "futures", "buy", rows[b].qty, ExitId(b, "futures"))
           sold == Place(gateway, sell)
           coins == gateway.wallet.coins
           qty == rows[b].qty
<1>1. TypeOK /\ CoinsMatchRows /\ SameCoins(gateway)
  BY DEF WorkerInv
<1>2. /\ b \in Held
      /\ sell \in Orders /\ buy \in Orders /\ gateway \in Gateways /\ sold \in Gateways
      /\ gateway' = Place(sold, buy)
      /\ rows' = IF Accepts(gateway, sell) /\ Accepts(sold, buy)
                 THEN [rows EXCEPT ![b] = NoRow] ELSE rows
      /\ todo' = todo \ {b} /\ UNCHANGED <<market, pc>>
  BY <1>1, CloseIs
<1>3. /\ sell.base = b /\ sell.leg = "spot" /\ sell.side = "sell" /\ sell.qty = qty
      /\ buy.leg = "futures"
  BY DEF Order
<1>4. rows \in [Bases -> Rows] /\ coins \in [Bases -> Nat] /\ todo \subseteq Held /\ qty \in Nat
  <2>1. rows \in [Bases -> Rows] /\ todo \subseteq Held
    BY <1>1, TypeOKIs
  <2>2. coins \in [Bases -> Nat]
    BY <1>2 DEF Gateways, Wallets
  <2> QED BY <2>1, <2>2 DEF Rows
<1>5. gateway.seen \subseteq sold.seen /\ <<b, "spot">> \in sold.seen /\ sold.seen \subseteq gateway'.seen
  BY <1>2 DEF Place, Order, ExitId
<1>6. /\ gateway'.wallet.coins = sold.wallet.coins /\ gateway'.ledger.coins = sold.ledger.coins
      /\ gateway'.wallet.spot = sold.wallet.spot /\ gateway'.ledger.spot = sold.ledger.spot
      /\ gateway' \in Gateways
  <2>1. gateway' \in Gateways
    BY <1>1, <1>2, PlaceTypes
  <2> HIDE DEF buy, sell, sold
  <2> QED BY <1>1, <1>2, <1>3, <2>1, FuturesOrder
<1>7. ASSUME ~Accepts(gateway, sell)
      PROVE  /\ gateway'.wallet.coins = coins /\ SameCoins(gateway)'
             /\ SameSpot(gateway) => SameSpot(gateway)'
  <2>1. sold.wallet = gateway.wallet /\ sold.ledger = gateway.ledger
    BY <1>7 DEF Place
  <2> QED BY <1>1, <1>6, <2>1 DEF SameCoins, SameSpot
<1>8. ASSUME Accepts(gateway, sell)
      PROVE  /\ <<b, "spot">> \notin gateway.seen /\ coins[b] = qty
             /\ gateway'.wallet.coins = [coins EXCEPT ![b] = 0] /\ SameCoins(gateway)'
             /\ SameSpot(gateway) => SameSpot(gateway)'
  <2>1. <<b, "spot">> \notin gateway.seen
    BY <1>8, SpentIdIsRefused
  <2>2. coins[b] = qty
    BY <1>1, <2>1 DEF CoinsMatchRows
  <2>3. /\ sold.wallet.coins = [coins EXCEPT ![b] = @ - qty]
        /\ SameCoins(sold) /\ (SameSpot(gateway) => SameSpot(sold))
    <3>1. sell.qty <= coins[b]
      BY <1>3, <1>4, <2>2
    <3> HIDE DEF sell, qty
    <3> QED BY <1>1, <1>2, <1>3, <1>8, <3>1, SpotSale
  <2>4. [coins EXCEPT ![b] = @ - qty] = [coins EXCEPT ![b] = 0]
    BY <1>4, <2>2
  <2> QED BY <1>6, <2>1, <2>2, <2>3, <2>4 DEF SameCoins, SameSpot
<1> HIDE DEF sell, buy, sold
<1>9. rows' = rows \/ rows' = [rows EXCEPT ![b] = NoRow]
  BY <1>2
<1>10. TypeOK'
  <2>1. NoRow \in Rows
    BY DEF NoRow, Rows
  <2>2. rows' \in [Bases -> Rows] /\ \A c \in Bases : c # b => rows'[c] = rows[c]
    BY <1>4, <1>9, <2>1
  <2>3. todo' \subseteq Held'
    BY <1>2, <1>4, <2>2 DEF Held, NoRow
  <2> QED BY <1>1, <1>2, <1>6, <2>2, <2>3 DEF TypeOK, Gateways, Wallets, Rows
<1>11. CoinsMatchRows'
  <2>1. \A c \in Bases : c # b => gateway'.wallet.coins[c] = coins[c]
    BY <1>4, <1>7, <1>8
  <2>2. ASSUME NEW c \in Bases, c # b
        PROVE  \/ gateway'.wallet.coins[c] = rows'[c].qty
               \/ gateway'.wallet.coins[c] = 0 /\ c \in Held' /\ <<c, "spot">> \in gateway'.seen
    <3>1. rows'[c] = rows[c] /\ (c \in Held' <=> c \in Held)
      BY <1>4, <1>9, <2>2 DEF Held, NoRow
    <3> QED BY <1>1, <1>5, <2>1, <2>2, <3>1 DEF CoinsMatchRows
  <2>3. CASE ~Accepts(gateway, sell)
    <3>1. rows' = rows /\ gateway'.wallet.coins[b] = coins[b] /\ Held' = Held
      BY <1>2, <1>7, <2>3 DEF Held
    <3> QED BY <1>1, <1>5, <2>2, <3>1 DEF CoinsMatchRows
  <2>4. CASE Accepts(gateway, sell)
    <3>1. gateway'.wallet.coins[b] = 0
      BY <1>4, <1>8, <2>4
    <3>2. CASE rows' = rows
      <4>1. b \in Held' /\ <<b, "spot">> \in gateway'.seen
        BY <1>2, <1>5, <3>2 DEF Held
      <4> QED BY <2>2, <3>1, <4>1 DEF CoinsMatchRows
    <3>3. CASE rows' = [rows EXCEPT ![b] = NoRow]
      <4>1. rows'[b].qty = 0
        BY <1>4, <3>3 DEF NoRow
      <4> QED BY <2>2, <3>1, <4>1 DEF CoinsMatchRows
    <3> QED BY <1>9, <3>2, <3>3
  <2> QED BY <2>3, <2>4
<1> QED BY <1>7, <1>8, <1>10, <1>11 DEF WorkerInv

\* The start has the invariant.
LEMMA InitWorker == Init => WorkerInv /\ SameSpot(gateway)
<1> SUFFICES ASSUME Init PROVE WorkerInv /\ SameSpot(gateway)
  OBVIOUS
<1>1. gateway = [wallet |-> EmptyWallet, ledger |-> EmptyWallet, seen |-> {}]
  BY DEF Init
<1>2. EmptyWallet \in Wallets(Nat) /\ EmptyWallet \in Wallets(Int)
  <2>1. Money \in Nat
    <3>1. Start \in Nat /\ One \in Nat
      BY PaperAssumption, SizingAssumption
    <3>2. Start * One \in Nat
      BY <3>1, TimesNat
    <3> QED BY <3>1, <3>2, TimesNat DEF Money
  <2> QED BY <2>1 DEF EmptyWallet, Wallets
<1>3. gateway \in Gateways
  BY <1>1, <1>2 DEF Gateways
<1>4. rows = [b \in Bases |-> NoRow] /\ NoRow \in Rows
  BY DEF Init, NoRow, Rows
<1>5. TypeOK
  <2>1. rows \in [Bases -> Rows]
    BY <1>4
  <2> QED BY <1>3, <2>1 DEF Init, TypeOK, Gateways, Wallets, Rows
<1>6. CoinsMatchRows
  BY <1>1, <1>4 DEF CoinsMatchRows, EmptyWallet, NoRow
<1>7. SameCoins(gateway) /\ SameSpot(gateway)
  BY <1>1 DEF SameCoins, SameSpot
<1> QED BY <1>5, <1>6, <1>7 DEF WorkerInv

\* Every step keeps it.
LEMMA StepKeeps ==
    ASSUME WorkerInv, [Next]_vars
    PROVE  /\ WorkerInv'
           /\ SafetyCovers /\ SameSpot(gateway) => SameSpot(gateway)'
<1>1. TypeOK
  BY DEF WorkerInv
<1>2. CASE \E b \in Bases : Enter(b)
  BY <1>2, EnterKeeps
<1>3. CASE \E b \in Bases : ClosePosition(b)
  BY <1>3, CloseKeeps
<1>4. CASE \A b \in Bases : ~Enter(b) /\ ~ClosePosition(b)
  <2>1. Quiet
    BY <1>1, <1>4, OtherStepsQuiet
  <2> QED BY <2>1, QuietKeeps
<1> QED BY <1>2, <1>3, <1>4

\* It holds of every behaviour.
LEMMA Invariance == Spec => []WorkerInv
BY InitWorker, StepKeeps, PTL DEF Spec

-----------------------------------------------------------------------------
(* The theorems. *)

\* CoinsMatchRows: the coins in the paper wallet are those of the open rows, less those
\* that a half close has sold.
THEOREM CoinsOfRows == Spec => []CoinsMatchRows
BY Invariance, PTL DEF WorkerInv

\* SpotIsLedger: when the margin of safety covers slippage and fee, the types hold and no
\* balance of the spot wallet is ever cut off at zero.
THEOREM SpotLedger == ASSUME SafetyCovers PROVE Spec => []SpotIsLedger
<1> DEFINE Inv == WorkerInv /\ SameSpot(gateway)
<1>1. Init => Inv
  BY InitWorker
<1>2. Inv /\ [Next]_vars => Inv'
  BY StepKeeps
<1>3. Inv => SpotIsLedger
  BY DEF WorkerInv, SameCoins, SameSpot, SpotIsLedger
<1> QED BY <1>1, <1>2, <1>3, PTL DEF Spec

\* SizedEntriesFill: under the same condition on the settings, a size that the sizing
\* returns is filled by both books and paid by the wallet.
THEOREM SizesFill == ASSUME SafetyCovers PROVE Spec => []SizedEntriesFill
<1>1. TypeOK => SizedEntriesFill
  BY SizedIs, SizedPays DEF SizedEntriesFill
<1> QED BY <1>1, Invariance, PTL DEF WorkerInv

\* SpotSizeIsLargest: the argmax over the levels of a book is the largest quantity that
\* the book fills and the wallet funds.
THEOREM SizeIsLargest == Spec => []SpotSizeIsLargest
<1>1. ASSUME TypeOK PROVE SpotSizeIsLargest
  <2>1. ASSUME NEW b \in Bases
        PROVE  SpotBinding(market[b].spot.asks, gateway.wallet.spot)
                 = Max(Fits(market[b].spot.asks, gateway.wallet.spot) \cup {0})
    <3>1. IsBook(market[b].spot) /\ gateway.wallet.spot \in Nat
      BY <1>1, Quoted DEF TypeOK
    <3>2. market[b].spot.asks \in Seq(Level) /\ Rising(market[b].spot.asks)
      BY <3>1 DEF IsBook
    <3> QED BY <3>1, <3>2, SpotBindingIsLargest
  <2> QED BY <2>1 DEF SpotSizeIsLargest, Fits
<1> QED BY <1>1, Invariance, PTL DEF WorkerInv

\* A factor on both sides of a comparison of products.
LEMMA TimesThrough ==
    ASSUME NEW a \in Nat, NEW z \in Nat, NEW c \in Nat, NEW y \in Nat, NEW k \in Nat, a * z <= c * y
    PROVE  (a * k) * z <= (c * y) * k /\ (a * z) * k <= (c * k) * y
<1>1. a * z \in Nat /\ c * y \in Nat
  BY TimesNat
<1>2. (a * z) * k <= (c * y) * k
  <2> DEFINE m == a * z
             n == c * y
  <2> HIDE DEF m, n
  <2>1. m * k <= n * k
    BY <1>1, TimesMonotone DEF m, n
  <2> QED BY <2>1 DEF m, n
<1>3. (a * z) * k = (a * k) * z /\ (c * y) * k = (c * k) * y
  OBVIOUS
<1> QED BY <1>2, <1>3

\* ForecastIsConservative: the fills of an entry are worse than the forecast by the slippage
\* at most.
THEOREM ForecastHolds == Spec => []ForecastIsConservative
<1>1. ASSUME TypeOK PROVE ForecastIsConservative
  <2> SUFFICES ASSUME NEW b \in Bases \ Held, Sized(b).qty > 0
               PROVE  /\ Filled(EntryOrder(b, "spot", "buy")) * Sized(b).spot
                           <= Spent(market[b].spot.asks, Sized(b).spot) * Sized(b).qty * (One + Slip)
                      /\ Filled(EntryOrder(b, "futures", "sell")) * Sized(b).perp
                           >= Spent(market[b].futures.bids, Sized(b).perp) * Sized(b).qty * (One - Slip)
    BY DEF ForecastIsConservative
  <2> DEFINE asks == market[b].spot.asks
             bids == market[b].futures.bids
             q == Sized(b).qty
             s == Sized(b).spot
             p == Sized(b).perp
             up == One + Slip
             down == One - Slip
  <2>1. IsBook(market[b].spot) /\ IsBook(market[b].futures)
    BY <1>1, Quoted
  <2>2. asks \in Seq(Level) /\ Rising(asks) /\ bids \in Seq(Level) /\ Falling(bids)
    BY <2>1 DEF IsBook
  <2>3. /\ q \in Nat /\ 0 < q /\ s \in Nat /\ p \in Nat /\ q <= s /\ q <= p
        /\ s <= Depth(asks) /\ p <= Depth(bids)
    BY <1>1, SizedIs
  <2>4. /\ Filled(EntryOrder(b, "spot", "buy")) = Spent(asks, q) * up
        /\ Filled(EntryOrder(b, "futures", "sell")) = Spent(bids, q) * down
    BY DEF EntryOrder, Order, Filled, Side
  <2>5. up \in Nat /\ down \in Nat
    BY SizingAssumption, PaperAssumption
  <2> HIDE DEF asks, bids, q, s, p, up, down
  <2>6. /\ Spent(asks, q) \in Nat /\ Spent(asks, s) \in Nat
        /\ Spent(bids, q) \in Nat /\ Spent(bids, p) \in Nat
    BY <2>2, <2>3, SpentTotal
  <2>7. (Spent(asks, q) * up) * s <= (Spent(asks, s) * q) * up
    <3>1. Spent(asks, q) * s <= Spent(asks, s) * q
      BY <2>2, <2>3, AveragePrice
    <3> QED BY <2>3, <2>5, <2>6, <3>1, TimesThrough
  <2>8. (Spent(bids, p) * q) * down <= (Spent(bids, q) * down) * p
    <3>1. Spent(bids, p) * q <= Spent(bids, q) * p
      BY <2>2, <2>3, AveragePrice
    <3> QED BY <2>3, <2>5, <2>6, <3>1, TimesThrough
  <2>9. /\ (Spent(bids, p) * q) * down \in Nat /\ (Spent(bids, q) * down) * p \in Nat
    BY <2>3, <2>5, <2>6, TimesNat
  <2> QED BY <2>4, <2>7, <2>8, <2>9 DEF asks, bids, q, s, p, up, down
<1> QED BY <1>1, Invariance, PTL DEF WorkerInv

-----------------------------------------------------------------------------
(* No churn. *)

\* What a quotient is, for a dividend of either sign.
LEMMA DividedInt ==
    ASSUME NEW m \in Int, NEW d \in Nat \ {0}
    PROVE  /\ m \div d \in Int
           /\ (m \div d) * d <= m
           /\ \A n \in Int : n * d <= m => n <= m \div d
OBVIOUS

\* A positive factor cancels.
LEMMA CancelsFactor ==
    ASSUME NEW a \in Nat, NEW c \in Nat, NEW k \in Nat \ {0}, a * k <= c * k
    PROVE  a <= c
<1> SUFFICES ASSUME c + 1 <= a PROVE FALSE
  OBVIOUS
<1>1. (c + 1) * k <= a * k
  BY TimesMonotone
<1>2. (c + 1) * k = c * k + k /\ c * k \in Nat /\ a * k \in Nat
  BY TimesNat
<1> QED BY <1>1, <1>2

\* The basis rises with the ratio of the prices.
LEMMA BasisMonotone ==
    ASSUME NEW P \in Nat, NEW S \in Nat \ {0}, NEW Q \in Nat, NEW T \in Nat \ {0}, P * T <= Q * S
    PROVE  /\ Basis(P, 1, S, 1) \in Int /\ Basis(Q, 1, T, 1) \in Int
           /\ Basis(P, 1, S, 1) <= Basis(Q, 1, T, 1)
<1> DEFINE k == 10000
           m == ((P - S) * k) \div S
           f == ((Q - T) * k) \div T
<1>1. Basis(P, 1, S, 1) = m /\ Basis(Q, 1, T, 1) = f
  BY DEF Basis
<1>2. (P - S) * k \in Int /\ (Q - T) * k \in Int
  OBVIOUS
<1>3. m \in Int /\ m * S <= (P - S) * k
      /\ \A n \in Int : n * S <= (P - S) * k => n <= m
  BY <1>2, DividedInt
<1>4. f \in Int /\ \A n \in Int : n * T <= (Q - T) * k => n <= f
  BY <1>2, DividedInt
<1>5. -k <= m
  <2>1. (-k) * S <= (P - S) * k
    OBVIOUS
  <2> HIDE DEF m
  <2> QED BY <1>3, <2>1
<1> HIDE DEF m, f
<1>6. m + k \in Nat
  BY <1>3, <1>5
<1>7. (m + k) * S <= P * k
  <2>1. (m + k) * S = m * S + k * S /\ m * S \in Int
    BY <1>3
  <2> QED BY <1>3, <2>1
<1>8. (m + k) * T <= Q * k
  <2> DEFINE x == m + k
  <2>1. x \in Nat /\ x * S <= P * k
    BY <1>6, <1>7
  <2> HIDE DEF x
  <2>2. (x * T) * S <= (P * k) * T
    <3>1. x * S \in Nat /\ P * k \in Nat /\ T \in Nat
      BY <2>1, TimesNat
    <3>2. (x * S) * T <= (P * k) * T
      BY <2>1, <3>1, TimesMonotone
    <3>3. (x * S) * T = (x * T) * S
      BY <2>1
    <3> QED BY <3>2, <3>3
  <2>3. (P * T) * k <= (Q * S) * k
    <3>1. P * T \in Nat /\ Q * S \in Nat
      BY TimesNat
    <3> QED BY <3>1, TimesMonotone
  <2>4. (P * k) * T = (P * T) * k /\ (Q * S) * k = (Q * k) * S
    OBVIOUS
  <2>5. x * T \in Nat /\ Q * k \in Nat /\ (P * T) * k \in Nat /\ (x * T) * S \in Nat
        /\ (Q * k) * S \in Nat
    BY <2>1, TimesNat
  <2>6. (x * T) * S <= (Q * k) * S
    BY <2>2, <2>3, <2>4, <2>5
  <2> QED BY <2>5, <2>6, CancelsFactor DEF x
<1>9. m * T <= (Q - T) * k
  <2>1. (m + k) * T = m * T + k * T /\ m * T \in Int
    BY <1>3
  <2> QED BY <1>8, <2>1
<1> QED BY <1>1, <1>3, <1>4, <1>9

\* The basis of a fill that costs at most, and brings at least, so much for each grain is
\* at least the basis of these prices.
LEMMA BasisOfFill ==
    ASSUME NEW qty \in Nat, NEW cost \in Nat \ {0}, NEW proceeds \in Nat,
           NEW S \in Nat \ {0}, NEW P \in Nat, S <= qty * cost, P >= qty * proceeds
    PROVE  /\ Basis(proceeds, 1, cost, 1) \in Int /\ Basis(P, 1, S, 1) \in Int
           /\ Basis(proceeds, 1, cost, 1) <= Basis(P, 1, S, 1)
<1>1. qty * cost \in Nat /\ qty * proceeds \in Nat
  BY TimesNat
<1>2. proceeds * S <= proceeds * (qty * cost)
  BY <1>1, TimesMonotone
<1>3. (qty * proceeds) * cost <= P * cost
  BY <1>1, TimesMonotone
<1>4. proceeds * (qty * cost) = (qty * proceeds) * cost
  OBVIOUS
<1>5. proceeds * S \in Nat /\ P * cost \in Nat /\ (qty * proceeds) * cost \in Nat
  BY <1>1, TimesNat
<1>6. proceeds * S <= P * cost
  BY <1>2, <1>3, <1>4, <1>5
<1> QED BY <1>6, BasisMonotone

\* Neither does it lose more than its part of the stop.
LEMMA LossOfFill ==
    ASSUME NEW qty \in Nat \ {0}, NEW cost \in Nat, NEW proceeds \in Nat,
           NEW S \in Nat, NEW P \in Nat, S <= qty * cost, P >= qty * proceeds,
           NEW x \in Int,
           ((cost - x) - proceeds) * One < Stop * cost
    PROVE  ((S - qty * x) - P) * One < Stop * S
<1>1. One \in Nat /\ Stop \in Nat /\ One - Stop \in Nat
  BY SizingAssumption, PaperAssumption
<1> DEFINE r == One - Stop
<1>2. S * r <= (qty * cost) * r /\ (qty * cost) * r = qty * (cost * r)
  BY <1>1, TimesMonotone, TimesNat
<1>3. (qty * proceeds) * One <= P * One /\ (qty * proceeds) * One = qty * (proceeds * One)
  BY <1>1, TimesMonotone, TimesNat
<1>4. cost * r - x * One - proceeds * One < 0
  <2>1. cost * r = cost * One - Stop * cost
    BY <1>1
  <2>2. ((cost - x) - proceeds) * One = cost * One - x * One - proceeds * One
    BY <1>1
  <2>3. cost * One \in Int /\ Stop * cost \in Int /\ x * One \in Int /\ proceeds * One \in Int
    BY <1>1
  <2> QED BY <2>1, <2>2, <2>3
<1>5. qty * (cost * r) - qty * (x * One) - qty * (proceeds * One) < 0
  <2> DEFINE y == cost * r - x * One - proceeds * One
  <2>1. y \in Int /\ y < 0
    BY <1>1, <1>4
  <2>2. qty * y = qty * (cost * r) - qty * (x * One) - qty * (proceeds * One)
    BY <1>1
  <2> HIDE DEF y
  <2>3. qty * y < 0
    BY <2>1
  <2> QED BY <2>2, <2>3
<1>6. S * r - (qty * x) * One - P * One < 0
  <2>1. (qty * x) * One = qty * (x * One)
    BY <1>1
  <2>2. /\ S * r \in Int /\ qty * (cost * r) \in Int /\ qty * (x * One) \in Int
        /\ qty * (proceeds * One) \in Int /\ P * One \in Int
    BY <1>1
  <2> QED BY <1>2, <1>3, <1>5, <2>1, <2>2
<1>7. S * r = S * One - Stop * S /\ ((S - qty * x) - P) * One = S * One - (qty * x) * One - P * One
  BY <1>1
<1>8. S * One \in Int /\ Stop * S \in Int /\ (qty * x) * One \in Int /\ P * One \in Int
  BY <1>1
<1> QED BY <1>6, <1>7, <1>8

\* A quantity that the side can fill costs at least one for each grain, and no more, or no
\* less, than the price of some level for each.
LEMMA SpentAtLevel ==
    ASSUME NEW levels \in Seq(Level), NEW q \in Nat, 0 < q, q <= Depth(levels)
    PROVE  /\ q <= Spent(levels, q) /\ Spent(levels, q) \in Nat \ {0}
           /\ \E i \in DOMAIN levels :
                /\ levels[i].price \in Nat \ {0}
                /\ Rising(levels) => Spent(levels, q) <= levels[i].price * q
                /\ Falling(levels) => Spent(levels, q) >= levels[i].price * q
<1> DEFINE n == Len(levels)
           t == Takes(levels, q)
           s == Spends(levels, q)
<1>1. n \in Nat /\ n \in 0 .. n /\ DOMAIN levels = 1 .. n /\ Depth(levels) = Cum(levels, n)
      /\ Cum(levels, 0) = 0
  BY LevelTypes, CumSteps
<1>2. n \in 1 .. n /\ q <= Cum(levels, n)
  BY <1>1
<1>3. /\ levels[n].price \in Nat \ {0}
      /\ Rising(levels) => Spent(levels, q) <= levels[n].price * q
      /\ Falling(levels) => Spent(levels, q) >= levels[n].price * q
  BY <1>2, LevelTypes, SpentUpTo
<1>4. ASSUME NEW j \in 1 .. n PROVE t[j] \in Int /\ s[j] \in Int /\ t[j] <= s[j]
  <2>1. s[j] = t[j] * levels[j].price /\ t[j] \in Nat /\ s[j] \in Nat
    BY SpentTotal
  <2>2. levels[j].price \in Nat \ {0}
    BY LevelTypes
  <2> HIDE DEF s, t
  <2>3. t[j] * 1 <= t[j] * levels[j].price
    BY <2>1, <2>2, TimesMonotone
  <2> QED BY <2>1, <2>3
<1>5. /\ IsFiniteSet(1 .. n) /\ Spent(levels, q) = SumFunctionOnSet(s, 1 .. n)
      /\ Spent(levels, q) \in Nat /\ SumFunctionOnSet(t, 1 .. n) = q
  BY SpentTotal, TakenTotal
<1> HIDE DEF n, s, t
<1>6. SumFunctionOnSet(t, 1 .. n) <= SumFunctionOnSet(s, 1 .. n)
  BY <1>4, <1>5, SumLeq
<1>7. q <= Spent(levels, q) /\ Spent(levels, q) \in Nat \ {0}
  BY <1>5, <1>6
<1> QED BY <1>1, <1>2, <1>3, <1>7

\* The entry prices that a row would get: no worse than those of some ask and some bid.
LEMMA EntryPrices ==
    ASSUME TypeOK, NEW b \in Bases, Sized(b).qty > 0
    PROVE  /\ EntryRow(b).qty = Sized(b).qty /\ Sized(b).qty \in Nat \ {0}
           /\ EntryRow(b).spotCost \in Nat \ {0} /\ EntryRow(b).perpProceeds \in Nat
           /\ \E i \in DOMAIN market[b].spot.asks, j \in DOMAIN market[b].futures.bids :
                LET cost == market[b].spot.asks[i].price * (One + Slip)
                    proceeds == market[b].futures.bids[j].price * (One - Slip)
                IN /\ cost \in Nat \ {0} /\ proceeds \in Nat
                   /\ EntryRow(b).spotCost <= Sized(b).qty * cost
                   /\ EntryRow(b).perpProceeds >= Sized(b).qty * proceeds
<1> DEFINE asks == market[b].spot.asks
           bids == market[b].futures.bids
           q == Sized(b).qty
<1>1. asks \in Seq(Level) /\ bids \in Seq(Level) /\ Rising(asks) /\ Falling(bids)
  BY Quoted DEF IsBook
<1>2. q \in Nat /\ 0 < q /\ q <= Depth(asks) /\ q <= Depth(bids)
  BY SizedIs
<1>3. /\ EntryRow(b).qty = q
      /\ EntryRow(b).spotCost = Spent(asks, q) * (One + Slip)
      /\ EntryRow(b).perpProceeds = Spent(bids, q) * (One - Slip)
  BY DEF EntryRow, EntryOrder, Order, Filled, Side
<1>4. One + Slip \in Nat \ {0} /\ One - Slip \in Nat
  BY SizingAssumption, PaperAssumption
<1> HIDE DEF asks, bids, q
<1>5. Spent(asks, q) \in Nat \ {0} /\ Spent(bids, q) \in Nat \ {0}
  BY <1>1, <1>2, SpentAtLevel
<1>6. PICK i \in DOMAIN asks : asks[i].price \in Nat \ {0} /\ Spent(asks, q) <= asks[i].price * q
  BY <1>1, <1>2, SpentAtLevel
<1>7. PICK j \in DOMAIN bids : bids[j].price \in Nat \ {0} /\ Spent(bids, q) >= bids[j].price * q
  BY <1>1, <1>2, SpentAtLevel
<1> DEFINE cost == asks[i].price * (One + Slip)
           proceeds == bids[j].price * (One - Slip)
<1>8. cost \in Nat \ {0} /\ proceeds \in Nat
  BY <1>4, <1>6, <1>7, TimesPositive, TimesNat
<1>9. Spent(asks, q) * (One + Slip) <= q * cost
  <2>1. Spent(asks, q) * (One + Slip) <= (asks[i].price * q) * (One + Slip)
    BY <1>2, <1>4, <1>5, <1>6, TimesMonotone, TimesNat
  <2>2. (asks[i].price * q) * (One + Slip) = q * cost
    BY <1>2, <1>4, <1>6
  <2> QED BY <2>1, <2>2
<1>10. Spent(bids, q) * (One - Slip) >= q * proceeds
  <2>1. (bids[j].price * q) * (One - Slip) <= Spent(bids, q) * (One - Slip)
    BY <1>2, <1>4, <1>5, <1>7, TimesMonotone, TimesNat
  <2>2. (bids[j].price * q) * (One - Slip) = q * proceeds
    BY <1>2, <1>4, <1>7
  <2>3. /\ (bids[j].price * q) * (One - Slip) \in Int /\ Spent(bids, q) * (One - Slip) \in Int
    BY <1>2, <1>4, <1>5, <1>7
  <2> QED BY <2>1, <2>2, <2>3
<1>11. Spent(asks, q) * (One + Slip) \in Nat \ {0} /\ Spent(bids, q) * (One - Slip) \in Nat
  BY <1>4, <1>5, TimesPositive, TimesNat
<1>12. q \in Nat \ {0}
  BY <1>2
<1>13. /\ EntryRow(b).spotCost \in Nat \ {0} /\ EntryRow(b).perpProceeds \in Nat
       /\ EntryRow(b).spotCost <= q * cost /\ EntryRow(b).perpProceeds >= q * proceeds
  BY <1>3, <1>9, <1>10, <1>11
<1> QED BY <1>3, <1>8, <1>12, <1>13 DEF asks, bids, q

\* The numbers that the gate and the exit compare.
LEMMA RateTypes ==
    ASSUME TypeOK, NEW b \in Bases
    PROVE  /\ LiveBasis(b) \in Int /\ RoundTripFees \in Int /\ market[b].funding \in Int
           /\ Sized(b).qty > 0 => ForecastBasis(b) \in Int
<1>1. market[b].spot.mid \in Nat \ {0} /\ market[b].futures.mid \in Nat \ {0}
  BY Quoted DEF IsBook
<1>2. LiveBasis(b) \in Int
  <2> DEFINE x == market[b].spot.mid
             y == market[b].futures.mid
  <2>1. (y * 1 - x * 1) * 10000 \in Int /\ x * 1 \in Nat \ {0}
    BY <1>1
  <2>2. LiveBasis(b) = ((y * 1 - x * 1) * 10000) \div (x * 1)
    BY DEF LiveBasis, Basis
  <2> QED BY <2>1, <2>2, DividedInt
<1>3. RoundTripFees \in Int
  <2>1. (4 * Fee * 10000) \in Int /\ One \in Nat \ {0}
    BY SizingAssumption, PaperAssumption
  <2> QED BY <2>1, DividedInt DEF RoundTripFees
<1>4. market[b].funding \in Int
  BY PaperAssumption DEF TypeOK
<1>5. ASSUME Sized(b).qty > 0 PROVE ForecastBasis(b) \in Int
  <2> DEFINE asks == market[b].spot.asks
             bids == market[b].futures.bids
             s == Sized(b).spot
             p == Sized(b).perp
             B == Spent(bids, p)
             A == Spent(asks, s)
  <2>1. asks \in Seq(Level) /\ bids \in Seq(Level)
    BY Quoted DEF IsBook
  <2>2. s \in Nat /\ 0 < s /\ p \in Nat /\ 0 < p /\ s <= Depth(asks) /\ p <= Depth(bids)
    BY <1>5, SizedIs
  <2>3. ForecastBasis(b) = ((B * s - A * p) * 10000) \div (A * p)
    BY DEF ForecastBasis, Basis
  <2> HIDE DEF asks, bids, s, p
  <2>4. A \in Nat \ {0} /\ B \in Nat
    BY <2>1, <2>2, SpentAtLevel, SpentTotal
  <2> HIDE DEF A, B
  <2>5. A * p \in Nat \ {0} /\ (B * s - A * p) * 10000 \in Int
    BY <2>2, <2>4, TimesPositive
  <2> QED BY <2>3, <2>5, DividedInt
<1> QED BY <1>2, <1>3, <1>4, <1>5

\* A side whose levels are all beyond the mid price costs, or brings, no better than it.
LEMMA SpentBeside ==
    ASSUME NEW levels \in Seq(Level), NEW q \in Nat, q <= Depth(levels), NEW mid \in Nat
    PROVE  /\ (\A i \in DOMAIN levels : mid <= levels[i].price) => Spent(levels, q) >= mid * q
           /\ (\A i \in DOMAIN levels : levels[i].price <= mid) => Spent(levels, q) <= mid * q
<1> DEFINE n == Len(levels)
           t == Takes(levels, q)
           s == Spends(levels, q)
<1>1. n \in Nat /\ DOMAIN levels = 1 .. n
  BY LevelTypes
<1>2. ASSUME NEW j \in 1 .. n
      PROVE  /\ s[j] \in Int /\ t[j] \in Int
             /\ mid <= levels[j].price => s[j] >= mid * t[j]
             /\ levels[j].price <= mid => s[j] <= mid * t[j]
  <2>1. s[j] = t[j] * levels[j].price /\ t[j] \in Nat /\ s[j] \in Nat /\ levels[j].price \in Nat
    BY SpentTotal, LevelTypes
  <2> HIDE DEF s, t
  <2>2. /\ mid <= levels[j].price => mid * t[j] <= levels[j].price * t[j]
        /\ levels[j].price <= mid => levels[j].price * t[j] <= mid * t[j]
    BY <2>1, TimesMonotone
  <2>3. levels[j].price * t[j] = t[j] * levels[j].price /\ mid * t[j] \in Nat
    BY <2>1
  <2> QED BY <2>1, <2>2, <2>3
<1>3. IsFiniteSet(1 .. n) /\ Spent(levels, q) = SumFunctionOnSet(s, 1 .. n)
  BY SpentTotal
<1>4. SumFunctionOnSet(t, 1 .. n) = q
  BY TakenTotal
<1> HIDE DEF s, t, n
<1>5. ASSUME \A i \in DOMAIN levels : mid <= levels[i].price PROVE Spent(levels, q) >= mid * q
  <2>1. \A j \in 1 .. n : s[j] \in Int /\ t[j] \in Int /\ s[j] >= mid * t[j]
    BY <1>1, <1>2, <1>5
  <2>2. SumFunctionOnSet(s, 1 .. n) >= mid * SumFunctionOnSet(t, 1 .. n)
    <3>1. mid \in Int
      OBVIOUS
    <3> QED BY <1>3, <2>1, <3>1, SumScaledBelow
  <2> QED BY <1>3, <1>4, <2>2
<1>6. ASSUME \A i \in DOMAIN levels : levels[i].price <= mid PROVE Spent(levels, q) <= mid * q
  <2>1. \A j \in 1 .. n : s[j] \in Int /\ t[j] \in Int /\ s[j] <= mid * t[j]
    BY <1>1, <1>2, <1>6
  <2>2. SumFunctionOnSet(s, 1 .. n) <= mid * SumFunctionOnSet(t, 1 .. n)
    <3>1. mid \in Int
      OBVIOUS
    <3> QED BY <1>3, <2>1, <3>1, SumScaled
  <2> QED BY <1>3, <1>4, <2>2
<1> QED BY <1>5, <1>6

\* Bounds of two products, multiplied crosswise.
LEMMA CrossBelow ==
    ASSUME NEW bid \in Nat, NEW ask \in Nat, NEW s \in Nat, NEW p \in Nat, NEW x \in Nat, NEW y \in Nat,
           x <= (ask * s) * p, (bid * p) * s <= y
    PROVE  bid * x <= y * ask
<1>1. ask * s \in Nat /\ (ask * s) * p \in Nat /\ bid * p \in Nat /\ (bid * p) * s \in Nat
  BY TimesNat
<1>2. bid * x <= bid * ((ask * s) * p) /\ ((bid * p) * s) * ask <= y * ask
  BY <1>1, TimesMonotone
<1>3. bid * ((ask * s) * p) = ((bid * p) * s) * ask
  OBVIOUS
<1>4. bid * x \in Nat /\ y * ask \in Nat /\ ((bid * p) * s) * ask \in Nat
  BY <1>1, TimesNat
<1> QED BY <1>2, <1>3, <1>4

\* The same from the other side.
LEMMA CrossAbove ==
    ASSUME NEW m \in Nat, NEW n \in Nat, NEW s \in Nat, NEW p \in Nat, NEW x \in Nat, NEW y \in Nat,
           (m * s) * p <= x, y <= (n * p) * s
    PROVE  y * m <= n * x
<1>1. m * s \in Nat /\ (m * s) * p \in Nat /\ n * p \in Nat /\ (n * p) * s \in Nat
  BY TimesNat
<1>2. n * ((m * s) * p) <= n * x /\ y * m <= ((n * p) * s) * m
  BY <1>1, TimesMonotone
<1>3. n * ((m * s) * p) = ((n * p) * s) * m
  OBVIOUS
<1>4. n * x \in Nat /\ y * m \in Nat /\ ((n * p) * s) * m \in Nat
  BY <1>1, TimesNat
<1> QED BY <1>2, <1>3, <1>4

\* The basis that the gate forecasts lies between that of some ask and some bid and that of
\* the mid prices.
LEMMA ForecastIs ==
    ASSUME TypeOK, NEW b \in Bases, Sized(b).qty > 0
    PROVE  \E i \in DOMAIN market[b].spot.asks, j \in DOMAIN market[b].futures.bids :
              LET least == Basis(market[b].futures.bids[j].price, 1, market[b].spot.asks[i].price, 1)
              IN least \in Int /\ least <= ForecastBasis(b) /\ ForecastBasis(b) <= LiveBasis(b)
<1> DEFINE asks == market[b].spot.asks
           bids == market[b].futures.bids
           m == market[b].spot.mid
           n == market[b].futures.mid
           s == Sized(b).spot
           p == Sized(b).perp
           A == Spent(asks, s)
           B == Spent(bids, p)
<1>1. /\ asks \in Seq(Level) /\ bids \in Seq(Level) /\ Rising(asks) /\ Falling(bids)
      /\ m \in Nat \ {0} /\ n \in Nat \ {0}
      /\ \A i \in DOMAIN asks : m <= asks[i].price
      /\ \A j \in DOMAIN bids : bids[j].price <= n
  BY Quoted DEF IsBook
<1>2. s \in Nat /\ 0 < s /\ p \in Nat /\ 0 < p /\ s <= Depth(asks) /\ p <= Depth(bids)
  BY SizedIs
<1>3. ForecastBasis(b) = ((B * s - A * p) * 10000) \div (A * p)
  BY DEF ForecastBasis, Basis
<1>4. LiveBasis(b) = Basis(n, 1, m, 1)
  BY DEF LiveBasis
<1> HIDE DEF asks, bids, m, n, s, p
<1>5. A \in Nat \ {0} /\ B \in Nat /\ A >= m * s /\ B <= n * p
  <2>1. m \in Nat /\ n \in Nat
    BY <1>1
  <2> QED BY <1>1, <1>2, <2>1, SpentAtLevel, SpentTotal, SpentBeside
<1>6. PICK i \in DOMAIN asks : asks[i].price \in Nat \ {0} /\ A <= asks[i].price * s
  BY <1>1, <1>2, SpentAtLevel
<1>7. PICK j \in DOMAIN bids : bids[j].price \in Nat \ {0} /\ B >= bids[j].price * p
  BY <1>1, <1>2, SpentAtLevel
<1> HIDE DEF A, B
<1>8. A * p \in Nat \ {0} /\ B * s \in Nat
  BY <1>2, <1>5, TimesPositive, TimesNat
<1>9. ForecastBasis(b) = Basis(B * s, 1, A * p, 1)
  <2> DEFINE x == B * s
             y == A * p
  <2>1. x \in Nat /\ y \in Nat \ {0} /\ ForecastBasis(b) = ((x - y) * 10000) \div y
    BY <1>3, <1>8
  <2> HIDE DEF x, y
  <2>2. ForecastBasis(b) = Basis(x, 1, y, 1)
    BY <2>1 DEF Basis
  <2> QED BY <2>2 DEF x, y
<1> DEFINE bid == bids[j].price
           ask == asks[i].price
<1>10. bid \in Nat /\ ask \in Nat \ {0} /\ A <= ask * s /\ B >= bid * p
  BY <1>6, <1>7
<1> HIDE DEF bid, ask
<1>11. bid * (A * p) <= (B * s) * ask
  <2>1. A * p <= (ask * s) * p /\ (bid * p) * s <= B * s
    BY <1>2, <1>5, <1>10, TimesMonotone, TimesNat
  <2> QED BY <1>2, <1>8, <1>10, <2>1, CrossBelow
<1>12. (B * s) * m <= n * (A * p)
  <2>1. (m * s) * p <= A * p /\ B * s <= (n * p) * s
    BY <1>1, <1>2, <1>5, TimesMonotone, TimesNat
  <2> QED BY <1>1, <1>2, <1>8, <2>1, CrossAbove
<1>13. Basis(bid, 1, ask, 1) \in Int /\ Basis(bid, 1, ask, 1) <= ForecastBasis(b)
  BY <1>8, <1>9, <1>10, <1>11, BasisMonotone
<1>14. ForecastBasis(b) <= LiveBasis(b)
  BY <1>1, <1>4, <1>8, <1>9, <1>12, BasisMonotone
<1> QED BY <1>13, <1>14 DEF bid, ask, asks, bids

\* A pair that passes the gate is not one that the exit finds unprofitable.
LEMMA GateImpliesHold ==
    ASSUME ThresholdsApart, TypeOK, NEW b \in Bases, WorthIt(b)
    PROVE  ~Unprofitable(b)
<1>1. Sized(b).qty > 0 /\ NetPerWindow(market[b].funding, ForecastBasis(b), Multiple, RoundTripFees) >= EntryNet
  BY DEF WorthIt
<1>2. EntryNet \in Int /\ ExitNet \in Int /\ Multiple \in Nat
  BY DEF ThresholdsApart
<1>3. /\ LiveBasis(b) \in Int /\ RoundTripFees \in Int /\ market[b].funding \in Int
      /\ ForecastBasis(b) \in Int
  BY <1>1, RateTypes
<1>4. PICK i \in DOMAIN market[b].spot.asks, j \in DOMAIN market[b].futures.bids :
        LET least == Basis(market[b].futures.bids[j].price, 1, market[b].spot.asks[i].price, 1)
        IN least \in Int /\ least <= ForecastBasis(b) /\ ForecastBasis(b) <= LiveBasis(b)
  BY <1>1, ForecastIs
<1> DEFINE least == Basis(market[b].futures.bids[j].price, 1, market[b].spot.asks[i].price, 1)
<1>5. least \in Int /\ least <= ForecastBasis(b) /\ ForecastBasis(b) <= LiveBasis(b)
  BY <1>4
<1>6. Multiple * (LiveBasis(b) - least) <= EntryNet - ExitNet
  <2> DEFINE quote == market[b]
  <2>1. quote \in Quotes /\ i \in DOMAIN quote.spot.asks /\ j \in DOMAIN quote.futures.bids
    BY DEF TypeOK
  <2>2. \A q \in Quotes : \A k \in DOMAIN q.spot.asks, l \in DOMAIN q.futures.bids :
          Multiple * (Basis(q.futures.mid, 1, q.spot.mid, 1)
                        - Basis(q.futures.bids[l].price, 1, q.spot.asks[k].price, 1)) <= EntryNet - ExitNet
    BY DEF ThresholdsApart
  <2> QED BY <2>1, <2>2 DEF LiveBasis
<1> HIDE DEF least
<1> DEFINE l == Magnitude(LiveBasis(b))
           f == Magnitude(ForecastBasis(b))
<1>7. l \in Int /\ f \in Int /\ l - f <= LiveBasis(b) - least
  BY <1>3, <1>5 DEF Magnitude
<1>8. NetPerWindow(market[b].funding, ForecastBasis(b), Multiple, RoundTripFees)
        = market[b].funding - Multiple * f - RoundTripFees
      /\ NetPerWindow(market[b].funding, LiveBasis(b), Multiple, RoundTripFees)
        = market[b].funding - Multiple * l - RoundTripFees
  BY DEF NetPerWindow
<1> HIDE DEF l, f
<1>9. Multiple * (l - f) <= Multiple * (LiveBasis(b) - least)
  BY <1>2, <1>3, <1>5, <1>7, TimesMonotone
<1>10. /\ Multiple * (l - f) = Multiple * l - Multiple * f
       /\ Multiple * l \in Int /\ Multiple * f \in Int /\ Multiple * (LiveBasis(b) - least) \in Int
  BY <1>2, <1>3, <1>5, <1>7
<1>11. market[b].funding - Multiple * l - RoundTripFees >= ExitNet
  BY <1>1, <1>2, <1>3, <1>6, <1>8, <1>9, <1>10
<1> QED BY <1>2, <1>3, <1>8, <1>10, <1>11 DEF Unprofitable

\* A position just opened is neither at its stop nor dislocated.
LEMMA EntryIsInside ==
    ASSUME ThresholdsApart, TypeOK, NEW b \in Bases, Sized(b).qty > 0
    PROVE  ~StopLoss(EntryRow(b), b) /\ ~Dislocated(EntryRow(b), b)
<1> DEFINE q == Sized(b).qty
           S == EntryRow(b).spotCost
           P == EntryRow(b).perpProceeds
           m == market[b].spot.mid
           n == market[b].futures.mid
<1>1. EntryRow(b).qty = q /\ q \in Nat \ {0} /\ S \in Nat \ {0} /\ P \in Nat
  BY EntryPrices
<1>2. PICK i \in DOMAIN market[b].spot.asks, j \in DOMAIN market[b].futures.bids :
        LET cost == market[b].spot.asks[i].price * (One + Slip)
            proceeds == market[b].futures.bids[j].price * (One - Slip)
        IN /\ cost \in Nat \ {0} /\ proceeds \in Nat
           /\ S <= q * cost /\ P >= q * proceeds
  BY EntryPrices
<1> DEFINE cost == market[b].spot.asks[i].price * (One + Slip)
           proceeds == market[b].futures.bids[j].price * (One - Slip)
<1>3. cost \in Nat \ {0} /\ proceeds \in Nat /\ S <= q * cost /\ P >= q * proceeds
  BY <1>2
<1>4. m \in Nat \ {0} /\ n \in Nat \ {0} /\ One \in Nat /\ Stop \in Nat /\ market[b] \in Quotes
  BY Quoted, SizingAssumption, PaperAssumption DEF IsBook, TypeOK
<1>5. /\ ((cost - One * m) + (One * n - proceeds)) * One < Stop * cost
      /\ Basis(n, 1, m, 1) - Basis(proceeds, 1, cost, 1) <= Dislocation
      /\ Dislocation \in Int
  <2> DEFINE quote == market[b]
  <2>1. quote \in Quotes /\ i \in DOMAIN quote.spot.asks /\ j \in DOMAIN quote.futures.bids
    BY <1>4
  <2>2. \A q1 \in Quotes : \A i1 \in DOMAIN q1.spot.asks, j1 \in DOMAIN q1.futures.bids :
          LET c == q1.spot.asks[i1].price * (One + Slip)
              r == q1.futures.bids[j1].price * (One - Slip)
          IN /\ ((c - One * q1.spot.mid) + (One * q1.futures.mid - r)) * One < Stop * c
             /\ Basis(q1.futures.mid, 1, q1.spot.mid, 1) - Basis(r, 1, c, 1) <= Dislocation
    BY DEF ThresholdsApart
  <2> QED BY <2>1, <2>2 DEF ThresholdsApart
<1>6. LiveBasis(b) = Basis(n, 1, m, 1) /\ LiveBasis(b) \in Int
  BY RateTypes DEF LiveBasis
<1>7. ~Dislocated(EntryRow(b), b)
  <2> HIDE DEF S, P, q, cost, proceeds
  <2>1. /\ Basis(proceeds, 1, cost, 1) \in Int /\ Basis(P, 1, S, 1) \in Int
        /\ Basis(proceeds, 1, cost, 1) <= Basis(P, 1, S, 1)
    BY <1>1, <1>3, BasisOfFill
  <2>2. ~(LiveBasis(b) - Basis(P, 1, S, 1) > Dislocation)
    BY <1>5, <1>6, <2>1
  <2> QED BY <2>2 DEF Dislocated, S, P
<1>8. ~StopLoss(EntryRow(b), b)
  <2> DEFINE x == One * m - One * n
  <2> HIDE DEF S, P, q, cost, proceeds, m, n
  <2>1. x \in Int /\ One * m \in Int /\ One * n \in Int
    BY <1>4
  <2>2. ((cost - x) - proceeds) * One < Stop * cost
    <3>1. (cost - x) - proceeds = (cost - One * m) + (One * n - proceeds)
      BY <1>3, <2>1
    <3> QED BY <1>5, <3>1
  <2>3. ((S - q * x) - P) * One < Stop * S
    <3> HIDE DEF x
    <3> QED BY <1>1, <1>3, <2>1, <2>2, LossOfFill
  <2>4. (q * One * m - S) + (P - q * One * n) = -((S - q * x) - P)
    <3>1. q * x = q * One * m - q * One * n /\ q * One * m \in Int /\ q * One * n \in Int
      BY <1>1, <1>4
    <3> HIDE DEF x
    <3> QED BY <1>1, <3>1
  <2> DEFINE y == (S - q * x) - P
  <2>5. y \in Int /\ y * One \in Int /\ Stop * S \in Int
    BY <1>1, <1>4, <2>1
  <2> HIDE DEF y
  <2>6. ~((-y) * One <= -(Stop * S))
    <3>1. (-y) * One = -(y * One)
      BY <1>4, <2>5
    <3>2. y * One < Stop * S
      BY <2>3 DEF y
    <3> QED BY <2>5, <3>1, <3>2
  <2>7. -Stop * S = -(Stop * S)
    BY <1>1, <1>4
  <2>8. StopLoss(EntryRow(b), b) <=> ((q * One * m - S) + (P - q * One * n)) * One <= -Stop * S
    BY <1>1 DEF StopLoss, S, P, m, n
  <2> QED BY <2>4, <2>6, <2>7, <2>8 DEF y
<1> QED BY <1>7, <1>8

\* NoChurn: when the thresholds are further apart than the spreads of the books can take
\* the basis of the fills from that of the mid prices, a pair that passes the gate would not
\* be closed by the next cycle if the market stood still.
THEOREM NoChurning == ASSUME ThresholdsApart PROVE Spec => []NoChurn
<1>1. ASSUME TypeOK PROVE NoChurn
  <2> SUFFICES ASSUME NEW b \in Bases \ Held, WorthIt(b)
               PROVE  ~Exits(EntryRow(b), b)
    BY DEF NoChurn
  <2>1. Sized(b).qty > 0
    BY DEF WorthIt
  <2>2. ~Unprofitable(b)
    BY <1>1, GateImpliesHold
  <2>3. ~StopLoss(EntryRow(b), b) /\ ~Dislocated(EntryRow(b), b)
    BY <1>1, <2>1, EntryIsInside
  <2> QED BY <2>2, <2>3 DEF Exits
<1> QED BY <1>1, Invariance, PTL DEF WorkerInv

-----------------------------------------------------------------------------
(* The futures wallet is never cut off at zero. *)

\* It agrees with the ledger.
SameFutures(g) == g.wallet.futures = g.ledger.futures

\* It has what buying so much of a perp back costs, at any ask of any quote.
BuysBack(money, qty) ==
    \A q \in Quotes : \A j \in DOMAIN q.futures.asks :
      qty * (q.futures.asks[j].price * (One + Slip) * (One + Fee)) <= money

\* The invariant: one position at most, whose perp the wallet can buy back until it has.
Solvent ==
    /\ SameFutures(gateway)
    /\ \A b, c \in Held : b = c
    /\ \A b \in Held : <<b, "futures">> \notin gateway.seen => BuysBack(gateway.wallet.futures, rows[b].qty)

\* An order of the spot leg leaves the futures wallet alone; a sale of a perp adds to it; a
\* buy that it pays takes from it.  Nothing is cut off.
LEMMA FuturesAfter ==
    ASSUME TypeOK, NEW g \in Gateways, NEW o \in Orders
    PROVE  /\ o.leg = "spot" \/ ~Accepts(g, o) =>
                /\ Place(g, o).wallet.futures = g.wallet.futures
                /\ SameFutures(g) => SameFutures(Place(g, o))
           /\ o.leg = "futures" /\ o.side = "sell" /\ Accepts(g, o) =>
                /\ Place(g, o).wallet.futures = g.wallet.futures + Filled(o) * (One - Fee)
                /\ SameFutures(g) => SameFutures(Place(g, o))
           /\ o.leg = "futures" /\ o.side = "buy" /\ Accepts(g, o)
              /\ Filled(o) * (One + Fee) <= g.wallet.futures =>
                /\ SameFutures(g) => SameFutures(Place(g, o))
<1> DEFINE w == g.wallet
           l == g.ledger
           d == IF o.leg = "futures" THEN Debit(o) ELSE 0
<1>1. /\ w \in Wallets(Int) /\ l \in Wallets(Int) /\ w.futures \in Nat /\ l.futures \in Int
  BY DEF Gateways, Wallets
<1>2. Filled(o) * (One + Fee) \in Nat /\ Filled(o) * (One - Fee) \in Nat
  BY FilledTypes
<1>3. /\ o.leg = "spot" => d = 0
      /\ o.leg = "futures" /\ o.side = "sell" => d = -(Filled(o) * (One - Fee))
      /\ o.leg = "futures" /\ o.side = "buy" => d = Filled(o) * (One + Fee)
  BY DEF Debit
<1>4. Settle(w, o).futures = w.futures - d /\ Settle(l, o).futures = l.futures - d
  BY <1>1, SettleIs
<1>5. ~Accepts(g, o) => Place(g, o).wallet = w /\ Place(g, o).ledger = l
  BY DEF Place
<1>6. Accepts(g, o) => /\ Place(g, o).wallet.futures = NonNegative(w.futures - d)
                       /\ Place(g, o).ledger.futures = l.futures - d
  BY <1>4 DEF Place, Clamped
<1>7. SameFutures(g) <=> w.futures = l.futures
  BY DEF SameFutures
<1>8. SameFutures(Place(g, o)) <=> Place(g, o).wallet.futures = Place(g, o).ledger.futures
  BY DEF SameFutures
<1> HIDE DEF w, l, d
<1>9. \A n \in Int : n >= 0 => NonNegative(n) = n
  BY DEF NonNegative
<1>10. CASE ~Accepts(g, o)
  BY <1>5, <1>7, <1>8, <1>10 DEF w
<1>11. CASE Accepts(g, o)
  <2>1. CASE o.leg = "spot"
    <3>1. d = 0 /\ w.futures - d = w.futures
      BY <1>1, <1>3, <2>1
    <3>2. l.futures - d = l.futures
      BY <1>1, <3>1
    <3> QED BY <1>1, <1>6, <1>7, <1>8, <1>9, <1>11, <2>1, <3>1, <3>2 DEF w
  <2>2. CASE o.leg = "futures" /\ o.side = "sell"
    <3>1. w.futures - d = w.futures + Filled(o) * (One - Fee) /\ w.futures - d \in Nat
      BY <1>1, <1>2, <1>3, <2>2
    <3>2. NonNegative(w.futures - d) = w.futures - d
      BY <1>9, <3>1
    <3> QED BY <1>6, <1>7, <1>8, <1>11, <2>2, <3>1, <3>2 DEF w
  <2>3. CASE o.leg = "futures" /\ o.side = "buy"
    <3>1. Filled(o) * (One + Fee) <= w.futures => NonNegative(w.futures - d) = w.futures - d
      BY <1>1, <1>2, <1>3, <1>9, <2>3
    <3> QED BY <1>6, <1>7, <1>8, <1>11, <2>3, <3>1 DEF w
  <2> QED BY <1>11, <2>1, <2>2, <2>3 DEF Orders, Legs
<1> QED BY <1>10, <1>11

\* The perp of a size is one that the wallet, levered, funds at the mark price.
LEMMA SizedMargin ==
    ASSUME TypeOK, NEW b \in Bases
    PROVE  Sized(b).qty * (Cube * market[b].futures.mid) <= (gateway.wallet.futures * Leverage) * Safety
<1> DEFINE m == market[b].futures.mid
           money == gateway.wallet.futures * Leverage
           f == Fundable(money, m)
           q == Sized(b).qty
           p == Sized(b).perp
<1>1. m \in Nat \ {0} /\ Depth(market[b].futures.bids) \in Nat
  BY Quoted, BookTypes
<1>2. gateway.wallet.futures \in Nat /\ Leverage \in Nat /\ Safety \in Nat
  BY SizingAssumption DEF TypeOK
<1>3. money \in Nat
  BY <1>2, TimesNat
<1>4. q \in Nat /\ p \in Nat /\ q <= p
  BY SizedIs
<1>5. p = Least(Depth(market[b].futures.bids), f)
  BY DEF Sized, SizeEntry, PerpBinding
<1> HIDE DEF money, m, q, p, f
<1>6. f \in Nat /\ f * (Cube * m) <= money * Safety
  BY <1>1, <1>3, FundableIs DEF f
<1>7. q <= f
  BY <1>1, <1>4, <1>5, <1>6 DEF Least
<1>8. Cube * m \in Nat
  BY <1>1, CubeTypes
<1>9. q * (Cube * m) <= f * (Cube * m)
  BY <1>4, <1>6, <1>7, <1>8, TimesMonotone
<1>10. q * (Cube * m) \in Nat /\ f * (Cube * m) \in Nat /\ money * Safety \in Nat
  BY <1>2, <1>3, <1>4, <1>6, <1>8, TimesNat
<1> QED BY <1>6, <1>9, <1>10 DEF q, m, money

\* A positive factor cancels, whatever the signs of the rest.
LEMMA CancelsInt ==
    ASSUME NEW a \in Int, NEW b \in Int, NEW c \in Nat \ {0}, a * c <= b * c
    PROVE  a <= b
<1> SUFFICES ASSUME b + 1 <= a PROVE FALSE
  OBVIOUS
<1>1. (b + 1) * c <= a * c
  BY TimesMonotone
<1>2. (b + 1) * c = b * c + c /\ b * c \in Int /\ a * c \in Int
  OBVIOUS
<1> QED BY <1>1, <1>2

\* When the margin covers each grain, it covers the position.
LEMMA MarginOfPosition ==
    ASSUME NEW q \in Nat, 0 < q, NEW m \in Nat \ {0}, NEW money \in Nat,
           NEW cost \in Nat, NEW proceeds \in Nat,
           q * (Cube * m) <= (money * Leverage) * Safety,
           (cost - proceeds) * (Safety * Leverage) <= m * Cube
    PROVE  q * cost <= money + q * proceeds
<1> DEFINE k == Safety * Leverage
           d == cost - proceeds
<1>1. Safety \in Nat /\ Leverage \in Nat \ {0} /\ Cube \in Nat \ {0} /\ k \in Nat
  BY SizingAssumption, CubeTypes, TimesNat
<1>2. (money * Leverage) * Safety = money * k
  BY <1>1
<1>3. q * (Cube * m) \in Nat \ {0}
  BY <1>1, TimesPositive
<1>4. money * k \in Nat /\ q * (Cube * m) <= money * k
  BY <1>1, <1>2, TimesNat
<1> HIDE DEF k
<1>5. k # 0
  BY <1>1, <1>3, <1>4
<1>6. d \in Int /\ d * k <= m * Cube
  BY DEF k
<1> HIDE DEF d
<1>7. q * (d * k) <= q * (m * Cube)
  <2>1. d * k \in Int /\ m * Cube \in Int
    BY <1>1, <1>6
  <2> QED BY <1>6, <2>1, TimesMonotone
<1>8. q * (m * Cube) = q * (Cube * m) /\ q * (d * k) = (q * d) * k /\ q * d \in Int /\ (q * d) * k \in Int
  BY <1>1, <1>6
<1>9. (q * d) * k <= money * k
  BY <1>3, <1>4, <1>7, <1>8
<1>10. q * d <= money
  BY <1>1, <1>5, <1>8, <1>9, CancelsInt
<1>11. q * d = q * cost - q * proceeds /\ q * cost \in Int /\ q * proceeds \in Int
  BY DEF d
<1> QED BY <1>10, <1>11

\* When there is at most one position and not one, there is none.
LEMMA FewerThanOne ==
    ASSUME \A b, c \in Held : b = c, Cardinality(Held) < 1
    PROVE  Held = {}
<1> SUFFICES ASSUME NEW b \in Held PROVE FALSE
  OBVIOUS
<1>1. Held = {b}
  OBVIOUS
<1>2. Cardinality({b}) = 1
  BY FS_Singleton
<1> QED BY <1>1, <1>2

\* What an entry brings covers buying its perp back, with the margin.
LEMMA EntryCovered ==
    ASSUME MarginCovers, TypeOK, NEW b \in Bases, Sized(b).qty > 0
    PROVE  LET sell == EntryOrder(b, "futures", "sell")
           IN BuysBack(gateway.wallet.futures + Filled(sell) * (One - Fee), Sized(b).qty)
<1> DEFINE qty == Sized(b).qty
           bids == market[b].futures.bids
           money == gateway.wallet.futures
           m == market[b].futures.mid
           P == Filled(EntryOrder(b, "futures", "sell"))
<1>1. bids \in Seq(Level) /\ Falling(bids) /\ m \in Nat \ {0} /\ money \in Nat /\ market[b] \in Quotes
  BY Quoted DEF IsBook, TypeOK
<1>2. qty \in Nat /\ 0 < qty /\ qty <= Depth(bids)
  BY SizedIs
<1>3. P = Spent(bids, qty) * (One - Slip)
  BY DEF EntryOrder, Order, Filled, Side
<1>4. PICK i \in DOMAIN bids : bids[i].price \in Nat \ {0} /\ Spent(bids, qty) >= bids[i].price * qty
  <2> HIDE DEF bids, qty
  <2> QED BY <1>1, <1>2, SpentAtLevel
<1>5. qty * (Cube * m) <= (money * Leverage) * Safety
  BY SizedMargin
<1> SUFFICES ASSUME NEW q \in Quotes, NEW j \in DOMAIN q.futures.asks
             PROVE  qty * (q.futures.asks[j].price * (One + Slip) * (One + Fee)) <= money + P * (One - Fee)
  BY DEF BuysBack
<1> DEFINE proceeds == bids[i].price * (One - Slip) * (One - Fee)
           cost == q.futures.asks[j].price * (One + Slip) * (One + Fee)
<1>6. (cost - proceeds) * (Safety * Leverage) <= m * (One * One * One)
  BY <1>1 DEF MarginCovers
<1>7. q.futures.asks[j].price \in Nat
  <2>1. q.futures.asks \in Seq(Level)
    BY PaperAssumption DEF IsBook
  <2> DEFINE asks == q.futures.asks
  <2> HIDE DEF asks
  <2>2. asks \in Seq(Level) /\ j \in DOMAIN asks
    BY <2>1 DEF asks
  <2>3. asks[j].price \in Nat
    BY <2>2, LevelTypes
  <2> QED BY <2>3 DEF asks
<1>8. One + Slip \in Nat /\ One + Fee \in Nat /\ One - Slip \in Nat /\ One - Fee \in Nat
  BY SizingAssumption, PaperAssumption
<1>9. cost \in Nat /\ proceeds \in Nat
  BY <1>4, <1>7, <1>8, TimesNat
<1> HIDE DEF cost, qty, bids, money, m, P
<1>10. Spent(bids, qty) \in Nat
  BY <1>1, <1>2, SpentTotal
<1>11. qty * proceeds <= P * (One - Fee)
  <2>1. (bids[i].price * qty) * (One - Slip) <= P
    BY <1>2, <1>3, <1>4, <1>8, <1>10, TimesMonotone, TimesNat
  <2>2. (bids[i].price * qty) * (One - Slip) \in Nat /\ P \in Nat
    BY <1>2, <1>3, <1>4, <1>8, <1>10, TimesNat
  <2>3. ((bids[i].price * qty) * (One - Slip)) * (One - Fee) <= P * (One - Fee)
    BY <1>8, <2>1, <2>2, TimesMonotone
  <2>4. ((bids[i].price * qty) * (One - Slip)) * (One - Fee) = qty * proceeds
    BY <1>2, <1>4, <1>8
  <2> QED BY <2>3, <2>4
<1>12. P * (One - Fee) \in Nat
  BY <1>3, <1>8, <1>10, TimesNat
<1> HIDE DEF proceeds
<1>13. qty * cost <= money + qty * proceeds
  BY <1>1, <1>2, <1>5, <1>6, <1>9, MarginOfPosition DEF Cube
<1>14. qty * cost \in Nat /\ qty * proceeds \in Nat
  BY <1>2, <1>9, TimesNat
<1>15. qty * cost <= money + P * (One - Fee)
  BY <1>1, <1>11, <1>12, <1>13, <1>14
<1> QED BY <1>15 DEF cost

\* An entry keeps the invariant.
LEMMA EnterSolvent ==
    ASSUME MarginCovers, TypeOK, Solvent, NEW b \in Bases, Enter(b)
    PROVE  Solvent'
<1> DEFINE buy == EntryOrder(b, "spot", "buy")
           sell == EntryOrder(b, "futures", "sell")
           bought == Place(gateway, buy)
<1>1. /\ Sized(b).qty > 0 /\ buy \in Orders /\ sell \in Orders
      /\ gateway \in Gateways /\ bought \in Gateways
      /\ gateway' = Place(bought, sell)
      /\ rows' = [rows EXCEPT ![b] = EntryRow(b)]
  BY EnterIs
<1>2. Held = {}
  <2>1. Cardinality(Held) < 1
    BY DEF Enter, MarginCovers
  <2> QED BY <2>1, FewerThanOne DEF Solvent
<1>3. rows \in [Bases -> Rows]
  BY TypeOKIs
<1>4. Held' \subseteq {b} /\ rows'[b].qty = Sized(b).qty
  <2>1. \A c \in Bases : c # b => rows'[c] = NoRow
    BY <1>1, <1>2, <1>3 DEF Held
  <2>2. rows'[b] = EntryRow(b)
    BY <1>1, <1>3
  <2> QED BY <2>1, <2>2 DEF Held, NoRow, EntryRow
<1>5. Accepts(bought, sell)
  BY <1>1, EntryAccepted
<1>6. buy.leg = "spot" /\ sell.leg = "futures" /\ sell.side = "sell"
  BY DEF EntryOrder, Order
<1>7. BuysBack(gateway.wallet.futures + Filled(sell) * (One - Fee), Sized(b).qty)
  BY <1>1, EntryCovered
<1> HIDE DEF buy, sell
<1>8. bought.wallet.futures = gateway.wallet.futures /\ SameFutures(bought)
  <2> DEFINE g == gateway
  <2>1. SameFutures(gateway)
    BY DEF Solvent
  <2> QED BY <1>1, <1>6, <2>1, FuturesAfter
<1> HIDE DEF bought
<1>9. /\ gateway'.wallet.futures = gateway.wallet.futures + Filled(sell) * (One - Fee)
      /\ SameFutures(gateway')
  BY <1>1, <1>5, <1>6, <1>8, FuturesAfter
<1>10. BuysBack(gateway'.wallet.futures, rows'[b].qty)
  BY <1>4, <1>7, <1>9
<1> QED BY <1>4, <1>9, <1>10 DEF Solvent, SameFutures, BuysBack

\* A close keeps it: a perp is bought back with the money that was there for it.
LEMMA CloseSolvent ==
    ASSUME TypeOK, Solvent, NEW b \in Bases, ClosePosition(b)
    PROVE  Solvent'
<1> DEFINE sell == Order(b, "spot", "sell", rows[b].qty, ExitId(b, "spot"))
           buy == Order(b, "futures", "buy", rows[b].qty, ExitId(b, "futures"))
           sold == Place(gateway, sell)
           qty == rows[b].qty
           asks == market[b].futures.asks
<1>1. /\ b \in Held
      /\ sell \in Orders /\ buy \in Orders /\ gateway \in Gateways /\ sold \in Gateways
      /\ gateway' = Place(sold, buy)
      /\ rows' = IF Accepts(gateway, sell) /\ Accepts(sold, buy)
                 THEN [rows EXCEPT ![b] = NoRow] ELSE rows
  BY CloseIs
<1>2. rows \in [Bases -> Rows] /\ qty \in Nat
  <2>1. rows \in [Bases -> Rows]
    BY TypeOKIs
  <2> QED BY <2>1 DEF Rows
<1>3. /\ sell.leg = "spot" /\ buy.leg = "futures" /\ buy.side = "buy"
      /\ sold.seen = gateway.seen \cup {<<b, "spot">>}
      /\ gateway'.seen = sold.seen \cup {<<b, "futures">>}
  BY <1>1 DEF Order, Place, ExitId
<1>4. \A c \in Held' : c = b /\ c \in Held
  <2>1. \A c \in Held : c = b
    BY <1>1 DEF Solvent
  <2>2. Held' \subseteq Held
    BY <1>1, <1>2 DEF Held, NoRow
  <2> QED BY <2>1, <2>2
<1>5. <<b, "futures">> \in gateway'.seen
  BY <1>3
<1>6. ASSUME Accepts(sold, buy)
      PROVE  Filled(buy) * (One + Fee) <= gateway.wallet.futures
  <2>1. <<b, "futures">> \notin gateway.seen
    BY <1>3, <1>6, SpentIdIsRefused
  <2>2. 0 < qty /\ qty <= Depth(asks) /\ Filled(buy) = Spent(asks, qty) * (One + Slip)
    BY <1>6 DEF Accepts, Order, Side, Filled
  <2>3. asks \in Seq(Level) /\ Rising(asks) /\ market[b] \in Quotes /\ gateway.wallet.futures \in Nat
    BY Quoted DEF IsBook, TypeOK
  <2>4. PICK j \in DOMAIN asks : asks[j].price \in Nat \ {0} /\ Spent(asks, qty) <= asks[j].price * qty
    <3> HIDE DEF asks, qty
    <3> QED BY <1>2, <2>2, <2>3, SpentAtLevel
  <2>5. qty * (asks[j].price * (One + Slip) * (One + Fee)) <= gateway.wallet.futures
    BY <1>1, <2>1, <2>3 DEF Solvent, BuysBack
  <2> HIDE DEF asks, qty, buy
  <2>6. One + Slip \in Nat /\ One + Fee \in Nat /\ Spent(asks, qty) \in Nat
    <3>1. Spent(asks, qty) \in Nat
      BY <1>2, <2>3, SpentTotal
    <3>2. One + Slip \in Nat /\ One + Fee \in Nat
      BY SizingAssumption, PaperAssumption
    <3> QED BY <3>1, <3>2
  <2> DEFINE k == (One + Slip) * (One + Fee)
  <2>7. k \in Nat
    BY <2>6, TimesNat
  <2>8. Filled(buy) * (One + Fee) = Spent(asks, qty) * k
    BY <2>2, <2>6
  <2>9. qty * (asks[j].price * (One + Slip) * (One + Fee)) = (asks[j].price * qty) * k
    BY <1>2, <2>4, <2>6
  <2> HIDE DEF k
  <2>10. Spent(asks, qty) * k <= (asks[j].price * qty) * k
    BY <1>2, <2>4, <2>6, <2>7, TimesMonotone, TimesNat
  <2>11. Spent(asks, qty) * k \in Nat /\ (asks[j].price * qty) * k \in Nat
    BY <1>2, <2>4, <2>6, <2>7, TimesNat
  <2> QED BY <2>3, <2>5, <2>8, <2>9, <2>10, <2>11
<1> HIDE DEF sell, buy
<1>7. sold.wallet.futures = gateway.wallet.futures /\ SameFutures(sold)
  <2>1. SameFutures(gateway)
    BY DEF Solvent
  <2> QED BY <1>1, <1>3, <2>1, FuturesAfter
<1> HIDE DEF sold
<1>8. SameFutures(gateway')
  BY <1>1, <1>3, <1>6, <1>7, FuturesAfter
<1> QED BY <1>4, <1>5, <1>8 DEF Solvent, SameFutures

\* FuturesIsLedger: with one position at a time, and as long as no price rises by more than
\* its margin, no balance of the futures wallet is ever cut off at zero.
THEOREM FuturesLedger == ASSUME MarginCovers PROVE Spec => []FuturesIsLedger
<1> DEFINE Inv == TypeOK /\ Solvent
<1>1. Init => Solvent
  BY DEF Init, Solvent, SameFutures, Held
<1>2. ASSUME TypeOK, Solvent, [Next]_vars PROVE Solvent'
  <2>1. CASE \E b \in Bases : Enter(b)
    BY <1>2, <2>1, EnterSolvent
  <2>2. CASE \E b \in Bases : ClosePosition(b)
    BY <1>2, <2>2, CloseSolvent
  <2>3. CASE \A b \in Bases : ~Enter(b) /\ ~ClosePosition(b)
    <3>1. Quiet
      BY <1>2, <2>3, OtherStepsQuiet
    <3>2. gateway' = gateway /\ rows' = rows /\ Held' = Held
      BY <3>1 DEF Quiet, Held
    <3> QED BY <1>2, <3>2 DEF Solvent, SameFutures, BuysBack
  <2> QED BY <2>1, <2>2, <2>3
<1>3. Solvent => FuturesIsLedger
  BY DEF Solvent, SameFutures, FuturesIsLedger
<1>4. WorkerInv => TypeOK
  BY DEF WorkerInv
<1> QED BY <1>1, <1>2, <1>3, <1>4, Invariance, PTL DEF Spec

=============================================================================
