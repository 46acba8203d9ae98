------------------------ MODULE ParameterHistoryProofs ------------------------
(***************************************************************************)
(* Lemmas about get_parameter_history, for any plant and readings, any     *)
(* length of the history and any window: which days an answer covers, and  *)
(* what its points are made of.                                            *)
(***************************************************************************)
EXTENDS ParameterHistory, ScoringProofs, SequenceTheorems

(***************************************************************************)
(* The window.                                                             *)
(***************************************************************************)
IsWindow(w) == w.start \in Days /\ w.end \in Days /\ w.start <= w.end

LEMMA DaysAreInts == (\A d : d \in Days <=> d \in Int /\ 1 <= d /\ d <= Today) /\ Today \in Days
BY TodayAssumption DEF Days

LEMMA MaxOfTwo == \A a, b \in Int : Max({a, b}) = IF a > b THEN a ELSE b
<1> SUFFICES ASSUME NEW a \in Int, NEW b \in Int PROVE Max({a, b}) = IF a > b THEN a ELSE b
  OBVIOUS
<1>1. CASE a > b
  BY <1>1, MaxIsTop
<1>2. CASE ~(a > b)
  BY <1>2, MaxIsTop
<1> QED BY <1>1, <1>2

LEMMA MinOfTwo == \A a, b \in Int : Min({a, b}) = IF a < b THEN a ELSE b
<1> SUFFICES ASSUME NEW a \in Int, NEW b \in Int PROVE Min({a, b}) = IF a < b THEN a ELSE b
  OBVIOUS
<1> DEFINE least == IF a < b THEN a ELSE b
<1>1. least \in {a, b} /\ \A y \in {a, b} : least <= y
  OBVIOUS
<1>2. Min({a, b}) \in {a, b} /\ \A y \in {a, b} : Min({a, b}) <= y
  BY <1>1 DEF Min
<1>3. Min({a, b}) \in Int /\ least \in Int /\ Min({a, b}) <= least /\ least <= Min({a, b})
  BY <1>1, <1>2
<1> QED BY <1>3

\* A finite set of integers has a least and a greatest element.
LEMMA Extremes ==
  ASSUME NEW S, S # {}, IsFiniteSet(S), \A x \in S : x \in Int
  PROVE  /\ Min(S) \in S /\ Max(S) \in S
         /\ \A y \in S : Min(S) <= y /\ y <= Max(S)
<1> DEFINE below(x) == {y \in S : y < x}  above(x) == {y \in S : y > x}
           B == {below(x) : x \in S}  A == {above(x) : x \in S}
<1>1. B \subseteq FiniteSubsetsOf(S) /\ B # {} /\ A \subseteq FiniteSubsetsOf(S) /\ A # {}
  <2> SUFFICES ASSUME NEW x \in S PROVE IsFiniteSet(below(x)) /\ IsFiniteSet(above(x))
    BY DEF FiniteSubsetsOf
  <2> QED BY FS_Subset
<1>2. \E x \in S : \A y \in S : x <= y
  <2>1. PICK U \in B : \A V \in B : <<V, U>> \notin StrictSubsetOrdering(S)
    BY <1>1, FS_StrictSubsetOrderingWellFounded, WFMin
  <2>2. PICK x \in S : U = below(x)
    OBVIOUS
  <2>3. ASSUME NEW y \in below(x) PROVE FALSE
    <3>1. y \in S /\ y \notin below(y) /\ below(y) \subseteq below(x)
      BY <2>3
    <3>2. below(y) \in B /\ below(y) \subseteq S /\ U \subseteq S /\ below(y) # U /\ below(y) \subseteq U
      BY <2>2, <2>3, <3>1
    <3> HIDE DEF below, B
    <3>3. <<below(y), U>> \in StrictSubsetOrdering(S)
      BY <3>2 DEF StrictSubsetOrdering
    <3> QED BY <2>1, <3>2, <3>3
  <2> QED BY <2>3
<1>3. \E x \in S : \A y \in S : x >= y
  <2>1. PICK U \in A : \A V \in A : <<V, U>> \notin StrictSubsetOrdering(S)
    BY <1>1, FS_StrictSubsetOrderingWellFounded, WFMin
  <2>2. PICK x \in S : U = above(x)
    OBVIOUS
  <2>3. ASSUME NEW y \in above(x) PROVE FALSE
    <3>1. y \in S /\ y \notin above(y) /\ above(y) \subseteq above(x)
      BY <2>3
    <3>2. above(y) \in A /\ above(y) \subseteq S /\ U \subseteq S /\ above(y) # U /\ above(y) \subseteq U
      BY <2>2, <2>3, <3>1
    <3> HIDE DEF above, A
    <3>3. <<above(y), U>> \in StrictSubsetOrdering(S)
      BY <3>2 DEF StrictSubsetOrdering
    <3> QED BY <2>1, <3>2, <3>3
  <2> QED BY <2>3
<1>4. Min(S) \in S /\ \A y \in S : Min(S) <= y
  BY <1>2 DEF Min
<1>5. Max(S) \in S /\ \A y \in S : Max(S) >= y
  BY <1>3 DEF Max
<1> QED BY <1>4, <1>5

\* Whatever two dates are asked for, the window is one of the history, and the one
\* asked for if nothing was cut off.
LEMMA ClipFacts ==
  ASSUME NEW start \in Int, NEW end \in Int
  PROVE  LET w == ClipWindow(start, end)
         IN  /\ w.requested = [start |-> w.requested.start, end |-> w.requested.end]
             /\ w.requested.start \in Int /\ w.requested.end \in Int /\ w.requested.start <= w.requested.end
             /\ IsWindow(w.returned)
             /\ w.requested = w.returned => IsWindow(w.requested)
<1> DEFINE low == Min({start, end})  high == Max({start, end})  from == Max({low, 1})  to == Min({high, Today})
<1>1. low \in Int /\ high \in Int /\ low <= high
  BY MinOfTwo, MaxOfTwo
<1>2. ClipWindow(start, end) = [requested |-> Window(low, high),
                                returned |-> IF from > to THEN Window(Today, Today) ELSE Window(from, to)]
  BY DEF ClipWindow, Window
<1> HIDE DEF low, high
<1>3. from = (IF low > 1 THEN low ELSE 1) /\ to = (IF high < Today THEN high ELSE Today)
  BY <1>1, MinOfTwo, MaxOfTwo, TodayAssumption
<1> HIDE DEF from, to
<1>4. /\ IsWindow(IF from > to THEN Window(Today, Today) ELSE Window(from, to))
      /\ Window(low, high).start = low /\ Window(low, high).end = high
  BY <1>1, <1>3, DaysAreInts, TodayAssumption DEF IsWindow, Window
<1> QED BY <1>1, <1>2, <1>4 DEF Window

LEMMA WindowDays ==
  ASSUME NEW w, IsWindow(w)
  PROVE  DaysOf(w) \in Nat /\ DaysOf(w) \in 1..Today /\ w.start \in Int /\ w.end \in Int
BY DaysAreInts, TodayAssumption DEF IsWindow, DaysOf

\* The readings of the window are those of its days, in order.
LEMMA WindowReadings ==
  ASSUME SeriesOK, NEW code \in Parameters, NEW w, IsWindow(w)
  PROVE  LET readings == InWindow(code, w)
         IN  /\ readings \in Seq([day : Days, value : Int]) /\ Len(readings) = DaysOf(w)
             /\ \A i \in 1..DaysOf(w) : readings[i] = [day |-> w.start + i - 1, value |-> series[code][w.start + i - 1]]
<1> DEFINE row(d) == [day |-> d, value |-> series[code][d]]  stored == [d \in Days |-> row(d)]
<1>1. \A d \in Days : stored[d] = row(d) /\ row(d) \in [day : Days, value : Int]
  BY DEF SeriesOK
<1>2. /\ w.start \in Int /\ w.end \in Int /\ w.start <= w.end
      /\ \A d \in w.start..w.end : d \in Days
      /\ \A i \in 1..DaysOf(w) : w.start + i - 1 \in w.start..w.end
  BY DaysAreInts, TodayAssumption DEF IsWindow, DaysOf
<1>3. InWindow(code, w) = SubSeq(stored, w.start, w.end)
  BY DEF InWindow
<1> HIDE DEF stored
<1>4. /\ SubSeq(stored, w.start, w.end) \in Seq([day : Days, value : Int])
      /\ Len(SubSeq(stored, w.start, w.end)) = w.end - w.start + 1
      /\ \A i \in 1..(w.end - w.start + 1) : SubSeq(stored, w.start, w.end)[i] = stored[w.start + i - 1]
  <2> DEFINE from == w.start  to == w.end  Rows == [day : Days, value : Int]
  <2>1. from \in Int /\ to \in Int /\ from <= to /\ \A i \in from..to : stored[i] \in Rows
    BY <1>1, <1>2
  <2> HIDE DEF from, to, Rows
  <2>2. /\ SubSeq(stored, from, to) \in Seq(Rows)
        /\ Len(SubSeq(stored, from, to)) = IF from <= to THEN to - from + 1 ELSE 0
        /\ \A i \in 1..(to - from + 1) : SubSeq(stored, from, to)[i] = stored[from + i - 1]
    BY <2>1, SubSeqProperties
  <2> QED BY <2>1, <2>2 DEF from, to, Rows
<1> QED BY <1>1, <1>2, <1>3, <1>4 DEF DaysOf

(***************************************************************************)
(* The weekly means.                                                       *)
(***************************************************************************)

\* What Totals is to compute, for the first n readings.
SumsTo(f, readings, n) ==
  f = [i \in 0..n |-> IF i = 0 THEN 0 ELSE f[i - 1] + readings[i].value]

\* There are such sums, however many readings there are.
LEMMA SumsExist ==
  ASSUME NEW n \in Nat, NEW readings
  PROVE  \E f : SumsTo(f, readings, n)
<1> DEFINE without == {m \in Nat : ~\E f : SumsTo(f, readings, m)}
<1>1. ASSUME without # {} PROVE FALSE
  <2>1. PICK m \in without : \A k \in without : m <= k
    <3>1. \A x \in without : x \in Nat
      OBVIOUS
    <3> HIDE DEF without
    <3> QED BY <1>1, <3>1, MinIsLeast
  <2>2. m # 0
    <3>1. SumsTo([i \in 0..0 |-> 0], readings, 0)
      BY DEF SumsTo
    <3> QED BY <2>1, <3>1
  <2>3. PICK f : SumsTo(f, readings, m - 1)
    <3>1. m - 1 \in Nat /\ m - 1 \notin without
      BY <2>1, <2>2
    <3> QED BY <3>1
  <2> DEFINE g == [i \in 0..m |-> IF i = m THEN f[m - 1] + readings[m].value ELSE f[i]]
  <2>4. \A i \in 0..m : g[i] = IF i = 0 THEN 0 ELSE g[i - 1] + readings[i].value
    <3> SUFFICES ASSUME NEW i \in 0..m PROVE g[i] = IF i = 0 THEN 0 ELSE g[i - 1] + readings[i].value
      OBVIOUS
    <3>1. m \in Nat /\ m # 0 /\ i \in Int
      BY <2>1, <2>2
    <3>2. CASE i = m
      BY <3>1, <3>2
    <3>3. CASE i # m
      <4>1. i \in 0..(m - 1) /\ f[i] = IF i = 0 THEN 0 ELSE f[i - 1] + readings[i].value
        BY <2>3, <3>1, <3>3 DEF SumsTo
      <4>2. g[i] = f[i] /\ (i # 0 => i - 1 \in 0..m /\ i - 1 # m /\ g[i - 1] = f[i - 1])
        BY <3>1, <3>3, <4>1
      <4> HIDE DEF g
      <4> QED BY <4>1, <4>2
    <3> QED BY <3>2, <3>3
  <2>5. SumsTo(g, readings, m)
    <3>1. g = [i \in 0..m |-> g[i]]
      OBVIOUS
    <3> HIDE DEF g
    <3> QED BY <2>4, <3>1 DEF SumsTo
  <2> QED BY <2>1, <2>5
<1> QED BY <1>1

LEMMA TotalsAreSums ==
  ASSUME NEW n \in Nat, NEW readings, Len(readings) = n
  PROVE  /\ Totals(readings)[0] = 0
         /\ \A i \in 1..n : Totals(readings)[i] = Totals(readings)[i - 1] + readings[i].value
<1>1. Totals(readings) = CHOOSE f : SumsTo(f, readings, n)
  BY DEF Totals, SumsTo
<1>2. SumsTo(Totals(readings), readings, n)
  BY <1>1, SumsExist
<1> QED BY <1>2 DEF SumsTo

LEMMA TotalsAreInts ==
  ASSUME NEW n \in Nat, NEW readings, Len(readings) = n, \A i \in 1..n : readings[i].value \in Int
  PROVE  \A i \in 0..n : Totals(readings)[i] \in Int
<1> DEFINE T(i) == Totals(readings)[i]  without == {i \in 0..n : T(i) \notin Int}
<1>1. T(0) = 0 /\ \A i \in 1..n : T(i) = T(i - 1) + readings[i].value
  BY TotalsAreSums
<1> HIDE DEF T
<1>2. ASSUME without # {} PROVE FALSE
  <2>1. PICK m \in without : \A k \in without : m <= k
    <3>1. \A x \in without : x \in Nat
      OBVIOUS
    <3> HIDE DEF without
    <3> QED BY <1>2, <3>1, MinIsLeast
  <2>2. m \in 1..n /\ m - 1 \in 0..n /\ m - 1 \notin without
    BY <1>1, <2>1
  <2>3. T(m) = T(m - 1) + readings[m].value /\ T(m - 1) \in Int /\ readings[m].value \in Int
    BY <1>1, <2>2
  <2> QED BY <2>1, <2>3
<1> QED BY <1>2 DEF T

\* Readings between two bounds sum to between so many times the bounds.
LEMMA SumIsBounded ==
  ASSUME NEW n \in Nat, NEW readings, Len(readings) = n, \A i \in 1..n : readings[i].value \in Int,
         NEW a \in 0..n, NEW b \in a..n, NEW lo \in Int, NEW hi \in Int,
         \A i \in (a + 1)..b : lo <= readings[i].value /\ readings[i].value <= hi
  PROVE  LET sum == Totals(readings)[b] - Totals(readings)[a]
         IN  sum \in Int /\ (b - a) * lo <= sum /\ sum <= (b - a) * hi
<1> DEFINE T(i) == Totals(readings)[i]
           without == {i \in a..b : ~((i - a) * lo <= T(i) - T(a) /\ T(i) - T(a) <= (i - a) * hi)}
<1>1. (\A i \in 1..n : T(i) = T(i - 1) + readings[i].value) /\ \A i \in 0..n : T(i) \in Int
  BY TotalsAreSums, TotalsAreInts
<1> HIDE DEF T
<1>2. ASSUME without # {} PROVE FALSE
  <2>1. PICK m \in without : \A k \in without : m <= k
    <3>1. \A x \in without : x \in Nat
      OBVIOUS
    <3> HIDE DEF without
    <3> QED BY <1>2, <3>1, MinIsLeast
  <2>2. m \in (a + 1)..b /\ m - 1 \in a..b /\ m - 1 \notin without
    <3>1. m \in a..b /\ T(a) \in Int
      BY <1>1
    <3>2. m # a
      BY <2>1, <3>1
    <3>3. m - 1 \notin without
      BY <2>1, <3>1
    <3> QED BY <3>1, <3>2, <3>3
  <2> DEFINE k == m - a  before == T(m - 1) - T(a)  v == readings[m].value
  <2>3. k - 1 \in Int /\ before \in Int /\ v \in Int /\ lo <= v /\ v <= hi /\ T(m) - T(a) = before + v
    BY <1>1, <2>2
  <2>4. (k - 1) * lo <= before /\ before <= (k - 1) * hi
    BY <2>2
  <2> HIDE DEF before, v
  <2>5. k * lo <= before + v /\ before + v <= k * hi
    <3>1. k * lo = (k - 1) * lo + lo /\ k * hi = (k - 1) * hi + hi
      BY <2>2
    <3> HIDE DEF k
    <3>2. (k - 1) * lo \in Int /\ (k - 1) * hi \in Int
      BY <2>3
    <3> QED BY <2>3, <2>4, <3>1, <3>2
  <2> QED BY <2>1, <2>3, <2>5
<1>3. b \in a..b /\ T(a) \in Int /\ T(b) \in Int
  BY <1>1
<1> QED BY <1>2, <1>3 DEF T

\* A mean of up to seven readings, rounded either way, lies among them.
LEMMA MeanIsAmong ==
  ASSUME NEW n \in 1..7, NEW sum \in Int, NEW lo \in Int, NEW hi \in Int, n * lo <= sum, sum <= n * hi, NEW up
  PROVE  Rounded(sum, n, up) \in lo..hi
<1> DEFINE q == sum \div n  r == sum % n
<1>1. q \in Int /\ r \in 0..(n - 1) /\ sum = n * q + r
  <2>1. CASE n = 1
    BY <2>1
  <2>2. CASE n \in {2, 3, 4}
    BY <2>2
  <2>3. CASE n \in {5, 6, 7}
    BY <2>3
  <2> QED BY <2>1, <2>2, <2>3
<1>2. Rounded(sum, n, up) = q \/ (Rounded(sum, n, up) = q + 1 /\ r > 0)
  BY <1>1 DEF Rounded
<1> HIDE DEF q, r
<1>3. lo <= q /\ q <= hi /\ (r > 0 => q + 1 <= hi)
  <2>1. CASE n \in {1, 2, 3}
    BY <1>1, <2>1
  <2>2. CASE n \in {4, 5}
    BY <1>1, <2>2
  <2>3. CASE n \in {6, 7}
    BY <1>1, <2>3
  <2> QED BY <2>1, <2>2, <2>3
<1> QED BY <1>1, <1>2, <1>3

(***************************************************************************)
(* The series of an answer.                                                *)
(***************************************************************************)
Weeks(w)     == (DaysOf(w) + 6) \div 7
LastOf(w, k) == IF 7 * k < DaysOf(w) THEN 7 * k ELSE DaysOf(w)

\* The weeks are the window's days, seven at a time.
LEMMA WeekBounds ==
  ASSUME NEW w, IsWindow(w)
  PROVE  /\ Weeks(w) \in Nat /\ Weeks(w) >= 1 /\ Weeks(w) <= MaxRaw
         /\ \A k \in 1..Weeks(w) :
              /\ LastOf(w, k) \in 1..DaysOf(w) /\ 7 * (k - 1) \in 0..DaysOf(w)
              /\ LastOf(w, k) - 7 * (k - 1) \in 1..7
              /\ k < Weeks(w) => LastOf(w, k) = 7 * k
         /\ LastOf(w, Weeks(w)) = DaysOf(w)
<1> DEFINE n == DaysOf(w)  m == (n + 6) \div 7
<1>1. n \in Nat /\ n >= 1 /\ n <= Today /\ Today \in Nat /\ MaxRaw \in Nat /\ Today <= 7 * MaxRaw
  BY WindowDays, TodayAssumption, MaxRawAssumption
<1>2. Weeks(w) = m /\ \A k : LastOf(w, k) = IF 7 * k < n THEN 7 * k ELSE n
  BY DEF Weeks, LastOf
<1> HIDE DEF n
<1>3. m \in Int /\ 7 * m <= n + 6 /\ n + 6 < 7 * m + 7
  BY <1>1
<1> HIDE DEF m
<1>4. m \in Nat /\ m >= 1 /\ m <= MaxRaw /\ 7 * m >= n /\ 7 * (m - 1) < n
  BY <1>1, <1>3
<1>5. ASSUME NEW k \in 1..m
      PROVE  7 * (k - 1) < n /\ k \in Int /\ k >= 1 /\ (k < m => 7 * k < n)
  BY <1>1, <1>4
<1> QED BY <1>1, <1>2, <1>4, <1>5 DEF n

\* The status of a parameter, and the points of one that is not recorded.
LEMMA StatusFacts ==
  ASSUME SeriesOK, NEW unit \in UnitSet, NEW w, IsWindow(w), NEW code, NEW up
  PROVE  LET s == SeriesFor(unit, code, w, up)
         IN  /\ s.populated = (code \in ParametersOf[unit])
             /\ s.records = IF code \in ParametersOf[unit] THEN DaysOf(w) ELSE 0
             /\ code \notin ParametersOf[unit] => s.points = << >>
<1>1. CASE code \notin ParametersOf[unit]
  <2>1. BucketWeekly(<< >>, up) = << >>
    <3>1. (Len(<< >>) + 6) \div 7 = 0
      OBVIOUS
    <3> QED BY <3>1 DEF BucketWeekly
  <2> QED BY <1>1, <2>1 DEF SeriesFor
<1>2. CASE code \in ParametersOf[unit]
  <2>1. code \in Parameters
    BY <1>2, UnitAssumption
  <2>2. Len(InWindow(code, w)) = DaysOf(w)
    BY <2>1, WindowReadings
  <2> QED BY <1>2, <2>2 DEF SeriesFor
<1> QED BY <1>1, <1>2

\* The points of a parameter that the unit records.
LEMMA SeriesFacts ==
  ASSUME SeriesOK, NEW unit \in UnitSet, NEW w, IsWindow(w), NEW code \in ParametersOf[unit], NEW up
  PROVE  SeriesFor(unit, code, w, up).points =
           [i \in 1..(IF Resolution(w) = "raw" THEN DaysOf(w) ELSE Weeks(w)) |->
              LET r == IF Resolution(w) = "raw" THEN InWindow(code, w)[i]
                       ELSE Bucket(InWindow(code, w), 7 * (i - 1), LastOf(w, i), up)
              IN  [day |-> r.day, value |-> r.value, zone |-> ZoneFor(r.value, Bands[code])]]
<1>1. DaysOf(w) \in Nat
  BY WindowDays
<1>2. code \in Parameters
  BY UnitAssumption
<1> DEFINE readings == InWindow(code, w)
<1>3. Len(readings) = DaysOf(w) /\ DOMAIN readings = 1..DaysOf(w)
  BY <1>2, WindowReadings
<1>4. BucketWeekly(readings, up) = [k \in 1..Weeks(w) |-> Bucket(readings, 7 * (k - 1), LastOf(w, k), up)]
  <2>1. ASSUME NEW k \in 1..Weeks(w) PROVE Min({7 * k, DaysOf(w)}) = LastOf(w, k)
    BY <1>1, MinOfTwo DEF LastOf
  <2> HIDE DEF readings
  <2> QED BY <1>3, <2>1 DEF BucketWeekly, Weeks
<1> HIDE DEF readings
<1>5. CASE Resolution(w) = "raw"
  BY <1>2, <1>3, <1>5 DEF SeriesFor, readings
<1>6. CASE Resolution(w) # "raw"
  <2> DEFINE weekly(k) == Bucket(readings, 7 * (k - 1), LastOf(w, k), up)
             shown == BucketWeekly(readings, up)
  <2>1. DOMAIN shown = 1..Weeks(w) /\ \A k \in 1..Weeks(w) : shown[k] = weekly(k)
    BY <1>4
  <2>2. SeriesFor(unit, code, w, up).points =
          [i \in DOMAIN shown |-> [day |-> shown[i].day, value |-> shown[i].value,
                                   zone |-> ZoneFor(shown[i].value, Bands[code])]]
    BY <1>2, <1>6 DEF SeriesFor, readings
  <2> HIDE DEF shown, weekly
  <2>3. SeriesFor(unit, code, w, up).points =
          [i \in 1..Weeks(w) |-> [day |-> weekly(i).day, value |-> weekly(i).value,
                                  zone |-> ZoneFor(weekly(i).value, Bands[code])]]
    BY <2>1, <2>2
  <2> QED BY <1>6, <2>3 DEF weekly, readings
<1> QED BY <1>5, <1>6

\* Raw points: the readings of the window's days.
LEMMA RawPoints ==
  ASSUME SeriesOK, NEW unit \in UnitSet, NEW w, IsWindow(w), NEW code \in ParametersOf[unit], NEW up,
         Resolution(w) = "raw"
  PROVE  LET points == SeriesFor(unit, code, w, up).points
         IN  /\ points \in Seq([day : Days, value : Int, zone : Zones])
             /\ Len(points) = DaysOf(w) /\ DOMAIN points = 1..DaysOf(w)
             /\ \A i \in 1..DaysOf(w) :
                  /\ w.start + i - 1 \in Days
                  /\ points[i] = [day |-> w.start + i - 1, value |-> series[code][w.start + i - 1],
                                  zone |-> ZoneFor(series[code][w.start + i - 1], Bands[code])]
<1> DEFINE n == DaysOf(w)  readings == InWindow(code, w)
           point(i) == [day |-> w.start + i - 1, value |-> series[code][w.start + i - 1],
                        zone |-> ZoneFor(series[code][w.start + i - 1], Bands[code])]
<1>1. code \in Parameters /\ n \in Nat
  BY WindowDays, UnitAssumption
<1>2. \A i \in 1..n : readings[i] = [day |-> w.start + i - 1, value |-> series[code][w.start + i - 1]]
  BY <1>1, WindowReadings
<1>3. \A i \in 1..n : w.start + i - 1 \in Days
  BY DaysAreInts DEF IsWindow, DaysOf
<1>4. \A i \in 1..n : point(i) \in [day : Days, value : Int, zone : Zones]
  BY <1>1, <1>3, ZoneIsZone DEF SeriesOK
<1>5. SeriesFor(unit, code, w, up).points =
        [i \in 1..n |-> [day |-> readings[i].day, value |-> readings[i].value, zone |-> ZoneFor(readings[i].value, Bands[code])]]
  BY SeriesFacts
<1> HIDE DEF n, readings
<1>6. SeriesFor(unit, code, w, up).points = [i \in 1..n |-> point(i)]
  <2>1. ASSUME NEW i \in 1..n
        PROVE  readings[i].day = w.start + i - 1 /\ readings[i].value = series[code][w.start + i - 1]
    <3> DEFINE d == w.start + i - 1
    <3>1. readings[i] = [day |-> d, value |-> series[code][d]]
      BY <1>2
    <3> HIDE DEF d
    <3>2. readings[i].day = d /\ readings[i].value = series[code][d]
      BY <3>1
    <3> QED BY <3>2 DEF d
  <2> QED BY <1>5, <2>1
<1> HIDE DEF point
<1>7. [i \in 1..n |-> point(i)] \in Seq([day : Days, value : Int, zone : Zones]) /\ Len([i \in 1..n |-> point(i)]) = n
  BY <1>1, <1>4
<1> QED BY <1>1, <1>3, <1>6, <1>7 DEF point, n

\* Weekly points: each is dated by the last day of its week, and its value lies
\* among the readings of the week.
LEMMA WeeklyPoints ==
  ASSUME SeriesOK, NEW unit \in UnitSet, NEW w, IsWindow(w), NEW code \in ParametersOf[unit], NEW up,
         Resolution(w) # "raw"
  PROVE  LET points == SeriesFor(unit, code, w, up).points
         IN  /\ Len(points) = Weeks(w) /\ DOMAIN points = 1..Weeks(w)
             /\ \A k \in 1..Weeks(w) :
                  /\ points[k].day = w.start + LastOf(w, k) - 1
                  /\ \A lo, hi \in Int :
                       (\A d \in (w.start + 7 * (k - 1))..points[k].day : lo <= series[code][d] /\ series[code][d] <= hi)
                         => points[k].value \in lo..hi
<1> DEFINE n == DaysOf(w)  readings == InWindow(code, w)
           week(k) == Bucket(readings, 7 * (k - 1), LastOf(w, k), up)
           point(k) == [day |-> week(k).day, value |-> week(k).value, zone |-> ZoneFor(week(k).value, Bands[code])]
<1>1. code \in Parameters /\ n \in Nat /\ Weeks(w) \in Nat /\ w.start \in Int
  BY WindowDays, WeekBounds, UnitAssumption
<1>2. /\ Len(readings) = n
      /\ \A i \in 1..n : readings[i] = [day |-> w.start + i - 1, value |-> series[code][w.start + i - 1]]
      /\ \A i \in 1..n : readings[i].value \in Int
  <2>1. /\ readings \in Seq([day : Days, value : Int]) /\ Len(readings) = n
        /\ \A i \in 1..n : readings[i] = [day |-> w.start + i - 1, value |-> series[code][w.start + i - 1]]
    BY <1>1, WindowReadings
  <2> HIDE DEF readings, n
  <2>2. \A i \in 1..n : readings[i] \in [day : Days, value : Int]
    BY <2>1
  <2> QED BY <2>1, <2>2
<1>3. SeriesFor(unit, code, w, up).points = [k \in 1..Weeks(w) |-> point(k)]
  BY SeriesFacts
<1> HIDE DEF n, readings, point
<1>4. ASSUME NEW k \in 1..Weeks(w)
      PROVE  /\ point(k).day = w.start + LastOf(w, k) - 1
             /\ \A lo, hi \in Int :
                  (\A d \in (w.start + 7 * (k - 1))..(w.start + LastOf(w, k) - 1) : lo <= series[code][d] /\ series[code][d] <= hi)
                    => point(k).value \in lo..hi
  <2> DEFINE a == 7 * (k - 1)  b == LastOf(w, k)
  <2>1. b \in 1..n /\ a \in 0..n /\ b - a \in 1..7
    BY WeekBounds DEF n
  <2>2. point(k).day = readings[b].day /\ point(k).value = Rounded(Totals(readings)[b] - Totals(readings)[a], b - a, up)
    BY DEF point, Bucket
  <2> HIDE DEF a, b
  <2>3. readings[b].day = w.start + b - 1
    BY <1>2, <2>1
  <2>4. ASSUME NEW lo \in Int, NEW hi \in Int,
               \A d \in (w.start + a)..(w.start + b - 1) : lo <= series[code][d] /\ series[code][d] <= hi
        PROVE  point(k).value \in lo..hi
    <3> DEFINE sum == Totals(readings)[b] - Totals(readings)[a]
    <3>1. \A i \in (a + 1)..b : lo <= readings[i].value /\ readings[i].value <= hi
      <4> SUFFICES ASSUME NEW i \in (a + 1)..b PROVE lo <= readings[i].value /\ readings[i].value <= hi
        OBVIOUS
      <4>1. i \in 1..n /\ w.start + i - 1 \in (w.start + a)..(w.start + b - 1)
        BY <1>1, <2>1
      <4>2. readings[i].value = series[code][w.start + i - 1]
        BY <1>2, <4>1
      <4> QED BY <2>4, <4>1, <4>2
    <3>2. a \in 0..n /\ b \in a..n
      BY <1>1, <2>1
    <3>3. sum \in Int /\ (b - a) * lo <= sum /\ sum <= (b - a) * hi
      BY <1>1, <1>2, <3>1, <3>2, SumIsBounded
    <3> HIDE DEF sum
    <3>4. Rounded(sum, b - a, up) \in lo..hi
      BY <2>1, <3>3, MeanIsAmong
    <3> QED BY <2>2, <3>4 DEF sum
  <2> QED BY <2>2, <2>3, <2>4 DEF a, b
<1>5. Len([k \in 1..Weeks(w) |-> point(k)]) = Weeks(w)
  BY <1>1
<1> QED BY <1>3, <1>4, <1>5

(***************************************************************************)
(* The answers.                                                            *)
(***************************************************************************)

\* The answer held is one the tool gives.
HistoryInv ==
  history = Refused \/ \E unit, start, end, codes, up :
                         /\ start \in Dates /\ end \in Dates
                         /\ history = HistoryOf(unit, start, end, codes, up)

\* What an answer of get_parameter_history holds.
LEMMA HistoryFacts ==
  ASSUME HistoryInv, history.ok
  PROVE  /\ history.unit \in UnitSet /\ IsWindow(history.returned)
         /\ history.resolution = Resolution(history.returned)
         /\ ~history.applied => /\ history.requested = history.returned
                                /\ history.resolution = "raw"
         /\ \E up : \A code \in DOMAIN history.series :
              history.series[code] = SeriesFor(history.unit, code, history.returned, up)
<1>1. history # Refused
  BY DEF Refused
<1>2. PICK unit, start, end, codes, up : start \in Dates /\ end \in Dates /\ history = HistoryOf(unit, start, end, codes, up)
  BY <1>1 DEF HistoryInv
<1>3. unit \in UnitSet /\ start \in Int /\ end \in Int
  BY <1>1, <1>2, DatesAssumption DEF HistoryOf
<1> DEFINE windows == ClipWindow(start, end)  asked == IF codes = None THEN ParametersOf[unit] ELSE codes
<1>4. history = [ok |-> TRUE, unit |-> unit,
                 series |-> [code \in asked |-> SeriesFor(unit, code, windows.returned, up)],
                 resolution |-> Resolution(windows.returned),
                 applied |-> windows.requested # windows.returned \/ Resolution(windows.returned) # "raw",
                 requested |-> windows.requested, returned |-> windows.returned]
  BY <1>1, <1>2, <1>3 DEF HistoryOf
<1>5. IsWindow(windows.returned)
  BY <1>3, ClipFacts
<1> HIDE DEF windows, asked
<1>6. /\ history.unit = unit /\ history.resolution = Resolution(windows.returned)
      /\ history.requested = windows.requested /\ history.returned = windows.returned
      /\ history.applied = (windows.requested # windows.returned \/ Resolution(windows.returned) # "raw")
      /\ history.series = [code \in asked |-> SeriesFor(unit, code, windows.returned, up)]
  BY <1>4
<1>7. ~history.applied => history.requested = history.returned /\ history.resolution = "raw"
  BY <1>6, Zenon
<1> QED BY <1>3, <1>5, <1>6, <1>7

\* A blind spot can be told from a recorded parameter in every answer.
LEMMA BlindSpotsAreShown == SeriesOK /\ HistoryInv => BlindSpotsShown
<1> SUFFICES ASSUME SeriesOK, HistoryInv, history.ok, NEW code \in DOMAIN history.series
             PROVE  LET s == history.series[code]
                    IN  /\ s.populated <=> code \in ParametersOf[history.unit]
                        /\ s.records = IF s.populated THEN DaysOf(history.returned) ELSE 0
                        /\ s.points = << >> <=> ~s.populated
  BY DEF BlindSpotsShown
<1> DEFINE w == history.returned  unit == history.unit  recorded == code \in ParametersOf[unit]
<1>1. PICK up : history.series[code] = SeriesFor(unit, code, w, up)
  BY HistoryFacts
<1> DEFINE s == SeriesFor(unit, code, w, up)
<1>2. unit \in UnitSet /\ IsWindow(w)
  BY HistoryFacts
<1>3. s.populated = recorded /\ (s.records = IF recorded THEN DaysOf(w) ELSE 0) /\ (~recorded => s.points = << >>)
  BY <1>2, StatusFacts
<1>4. recorded => s.points # << >>
  <2>1. CASE recorded /\ Resolution(w) = "raw"
    <3>1. 1 \in DOMAIN s.points
      BY <1>2, <2>1, RawPoints, WindowDays
    <3> QED BY <3>1
  <2>2. CASE recorded /\ Resolution(w) # "raw"
    <3>1. 1 \in DOMAIN s.points
      BY <1>2, <2>2, WeeklyPoints, WeekBounds
    <3> QED BY <3>1
  <2> QED BY <2>1, <2>2
<1> HIDE DEF s, w, unit
<1> QED BY <1>1, <1>3, <1>4, Zenon DEF s, w, unit

\* An answer that does not say so was not bounded, and none is over the limit.
LEMMA NothingIsDropped == SeriesOK /\ HistoryInv => NothingDroppedUnsaid
<1> SUFFICES ASSUME SeriesOK, HistoryInv, history.ok, NEW code \in DOMAIN history.series
             PROVE  /\ Len(Points(code)) <= MaxRaw
                    /\ ~history.applied /\ code \in ParametersOf[history.unit] =>
                         /\ history.requested.start..history.requested.end \subseteq Days
                         /\ {[day |-> Points(code)[i].day, value |-> Points(code)[i].value] : i \in DOMAIN Points(code)}
                              = {[day |-> d, value |-> series[code][d]] : d \in history.requested.start..history.requested.end}
  BY DEF NothingDroppedUnsaid
<1> DEFINE w == history.returned  unit == history.unit  points == Points(code)
<1>1. PICK up : history.series[code] = SeriesFor(unit, code, w, up)
  BY HistoryFacts
<1>2. unit \in UnitSet /\ IsWindow(w) /\ points = SeriesFor(unit, code, w, up).points
  BY <1>1, HistoryFacts DEF Points
<1>3. MaxRaw \in Nat /\ MaxRaw >= 1 /\ (Resolution(w) = "raw" => DaysOf(w) <= MaxRaw)
  BY MaxRawAssumption DEF Resolution
<1>4. Len(points) <= MaxRaw
  <2>1. CASE code \notin ParametersOf[unit]
    <3>1. points = << >>
      BY <1>2, <2>1, StatusFacts
    <3> QED BY <1>3, <3>1
  <2>2. CASE code \in ParametersOf[unit] /\ Resolution(w) = "raw"
    BY <1>2, <1>3, <2>2, RawPoints
  <2>3. CASE code \in ParametersOf[unit] /\ Resolution(w) # "raw"
    BY <1>2, <2>3, WeeklyPoints, WeekBounds
  <2> QED BY <2>1, <2>2, <2>3
<1>5. ASSUME ~history.applied, code \in ParametersOf[unit]
      PROVE  /\ w.start..w.end \subseteq Days
             /\ {[day |-> points[i].day, value |-> points[i].value] : i \in DOMAIN points}
                  = {[day |-> d, value |-> series[code][d]] : d \in w.start..w.end}
  <2>1. Resolution(w) = "raw"
    BY <1>5, HistoryFacts
  <2>2. /\ DOMAIN points = 1..DaysOf(w)
        /\ \A i \in 1..DaysOf(w) :
             points[i] = [day |-> w.start + i - 1, value |-> series[code][w.start + i - 1],
                          zone |-> ZoneFor(series[code][w.start + i - 1], Bands[code])]
    BY <1>2, <1>5, <2>1, RawPoints
  <2> DEFINE row(d) == [day |-> d, value |-> series[code][d]]
  <2>3. \A i \in 1..DaysOf(w) : [day |-> points[i].day, value |-> points[i].value] = row(w.start + i - 1)
    BY <2>2
  <2> HIDE DEF row
  <2>4. w.start \in Int /\ w.end \in Int /\ DaysOf(w) = w.end - w.start + 1 /\ w.start..w.end \subseteq Days
    BY <1>2, WindowDays, DaysAreInts DEF DaysOf, IsWindow
  <2>5. \A d \in w.start..w.end : d - w.start + 1 \in 1..DaysOf(w) /\ d = w.start + (d - w.start + 1) - 1
    BY <2>4
  <2>6. \A i \in 1..DaysOf(w) : w.start + i - 1 \in w.start..w.end
    BY <2>4
  <2>7. {[day |-> points[i].day, value |-> points[i].value] : i \in 1..DaysOf(w)} = {row(d) : d \in w.start..w.end}
    <3>1. ASSUME NEW i \in 1..DaysOf(w)
          PROVE  \E d \in w.start..w.end : [day |-> points[i].day, value |-> points[i].value] = row(d)
      BY <2>3, <2>6
    <3>2. ASSUME NEW d \in w.start..w.end
          PROVE  \E i \in 1..DaysOf(w) : [day |-> points[i].day, value |-> points[i].value] = row(d)
      <4> DEFINE i == d - w.start + 1
      <4>1. i \in 1..DaysOf(w) /\ d = w.start + i - 1
        BY <2>5
      <4> HIDE DEF i
      <4>2. [day |-> points[i].day, value |-> points[i].value] = row(d)
        BY <2>3, <4>1
      <4> QED BY <4>1, <4>2
    <3> QED BY <3>1, <3>2
  <2> QED BY <2>2, <2>4, <2>7 DEF row
<1>6. ~history.applied => history.requested = w
  BY HistoryFacts
<1> QED BY <1>4, <1>5, <1>6

\* Every reading of the window counts in exactly one point.
LEMMA PointsAreComplete == SeriesOK /\ HistoryInv => PointsCoverWindow
<1> DEFINE w == history.returned  unit == history.unit
           since(points, i) == IF i = 1 THEN w.start ELSE points[i - 1].day + 1
           values(code, from, to) == {series[code][d] : d \in from..to}
<1> SUFFICES ASSUME SeriesOK, HistoryInv, history.ok, NEW code \in Reported(unit)
             PROVE  LET points == Points(code)
                    IN  /\ points # << >> /\ points[Len(points)].day = w.end
                        /\ \A i \in DOMAIN points :
                             LET readings == values(code, since(points, i), points[i].day)
                             IN  /\ DaysOf(Window(since(points, i), points[i].day)) \in 1..7
                                 /\ points[i].value \in Min(readings)..Max(readings)
  BY DEF PointsCoverWindow
<1> DEFINE points == Points(code)
<1>1. PICK up : history.series[code] = SeriesFor(unit, code, w, up)
  BY HistoryFacts DEF Reported
<1>2. unit \in UnitSet /\ IsWindow(w) /\ points = SeriesFor(unit, code, w, up).points /\ code \in ParametersOf[unit]
  BY <1>1, HistoryFacts DEF Points, Reported
<1>3. w.start \in Int /\ w.end \in Int /\ DaysOf(w) = w.end - w.start + 1 /\ DaysOf(w) \in 1..Today
  BY <1>2, WindowDays DEF DaysOf
<1>4. code \in Parameters /\ \A d \in Days : series[code][d] \in Int
  BY <1>2, UnitAssumption DEF SeriesOK
<1> HIDE DEF w, unit, points
\* A point between two days of the window, with a value among the readings.
<1>5. ASSUME NEW from \in Int, NEW to \in Int, w.start <= from, from <= to, to <= w.end, NEW v,
             \A lo, hi \in Int : (\A d \in from..to : lo <= series[code][d] /\ series[code][d] <= hi) => v \in lo..hi
      PROVE  v \in Min(values(code, from, to))..Max(values(code, from, to))
  <2> DEFINE S == values(code, from, to)
  <2>1. \A d \in from..to : series[code][d] \in Int
    BY <1>2, <1>4, <1>5, DaysAreInts DEF IsWindow
  <2>2. IsFiniteSet(S)
    <3> DEFINE f == [d \in from..to |-> series[code][d]]
    <3>1. f \in Surjection(from..to, S)
      BY DEF Surjection
    <3> HIDE DEF f, S
    <3> QED BY <3>1, FS_Interval, FS_Surjection
  <2>3. S # {} /\ \A x \in S : x \in Int
    BY <1>5, <2>1
  <2>4. \A d \in from..to : series[code][d] \in S
    OBVIOUS
  <2> HIDE DEF S
  <2>5. Min(S) \in Int /\ Max(S) \in Int /\ \A y \in S : Min(S) <= y /\ y <= Max(S)
    BY <2>2, <2>3, Extremes
  <2> QED BY <1>5, <2>4, <2>5 DEF S
<1>6. CASE Resolution(w) = "raw"
  <2>1. /\ Len(points) = DaysOf(w) /\ DOMAIN points = 1..DaysOf(w)
        /\ \A i \in 1..DaysOf(w) : /\ points[i].day = w.start + i - 1
                                    /\ points[i].value = series[code][w.start + i - 1]
    <3>1. /\ Len(points) = DaysOf(w) /\ DOMAIN points = 1..DaysOf(w)
          /\ \A i \in 1..DaysOf(w) :
               points[i] = [day |-> w.start + i - 1, value |-> series[code][w.start + i - 1],
                            zone |-> ZoneFor(series[code][w.start + i - 1], Bands[code])]
      BY <1>2, <1>6, RawPoints
    <3> QED BY <3>1
  <2>2. points # << >> /\ points[Len(points)].day = w.end
    BY <1>3, <2>1
  <2>3. ASSUME NEW i \in DOMAIN points
        PROVE  /\ since(points, i) = points[i].day /\ points[i].day \in Int
               /\ w.start <= points[i].day /\ points[i].day <= w.end
    <3>1. i \in 1..DaysOf(w) /\ (i # 1 => i - 1 \in 1..DaysOf(w))
      BY <1>3, <2>1
    <3>2. points[i].day = w.start + i - 1 /\ (i # 1 => points[i - 1].day = w.start + (i - 1) - 1)
      BY <2>1, <3>1
    <3> QED BY <1>3, <3>1, <3>2
  <2>4. ASSUME NEW i \in DOMAIN points
        PROVE  LET readings == values(code, since(points, i), points[i].day)
               IN  /\ DaysOf(Window(since(points, i), points[i].day)) \in 1..7
                   /\ points[i].value \in Min(readings)..Max(readings)
    <3> DEFINE day == points[i].day
    <3>1. since(points, i) = day /\ day \in Int /\ w.start <= day /\ day <= w.end
      BY <2>3
    <3>2. points[i].value = series[code][day]
      BY <2>1
    <3>3. day \in Days
      BY <1>2, <3>1, DaysAreInts DEF IsWindow
    <3> HIDE DEF day, values, since
    <3>4. \A lo, hi \in Int : (\A d \in day..day : lo <= series[code][d] /\ series[code][d] <= hi) => points[i].value \in lo..hi
      BY <1>4, <3>1, <3>2, <3>3
    <3>5. points[i].value \in Min(values(code, day, day))..Max(values(code, day, day))
      BY <1>5, <3>1, <3>4
    <3>6. DaysOf(Window(day, day)) = 1
      BY <3>1 DEF DaysOf, Window
    <3> QED BY <3>1, <3>5, <3>6 DEF day
  <2> QED BY <2>2, <2>4 DEF points
<1>7. CASE Resolution(w) # "raw"
  <2>1. /\ Len(points) = Weeks(w) /\ DOMAIN points = 1..Weeks(w)
        /\ \A k \in 1..Weeks(w) :
             /\ points[k].day = w.start + LastOf(w, k) - 1
             /\ \A lo, hi \in Int :
                  (\A d \in (w.start + 7 * (k - 1))..points[k].day : lo <= series[code][d] /\ series[code][d] <= hi)
                    => points[k].value \in lo..hi
    BY <1>2, <1>7, WeeklyPoints
  <2>2. /\ Weeks(w) \in Nat /\ Weeks(w) >= 1 /\ LastOf(w, Weeks(w)) = DaysOf(w)
        /\ \A k \in 1..Weeks(w) :
             /\ LastOf(w, k) \in 1..DaysOf(w) /\ 7 * (k - 1) \in 0..DaysOf(w)
             /\ LastOf(w, k) - 7 * (k - 1) \in 1..7
             /\ k < Weeks(w) => LastOf(w, k) = 7 * k
    BY <1>2, WeekBounds
  <2>3. points # << >> /\ points[Len(points)].day = w.end
    BY <1>3, <2>1, <2>2
  <2>4. ASSUME NEW i \in DOMAIN points
        PROVE  LET readings == values(code, since(points, i), points[i].day)
               IN  /\ DaysOf(Window(since(points, i), points[i].day)) \in 1..7
                   /\ points[i].value \in Min(readings)..Max(readings)
    <3> DEFINE from == w.start + 7 * (i - 1)  to == points[i].day
    <3>1. i \in 1..Weeks(w)
      BY <2>1
    <3>2. to = w.start + LastOf(w, i) - 1 /\ from \in Int
      BY <1>3, <2>1, <2>2, <3>1
    <3>3. since(points, i) = from
      <4>1. CASE i = 1
        BY <1>3, <4>1
      <4>2. CASE i # 1
        <5>1. i - 1 \in 1..Weeks(w) /\ i - 1 < Weeks(w)
          BY <2>2, <3>1, <4>2
        <5>2. points[i - 1].day = w.start + 7 * (i - 1) - 1
          BY <2>1, <2>2, <5>1
        <5> QED BY <1>3, <3>1, <4>2, <5>2
      <4> QED BY <4>1, <4>2
    <3>4. to \in Int /\ w.start <= from /\ from <= to /\ to <= w.end /\ to - from + 1 \in 1..7
      BY <1>3, <2>2, <3>1, <3>2
    <3>5. \A lo, hi \in Int : (\A d \in from..to : lo <= series[code][d] /\ series[code][d] <= hi) => points[i].value \in lo..hi
      BY <2>1, <3>1
    <3> HIDE DEF from, to, values, since
    <3>6. points[i].value \in Min(values(code, from, to))..Max(values(code, from, to))
      BY <1>5, <3>2, <3>4, <3>5
    <3>7. DaysOf(Window(from, to)) = to - from + 1
      BY DEF DaysOf, Window
    <3> QED BY <3>3, <3>4, <3>6, <3>7 DEF to
  <2> QED BY <2>3, <2>4 DEF points
<1> QED BY <1>6, <1>7 DEF w, unit, points

\* What an explained score says of a day, for dates written YYYY-MM-DD.
LEMMA ExplainedOnDay ==
  ASSUME Forms \subseteq {"extended"}, Inv, explained.ok, NEW c \in explained.score.contributions
  PROVE  /\ explained.unit \in UnitSet /\ explained.as_of.day \in Days
         /\ c.value = series[c.parameter][explained.as_of.day]
         /\ c.zone = ZoneFor(series[c.parameter][explained.as_of.day], Bands[c.parameter])
<1>1. /\ explained.unit \in UnitSet /\ explained.as_of.day \in Days
      /\ EffectiveDay(explained.as_of) = explained.as_of.day
      /\ c \in ScoreUnit(explained.unit, explained.as_of).contributions
  BY ExplainedFacts, ExtendedDay
<1>2. /\ c.value = series[c.parameter][EffectiveDay(explained.as_of)]
      /\ c.zone = ZoneFor(c.value, Bands[c.parameter])
  BY <1>1, SeriesTyped, ScoreFacts
<1> QED BY <1>1, <1>2

\* What a raw point of an answer says of its day.
LEMMA RawPointOnDay ==
  ASSUME SeriesOK, HistoryInv, history.ok, history.resolution = "raw",
         NEW code \in Reported(history.unit), NEW i \in DOMAIN Points(code)
  PROVE  LET p == Points(code)[i]
         IN  p.day \in Days /\ p.value = series[code][p.day] /\ p.zone = ZoneFor(series[code][p.day], Bands[code])
<1> DEFINE w == history.returned  unit == history.unit  points == Points(code)
<1>1. PICK up : history.series[code] = SeriesFor(unit, code, w, up)
  BY HistoryFacts DEF Reported
<1>2. unit \in UnitSet /\ IsWindow(w) /\ points = SeriesFor(unit, code, w, up).points
      /\ code \in ParametersOf[unit] /\ Resolution(w) = "raw"
  BY <1>1, HistoryFacts DEF Points, Reported
<1>3. /\ i \in 1..DaysOf(w) /\ w.start + i - 1 \in Days
      /\ points[i] = [day |-> w.start + i - 1, value |-> series[code][w.start + i - 1],
                      zone |-> ZoneFor(series[code][w.start + i - 1], Bands[code])]
  <2>1. i \in DOMAIN points
    OBVIOUS
  <2> HIDE DEF points, w, unit
  <2>2. /\ DOMAIN points = 1..DaysOf(w)
        /\ \A j \in 1..DaysOf(w) :
             /\ w.start + j - 1 \in Days
             /\ points[j] = [day |-> w.start + j - 1, value |-> series[code][w.start + j - 1],
                             zone |-> ZoneFor(series[code][w.start + j - 1], Bands[code])]
    BY <1>2, RawPoints
  <2> QED BY <2>1, <2>2
<1> DEFINE d == w.start + i - 1
<1> HIDE DEF d, points
<1>4. d \in Days /\ points[i] = [day |-> d, value |-> series[code][d], zone |-> ZoneFor(series[code][d], Bands[code])]
  BY <1>3 DEF d
<1> QED BY <1>4 DEF points

\* Raw readings and explained scores put a day in the same zone.
LEMMA RawAgrees ==
  ASSUME Forms \subseteq {"extended"}
  PROVE  Inv /\ HistoryInv => RawAgreesWithScore
<1> SUFFICES ASSUME Inv, HistoryInv, history.ok, history.resolution = "raw", explained.ok,
                    explained.unit = history.unit, NEW code \in Reported(history.unit), NEW i \in DOMAIN AllPoints[code],
                    NEW c \in explained.score.contributions, c.parameter = code,
                    explained.as_of.day = AllPoints[code][i].day
             PROVE  AllPoints[code][i].zone = c.zone
  BY DEF RawAgreesWithScore, AgreesWithScore
<1>1. AllPoints[code] = Points(code)
  BY DEF AllPoints, Reported
<1>2. Points(code)[i].zone = ZoneFor(series[code][Points(code)[i].day], Bands[code])
  BY <1>1, SeriesTyped, RawPointOnDay
<1>3. c.zone = ZoneFor(series[code][explained.as_of.day], Bands[code])
  BY ExplainedOnDay
<1> QED BY <1>1, <1>2, <1>3

===============================================================================
