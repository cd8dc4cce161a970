----------------------------- MODULE ReportsProofs -----------------------------
(* The two reports, proved for all values of the constants: what showLog   *)
(* prints are the sums of the days and of the weeks, what calcTodayWork    *)
(* says is the line that showLog will print for today, and within a day it *)
(* falls only by what the handlers take back from a record.                *)
EXTENDS Reports, SequenceTheorems, WellFoundedInduction, TLAPS

-----------------------------------------------------------------------------
(* Numbers. *)

(* Division is unique. *)
LEMMA Divided ==
  ASSUME NEW a \in Int, NEW m \in Nat \ {0}
  PROVE  /\ a \div m \in Int /\ a % m \in 0 .. (m - 1)
         /\ a = m * (a \div m) + (a % m)
         /\ a \in Nat => a \div m \in Nat
OBVIOUS

(* A number has one quotient and one remainder.                            *)
LEMMA DividedOnce ==
  ASSUME NEW a \in Int, NEW m \in Nat \ {0}, NEW q \in Int, NEW r \in 0 .. (m - 1),
         a = m * q + r
  PROVE  a \div m = q /\ a % m = r
OBVIOUS

(* What is not less has no smaller quotient. *)
LEMMA DivisionGrows ==
  ASSUME NEW a \in Int, NEW b \in Int, a <= b, NEW m \in Nat \ {0}
  PROVE  a \div m <= b \div m
  <1>. DEFINE p == a \div m
              q == b \div m
  <1>1. /\ p \in Int /\ a % m \in 0 .. (m - 1) /\ a = m * p + (a % m)
        /\ q \in Int /\ b % m \in 0 .. (m - 1) /\ b = m * q + (b % m)
    BY Divided
  <1>. HIDE DEF p, q
  <1>2. SUFFICES ASSUME q < p PROVE FALSE
    BY <1>1 DEF p, q
  <1>3. m * (q + 1) <= m * p
    BY <1>1, <1>2
  <1>4. m * (q + 1) = m * q + m
    BY <1>1
  <1>5. QED BY <1>1, <1>3, <1>4

HalfRange == IntRange \div 2

(* Half of the values of an int are negative.                              *)
LEMMA IntIsHalved ==
  /\ HalfRange \in Nat \ {0} /\ IntRange = HalfRange + HalfRange
  /\ IntRange \in Nat \ {0} /\ IntRange \div 2 = HalfRange
  <1>1. IntRange \in Nat \ {0} /\ IntRange % 2 = 0
    BY ReportsAssumption
  <1>2. HalfRange = IntRange \div 2
    BY DEF HalfRange
  <1>3. QED BY <1>1, <1>2

(* An int holds the numbers that fit, and is always off by a multiple of   *)
(* its range.                                                              *)
LEMMA Int32Fits ==
  ASSUME NEW x \in Int
  PROVE  /\ Int32(x) \in Int
         /\ -HalfRange <= x /\ x < HalfRange => Int32(x) = x
  <1>1. (x + HalfRange) % IntRange \in 0 .. (IntRange - 1)
    BY IntIsHalved, Divided
  <1>2. Int32(x) = ((x + HalfRange) % IntRange) - HalfRange
    BY IntIsHalved DEF Int32
  <1>3. ASSUME -HalfRange <= x, x < HalfRange PROVE Int32(x) = x
    <2>1. x + HalfRange \in 0 .. (IntRange - 1) /\ x + HalfRange = IntRange * 0 + (x + HalfRange)
      BY <1>3, IntIsHalved
    <2>2. (x + HalfRange) % IntRange = x + HalfRange
      BY <2>1, IntIsHalved, DividedOnce
    <2>3. QED BY <1>2, <2>2, IntIsHalved
  <1>4. QED BY <1>1, <1>2, <1>3, IntIsHalved

(* What is added to an int may as well be added before it wraps.           *)
LEMMA Int32Wraps ==
  ASSUME NEW a \in Int, NEW b \in Int
  PROVE  Int32(Int32(a) + b) = Int32(a + b)
  <1>. DEFINE h == HalfRange
              x == a + h
              q == x \div IntRange
              y == a + b + h
              p == y \div IntRange
  <1>1. /\ x \in Int /\ y \in Int /\ q \in Int /\ p \in Int
        /\ x = IntRange * q + (x % IntRange) /\ x % IntRange \in 0 .. (IntRange - 1)
        /\ y = IntRange * p + (y % IntRange) /\ y % IntRange \in 0 .. (IntRange - 1)
    <2>1. x \in Int /\ y \in Int
      BY IntIsHalved
    <2>. HIDE DEF x, y
    <2>2. QED BY <2>1, Divided, IntIsHalved
  <1>2. Int32(a) = (x % IntRange) - h /\ Int32(a + b) = (y % IntRange) - h
    BY IntIsHalved DEF Int32
  <1>. DEFINE z == Int32(a) + b + h
  <1>3. Int32(Int32(a) + b) = (z % IntRange) - h
    BY IntIsHalved DEF Int32
  <1>. HIDE DEF q, p
  <1>4. z = y - IntRange * q
    BY <1>1, <1>2, IntIsHalved
  <1>5. IntRange * p - IntRange * q = IntRange * (p - q)
    BY <1>1, IntIsHalved
  <1>. HIDE DEF z, y
  <1>6. z = IntRange * (p - q) + (y % IntRange) /\ z \in Int
    BY <1>1, <1>4, <1>5, IntIsHalved
  <1>7. z % IntRange = y % IntRange
    <2>. DEFINE d == p - q
                r == y % IntRange
    <2>1. d \in Int /\ r \in 0 .. (IntRange - 1) /\ z \in Int /\ z = IntRange * d + r
      BY <1>1, <1>6
    <2>. HIDE DEF d, r
    <2>2. z % IntRange = r
      BY <2>1, DividedOnce, IntIsHalved
    <2>3. QED BY <2>2 DEF r
  <1>8. QED BY <1>2, <1>3, <1>7

(* A sum of ints is the int of the sum. *)
LEMMA Int32Adds ==
  ASSUME NEW a \in Int, NEW b \in Int
  PROVE  Int32(Int32(a) + Int32(b)) = Int32(a + b)
  <1>1. Int32(b) \in Int
    BY Int32Fits
  <1>2. Int32(Int32(a) + Int32(b)) = Int32(a + Int32(b))
    BY <1>1, Int32Wraps
  <1>3. a + Int32(b) = Int32(b) + a /\ b + a = a + b
    BY <1>1
  <1>4. Int32(Int32(b) + a) = Int32(b + a)
    BY Int32Wraps
  <1>5. QED BY <1>2, <1>3, <1>4

-----------------------------------------------------------------------------
(* The calendar. *)

(* Days and dates, and how they go on. *)
LEMMA CalendarUnits ==
  /\ SecsPerDay \in Nat \ {0} /\ DaysPerWeek \in Nat \ {0}
  /\ DaysPerMonth \in Nat \ {0} /\ MonthsPerYear \in Nat \ {0}
BY ReportsAssumption

Dates == [mday : Int, mon : Int, year : Int, wday : Int]

(* localtime makes a date, whose day counts from 1.                        *)
LEMMA DatesOfDays ==
  ASSUME NEW t \in Nat
  PROVE  /\ Day(t) \in Nat
         /\ localtime(t) \in Dates /\ localtime(t).mday >= 1 /\ localtime(t).wday >= 0
  <1>. DEFINE d == Day(t)
              month == d \div DaysPerMonth
  <1>1. d \in Nat
    BY Divided, CalendarUnits DEF Day
  <1>. HIDE DEF d
  <1>2. d % DaysPerMonth \in 0 .. (DaysPerMonth - 1) /\ d % DaysPerWeek \in 0 .. (DaysPerWeek - 1)
    <2>1. d \in Int
      BY <1>1
    <2>2. d % DaysPerMonth \in 0 .. (DaysPerMonth - 1)
      BY <2>1, Divided, CalendarUnits
    <2>3. d % DaysPerWeek \in 0 .. (DaysPerWeek - 1)
      BY <2>1, Divided, CalendarUnits
    <2>4. QED BY <2>2, <2>3
  <1>3. month % MonthsPerYear \in 0 .. (MonthsPerYear - 1) /\ month \div MonthsPerYear \in Nat
    <2>1. month \in Nat
      BY <1>1, Divided, CalendarUnits
    <2>. HIDE DEF month
    <2>2. month % MonthsPerYear \in 0 .. (MonthsPerYear - 1)
      BY <2>1, Divided, CalendarUnits
    <2>3. month \div MonthsPerYear \in Nat
      BY <2>1, Divided, CalendarUnits
    <2>4. QED BY <2>2, <2>3
  <1>4. /\ localtime(t).mday = (d % DaysPerMonth) + 1 /\ localtime(t).wday = d % DaysPerWeek
        /\ localtime(t) = [mday |-> (d % DaysPerMonth) + 1, mon |-> month % MonthsPerYear,
                           year |-> month \div MonthsPerYear, wday |-> d % DaysPerWeek]
    BY DEF localtime, d, month
  <1>5. QED BY <1>1, <1>2, <1>3, <1>4, CalendarUnits DEF Dates, d

(* A date tells its day. *)
LEMMA DateTellsDay ==
  ASSUME NEW a \in Nat, NEW b \in Nat
  PROVE  /\ SameDate(localtime(a), localtime(b)) <=> Day(a) = Day(b)
         /\ localtime(a) = localtime(b) <=> Day(a) = Day(b)
  <1>. DEFINE d == Day(a)
              e == Day(b)
              m == d \div DaysPerMonth
              n == e \div DaysPerMonth
  <1>1. d \in Nat /\ e \in Nat
    BY DatesOfDays
  <1>2. d = e => localtime(a) = localtime(b)
    BY DEF localtime
  <1>3. localtime(a) = localtime(b) => SameDate(localtime(a), localtime(b))
    BY DEF SameDate
  <1>4. ASSUME SameDate(localtime(a), localtime(b)) PROVE d = e
    <2>1. /\ (d % DaysPerMonth) + 1 = (e % DaysPerMonth) + 1
          /\ m % MonthsPerYear = n % MonthsPerYear
          /\ m \div MonthsPerYear = n \div MonthsPerYear
      BY <1>4 DEF SameDate, localtime
    <2>. HIDE DEF d, e
    <2>2. m \in Int /\ d = DaysPerMonth * m + (d % DaysPerMonth) /\ d % DaysPerMonth \in Int
      BY <1>1, Divided, CalendarUnits
    <2>3. n \in Int /\ e = DaysPerMonth * n + (e % DaysPerMonth) /\ e % DaysPerMonth \in Int
      BY <1>1, Divided, CalendarUnits
    <2>. HIDE DEF m, n
    <2>4. m = MonthsPerYear * (m \div MonthsPerYear) + (m % MonthsPerYear)
      BY <2>2, Divided, CalendarUnits
    <2>5. n = MonthsPerYear * (n \div MonthsPerYear) + (n % MonthsPerYear)
      BY <2>3, Divided, CalendarUnits
    <2>6. m = n
      BY <2>1, <2>4, <2>5
    <2>7. d % DaysPerMonth = e % DaysPerMonth
      BY <2>1, <2>2, <2>3
    <2>8. QED BY <2>2, <2>3, <2>6, <2>7
  <1>5. QED BY <1>2, <1>3, <1>4

(* Later times are of later days, and those of later weeks. *)
LEMMA DaysGrow ==
  ASSUME NEW a \in Nat, NEW b \in Nat, a <= b
  PROVE  Day(a) <= Day(b) /\ Day(a) \div DaysPerWeek <= Day(b) \div DaysPerWeek
  <1>1. Day(a) <= Day(b)
    BY DivisionGrows, CalendarUnits DEF Day
  <1>2. QED BY <1>1, DatesOfDays, DivisionGrows, CalendarUnits

(* If none is of a later day, a time is of today just when it is past      *)
(* midnight.                                                               *)
LEMMA TodayBegins ==
  ASSUME NEW a \in Nat, NEW b \in Nat, Day(a) <= Day(b)
  PROVE  /\ a >= Midnight(b) <=> Day(a) = Day(b)
         /\ Midnight(b) \in Nat /\ b < Midnight(b) + SecsPerDay
  <1>. DEFINE d == Day(a)
              e == Day(b)
  <1>1. /\ d \in Nat /\ a = SecsPerDay * d + (a % SecsPerDay)
        /\ a % SecsPerDay \in 0 .. (SecsPerDay - 1)
    <2>1. a \in Int /\ d \in Nat /\ d = a \div SecsPerDay
      BY DatesOfDays DEF Day
    <2>2. a = SecsPerDay * (a \div SecsPerDay) + (a % SecsPerDay)
      BY <2>1, Divided, CalendarUnits
    <2>3. a % SecsPerDay \in 0 .. (SecsPerDay - 1)
      BY <2>1, Divided, CalendarUnits
    <2>. HIDE DEF d
    <2>4. QED BY <2>1, <2>2, <2>3
  <1>2. /\ e \in Nat /\ b = SecsPerDay * e + (b % SecsPerDay)
        /\ b % SecsPerDay \in 0 .. (SecsPerDay - 1)
    <2>1. b \in Int /\ e \in Nat /\ e = b \div SecsPerDay
      BY DatesOfDays DEF Day
    <2>2. b = SecsPerDay * (b \div SecsPerDay) + (b % SecsPerDay)
      BY <2>1, Divided, CalendarUnits
    <2>3. b % SecsPerDay \in 0 .. (SecsPerDay - 1)
      BY <2>1, Divided, CalendarUnits
    <2>. HIDE DEF e
    <2>4. QED BY <2>1, <2>2, <2>3
  <1>3. d <= e
    OBVIOUS
  <1>4. Midnight(b) = e * SecsPerDay
    BY DEF Midnight
  <1>. HIDE DEF d, e
  <1>5. e * SecsPerDay = SecsPerDay * e /\ e * SecsPerDay \in Nat
    BY <1>2, CalendarUnits
  <1>6. ASSUME d < e PROVE a < Midnight(b)
    <2>1. SecsPerDay * (d + 1) <= SecsPerDay * e
      BY <1>1, <1>2, <1>6, CalendarUnits
    <2>2. SecsPerDay * (d + 1) = SecsPerDay * d + SecsPerDay
      BY <1>1, CalendarUnits
    <2>3. SecsPerDay * d \in Nat /\ SecsPerDay * e \in Nat
      BY <1>1, <1>2, CalendarUnits
    <2>4. QED BY <1>1, <1>4, <1>5, <2>1, <2>2, <2>3, CalendarUnits
  <1>7. ASSUME d = e PROVE a >= Midnight(b)
    BY <1>1, <1>4, <1>5, <1>7, CalendarUnits
  <1>8. b < Midnight(b) + SecsPerDay
    BY <1>2, <1>4, <1>5, CalendarUnits
  <1>9. (a >= Midnight(b)) <=> d = e
    BY <1>1, <1>2, <1>3, <1>4, <1>5, <1>6, <1>7
  <1>10. QED BY <1>4, <1>5, <1>8, <1>9 DEF d, e

(* The loop's test for a new week, between records of which the second one *)
(* is later but not more than a week across the end of a month.            *)
LEMMA NextWeekIsExact ==
  ASSUME NEW a \in Nat, NEW b \in Nat, a <= b,
         \/ Day(b) - Day(a) < DaysPerWeek
         \/ Day(a) \div DaysPerMonth = Day(b) \div DaysPerMonth
  PROVE  NextWeek(localtime(a), localtime(b)) <=>
           Day(a) \div DaysPerWeek # Day(b) \div DaysPerWeek
  <1>. DEFINE d == Day(a)
              e == Day(b)
              p == d % DaysPerWeek
              q == e % DaysPerWeek
              v == d \div DaysPerWeek
              w == e \div DaysPerWeek
              m == d % DaysPerMonth
              n == e % DaysPerMonth
              x == d \div DaysPerMonth
              y == e \div DaysPerMonth
  <1>1. d \in Nat /\ e \in Nat /\ d <= e
    BY DatesOfDays, DaysGrow
  <1>2. NextWeek(localtime(a), localtime(b)) <=> q < p \/ n + 1 >= m + 1 + DaysPerWeek
    BY DEF NextWeek, localtime
  <1>3. e - d < DaysPerWeek \/ x = y
    OBVIOUS
  <1>. HIDE DEF d, e
  <1>4. /\ v \in Int /\ p \in 0 .. (DaysPerWeek - 1) /\ d = DaysPerWeek * v + p
        /\ x \in Int /\ m \in 0 .. (DaysPerMonth - 1) /\ d = DaysPerMonth * x + m
    <2>1. d \in Int
      BY <1>1
    <2>2. v \in Int /\ p \in 0 .. (DaysPerWeek - 1) /\ d = DaysPerWeek * v + p
      BY <2>1, Divided, CalendarUnits
    <2>3. x \in Int /\ m \in 0 .. (DaysPerMonth - 1) /\ d = DaysPerMonth * x + m
      BY <2>1, Divided, CalendarUnits
    <2>. HIDE DEF v, p, x, m
    <2>4. QED BY <2>2, <2>3
  <1>5. /\ w \in Int /\ q \in 0 .. (DaysPerWeek - 1) /\ e = DaysPerWeek * w + q
        /\ y \in Int /\ n \in 0 .. (DaysPerMonth - 1) /\ e = DaysPerMonth * y + n
    <2>1. e \in Int
      BY <1>1
    <2>2. w \in Int /\ q \in 0 .. (DaysPerWeek - 1) /\ e = DaysPerWeek * w + q
      BY <2>1, Divided, CalendarUnits
    <2>3. y \in Int /\ n \in 0 .. (DaysPerMonth - 1) /\ e = DaysPerMonth * y + n
      BY <2>1, Divided, CalendarUnits
    <2>. HIDE DEF w, q, y, n
    <2>4. QED BY <2>2, <2>3
  <1>6. v <= w /\ x <= y
    BY <1>1, DivisionGrows, CalendarUnits
  <1>. HIDE DEF p, q, v, w, m, n, x, y
  <1>. SUFFICES (q < p \/ n + 1 >= m + 1 + DaysPerWeek) <=> v # w
    BY <1>2 DEF v, w, d, e
  <1>7. CASE v = w
    <2>1. p <= q /\ e - d = q - p /\ e - d < DaysPerWeek
      BY <1>1, <1>4, <1>5, <1>7, CalendarUnits
    <2>2. CASE x = y
      BY <1>1, <1>4, <1>5, <1>7, <2>1, <2>2, CalendarUnits
    <2>3. CASE x < y
      <3>1. DaysPerMonth * (x + 1) <= DaysPerMonth * y
        BY <1>4, <1>5, <2>3, CalendarUnits
      <3>2. DaysPerMonth * (x + 1) = DaysPerMonth * x + DaysPerMonth
        BY <1>4, CalendarUnits
      <3>3. n - m <= e - d
        BY <1>1, <1>4, <1>5, <3>1, <3>2, CalendarUnits
      <3>4. QED BY <1>1, <1>4, <1>5, <1>7, <2>1, <3>3, CalendarUnits
    <2>4. QED BY <1>4, <1>5, <1>6, <2>2, <2>3
  <1>8. CASE v < w
    <2>1. CASE e - d < DaysPerWeek
      <3>1. DaysPerWeek * (v + 1) <= DaysPerWeek * w
        BY <1>4, <1>5, <1>8, CalendarUnits
      <3>2. DaysPerWeek * (v + 1) = DaysPerWeek * v + DaysPerWeek
        BY <1>4, CalendarUnits
      <3>3. q < p
        BY <1>1, <1>4, <1>5, <2>1, <3>1, <3>2, CalendarUnits
      <3>4. QED BY <1>4, <1>5, <1>8, <3>3
    <2>2. CASE e - d >= DaysPerWeek
      <3>1. x = y
        BY <1>1, <1>3, <2>2, CalendarUnits
      <3>2. n - m = e - d
        BY <1>1, <1>4, <1>5, <3>1, CalendarUnits
      <3>3. n + 1 >= m + 1 + DaysPerWeek
        BY <1>4, <1>5, <2>2, <3>2, <1>1, CalendarUnits
      <3>4. QED BY <1>4, <1>5, <1>8, <3>3
    <2>3. QED BY <1>1, <2>1, <2>2, CalendarUnits
  <1>9. QED BY <1>4, <1>5, <1>6, <1>7, <1>8

-----------------------------------------------------------------------------
(* Induction over the records, and what is defined by it. *)

(* A nonempty set of numbers has a least one. *)
Below == {ss \in Nat \X Nat : ss[1] < ss[2]}

(* The order of the numbers is well founded.                               *)
LEMMA LeastNumber ==
  ASSUME NEW T \in SUBSET Nat, T # {}
  PROVE  \E n \in T : \A m \in T : n <= m
  <1>1. IsWellFoundedOn(Below, Nat)
    BY NatLessThanWellFounded DEF OpToRel, Below
  <1>2. \E n \in T : \A m \in T : ~(<<m, n>> \in Below)
    BY <1>1, WFMin
  <1>3. PICK n \in T : \A m \in T : ~(<<m, n>> \in Below)
    BY <1>2
  <1>4. ASSUME NEW m \in T PROVE n <= m
    <2>1. m \in Nat /\ n \in Nat /\ ~(<<m, n>> \in Below)
      BY <1>3
    <2>2. <<m, n>> \in Nat \X Nat
      BY <2>1
    <2>3. ~(m < n)
      BY <2>1, <2>2 DEF Below
    <2>4. QED BY <2>1, <2>3
  <1>5. QED BY <1>3, <1>4

(* What holds of 0, and of n + 1 when it holds of n, holds up to N. *)
LEMMA Induction ==
  ASSUME NEW N \in Nat, NEW T, 0 \in T, \A n \in 0 .. N : n < N /\ n \in T => n + 1 \in T
  PROVE  \A n \in 0 .. N : n \in T
  <1>. DEFINE B == (0 .. N) \ T
  <1>1. SUFFICES ASSUME B # {} PROVE FALSE
    OBVIOUS
  <1>2. B \in SUBSET Nat
    OBVIOUS
  <1>3. \E n \in B : \A m \in B : n <= m
    <2>. HIDE DEF B
    <2>. QED BY <1>1, <1>2, LeastNumber
  <1>4. PICK n \in B : \A m \in B : n <= m
    BY <1>3
  <1>5. n # 0 /\ n - 1 \in 0 .. N /\ n - 1 < N /\ ~(n <= n - 1) /\ (n - 1) + 1 = n
    BY <1>4
  <1>6. n - 1 \in T
    BY <1>4, <1>5
  <1>7. n \in T
    BY <1>5, <1>6
  <1>8. QED BY <1>4, <1>7

(* A function that is given by its first value and each next one exists. *)
Steps(N, V, base, step) ==
  {f \in [0 .. N -> V] : f[0] = base /\ \A n \in 1 .. N : f[n] = step[n][f[n - 1]]}

(* It is built up one value at a time.                                     *)
LEMMA Recursion ==
  ASSUME NEW N \in Nat, NEW V, NEW base \in V, NEW step \in [1 .. N -> [V -> V]]
  PROVE  Steps(N, V, base, step) # {}
  <1>. DEFINE Good(m, f) == f[0] = base /\ \A n \in 1 .. m : f[n] = step[n][f[n - 1]]
              T == {m \in 0 .. N : \E f \in [0 .. m -> V] : Good(m, f)}
  <1>1. 0 \in T
    <2>1. [n \in 0 .. 0 |-> base] \in [0 .. 0 -> V] /\ Good(0, [n \in 0 .. 0 |-> base])
      OBVIOUS
    <2>2. 0 \in 0 .. N
      OBVIOUS
    <2>. HIDE DEF Good
    <2>3. QED BY <2>1, <2>2
  <1>2. ASSUME NEW m \in 0 .. N, m < N, m \in T PROVE m + 1 \in T
    <2>1. PICK f \in [0 .. m -> V] : Good(m, f)
      BY <1>2
    <2>. DEFINE last == step[m + 1][f[m]]
                g == [n \in 0 .. (m + 1) |-> IF n = m + 1 THEN last ELSE f[n]]
    <2>2. m + 1 \in 1 .. N /\ m + 1 \in 0 .. N /\ f[m] \in V
      BY <1>2
    <2>3. last \in V
      BY <2>2
    <2>4. g \in [0 .. (m + 1) -> V]
      BY <2>3
    <2>5. \A n \in 0 .. m : g[n] = f[n]
      OBVIOUS
    <2>6. g[m + 1] = last
      OBVIOUS
    <2>. HIDE DEF g
    <2>7. ASSUME NEW n \in 1 .. (m + 1) PROVE g[n] = step[n][g[n - 1]]
      <3>1. CASE n = m + 1
        <4>1. g[n - 1] = f[m]
          BY <2>5, <3>1
        <4>2. QED BY <2>6, <3>1, <4>1
      <3>2. CASE n # m + 1
        <4>1. n \in 1 .. m /\ n \in 0 .. m /\ n - 1 \in 0 .. m
          BY <3>2
        <4>2. QED BY <2>1, <2>5, <4>1
      <3>3. QED BY <3>1, <3>2
    <2>8. g[0] = base
      BY <2>1, <2>5
    <2>9. Good(m + 1, g)
      BY <2>7, <2>8
    <2>. HIDE DEF Good
    <2>10. QED BY <2>2, <2>4, <2>9
  <1>3. \A n \in 0 .. N : n \in T
    <2>. HIDE DEF T
    <2>. QED BY <1>1, <1>2, Induction
  <1>4. N \in T
    BY <1>3
  <1>5. QED BY <1>4 DEF Steps

(* What a record adds to the sum of those numbered in I. *)
Share(rows, I, n) == IF n \in I THEN Length(rows[n]) ELSE 0

(* A share is a number, be the record ended or open.                       *)
LEMMA SharesAreInts ==
  ASSUME NEW rows \in Seq(Row), NEW I, NEW n \in 1 .. Len(rows)
  PROVE  Share(rows, I, n) \in Int /\ rows[n] \in Row
         /\ rows[n].start \in Nat /\ rows[n].end \in Nat
  <1>1. rows[n] \in Row
    BY ElementOfSeq
  <1>2. QED BY <1>1 DEF Share, Length, Row

(* The sums exist. *)
LEMMA PartsExist ==
  ASSUME NEW N \in Nat, NEW share, \A n \in 1 .. N : share[n] \in Int
  PROVE  \E f \in [0 .. N -> Int] :
           f = [n \in 0 .. N |-> IF n = 0 THEN 0 ELSE f[n - 1] + share[n]]
  <1>. DEFINE V == Int
              zero == 0
              step == [n \in 1 .. N |-> [v \in V |-> v + share[n]]]
  <1>1. zero \in V /\ step \in [1 .. N -> [V -> V]]
    OBVIOUS
  <1>2. Steps(N, V, zero, step) # {}
    <2>. HIDE DEF V, zero, step
    <2>. QED BY <1>1, Recursion
  <1>3. PICK f \in Steps(N, V, zero, step) : TRUE
    BY <1>2
  <1>4. f \in [0 .. N -> V] /\ f[0] = 0 /\ \A n \in 1 .. N : f[n] = step[n][f[n - 1]]
    BY <1>3 DEF Steps
  <1>5. \A n \in 1 .. N : n - 1 \in 0 .. N /\ f[n - 1] \in V
    BY <1>4
  <1>6. \A n \in 1 .. N : f[n] = f[n - 1] + share[n]
    BY <1>4, <1>5
  <1>7. \A n \in 0 .. N : f[n] = IF n = 0 THEN 0 ELSE f[n - 1] + share[n]
    BY <1>4, <1>6
  <1>. DEFINE g == [n \in 0 .. N |-> IF n = 0 THEN 0 ELSE f[n - 1] + share[n]]
  <1>8. f = [n \in 0 .. N |-> f[n]]
    BY <1>4
  <1>9. f = g
    BY <1>7, <1>8
  <1>10. QED BY <1>4, <1>9

(* Parts is the function its equation describes: each sum is the one       *)
(* before it and a share.                                                  *)
LEMMA PartsAreSums ==
  ASSUME NEW rows \in Seq(Row), NEW I
  PROVE  /\ Parts(rows, I) \in [0 .. Len(rows) -> Int]
         /\ Parts(rows, I)[0] = 0
         /\ \A n \in 1 .. Len(rows) :
              Parts(rows, I)[n] = Parts(rows, I)[n - 1] + Share(rows, I, n)
  <1>. DEFINE N == Len(rows)
              P == Parts(rows, I)
              share == [n \in 1 .. N |-> Share(rows, I, n)]
              Rec(f) == [n \in 0 .. N |-> IF n = 0 THEN 0 ELSE f[n - 1] + share[n]]
  <1>1. N \in Nat
    BY LenProperties
  <1>2. \A n \in 1 .. N : share[n] \in Int /\ share[n] = Share(rows, I, n)
    BY SharesAreInts
  <1>3. PICK f \in [0 .. N -> Int] : f = Rec(f)
    <2>. HIDE DEF N, share
    <2>. QED BY <1>1, <1>2, PartsExist
  <1>4. \A g : Rec(g) = [n \in 0 .. N |->
                           IF n = 0 THEN 0 ELSE g[n - 1] + (IF n \in I THEN Length(rows[n]) ELSE 0)]
    BY <1>1 DEF Share
  <1>5. P = CHOOSE g : g = Rec(g)
    BY <1>4 DEF Parts
  <1>6. P = Rec(P)
    <2>. HIDE DEF Rec
    <2>. QED BY <1>3, <1>5, Zenon
  <1>. HIDE DEF P, N, share
  <1>7. DOMAIN P = 0 .. N /\ P = [n \in 0 .. N |-> P[n]]
        /\ \A n \in 0 .. N : P[n] = IF n = 0 THEN 0 ELSE P[n - 1] + share[n]
    BY <1>6
  <1>8. P[0] = 0 /\ \A n \in 1 .. N : P[n] = P[n - 1] + share[n]
    BY <1>1, <1>7
  <1>9. \A n \in 0 .. N : P[n] \in Int
    <2>. DEFINE T == {n \in 0 .. N : P[n] \in Int}
    <2>1. 0 \in T
      BY <1>1, <1>8
    <2>2. ASSUME NEW n \in 0 .. N, n < N, n \in T PROVE n + 1 \in T
      <3>1. n + 1 \in 1 .. N /\ n + 1 \in 0 .. N /\ (n + 1) - 1 = n
        BY <1>1, <2>2
      <3>2. P[n + 1] = P[n] + share[n + 1]
        BY <1>8, <3>1
      <3>3. share[n + 1] \in Int /\ P[n] \in Int
        BY <1>2, <2>2, <3>1
      <3>4. P[n + 1] \in Int
        BY <3>2, <3>3
      <3>5. QED BY <3>1, <3>4
    <2>3. \A n \in 0 .. N : n \in T
      <3>. HIDE DEF T
      <3>. QED BY <1>1, <2>1, <2>2, Induction
    <2>4. QED BY <2>3
  <1>10. P \in [0 .. N -> Int]
    BY <1>7, <1>9
  <1>11. \A n \in 1 .. N : P[n] = P[n - 1] + Share(rows, I, n)
    BY <1>2, <1>8
  <1>12. QED BY <1>8, <1>10, <1>11 DEF P, N

-----------------------------------------------------------------------------
(* The loop of showLog. *)

Kinds == {"day", "week"}
Line == [kind : Kinds, date : Dates, total : Int]
Page == [text : Seq(Line), last : Dates, total : Int, weekTotal : Int]

(* A line is appended for a total, and none for nothing. *)
LEMMA Appended ==
  ASSUME NEW text \in Seq(Line), NEW kind \in Kinds, NEW date \in Dates, NEW total \in Int
  PROVE  appendLine(text, kind, date, total) \in Seq(Line)
  <1>1. [kind |-> kind, date |-> date, total |-> total] \in Line
    BY DEF Line
  <1>2. Append(text, [kind |-> kind, date |-> date, total |-> total]) \in Seq(Line)
    BY <1>1, AppendProperties
  <1>3. QED BY <1>2 DEF appendLine

(* A page has the two lines it may end with.                               *)
LEMMA LinesOfPage ==
  ASSUME NEW s \in Page
  PROVE  /\ s.text \in Seq(Line) /\ s.last \in Dates /\ s.total \in Int /\ s.weekTotal \in Int
         /\ DayLine(s) \in Seq(Line)
         /\ WeekLine(DayLine(s), s) \in Seq(Line)
  <1>1. s.text \in Seq(Line) /\ s.last \in Dates /\ s.total \in Int /\ s.weekTotal \in Int
    BY DEF Page
  <1>2. "day" \in Kinds /\ "week" \in Kinds
    BY DEF Kinds
  <1>3. DayLine(s) \in Seq(Line)
    BY <1>1, <1>2, Appended DEF DayLine
  <1>4. WeekLine(DayLine(s), s) \in Seq(Line)
    BY <1>1, <1>2, <1>3, Appended DEF WeekLine
  <1>5. QED BY <1>1, <1>3, <1>4

(* A record makes a page of a page.                                        *)
LEMMA AddRecordMakesPage ==
  ASSUME NEW s \in Page, NEW r \in Row
  PROVE  AddRecord(s, r) \in Page
  <1>. DEFINE tm == localtime(r.start)
              p == TurnPage(s, tm)
              diff == Int32(r.end - r.start)
  <1>1. r.start \in Nat /\ r.end \in Nat
    BY DEF Row
  <1>2. tm \in Dates
    BY <1>1, DatesOfDays
  <1>. HIDE DEF tm
  <1>3. p \in Page
    BY <1>2, LinesOfPage DEF TurnPage, Page
  <1>4. diff \in Int
    BY <1>1, Int32Fits
  <1>5. AddRecord(s, r) = [p EXCEPT !.total = Int32(p.total + diff),
                                    !.weekTotal = Int32(p.weekTotal + diff)]
    BY DEF AddRecord, tm
  <1>. HIDE DEF p, diff
  <1>6. Int32(p.total + diff) \in Int /\ Int32(p.weekTotal + diff) \in Int
    <2>1. p.total + diff \in Int /\ p.weekTotal + diff \in Int
      BY <1>3, <1>4 DEF Page
    <2>2. QED BY <2>1, Int32Fits
  <1>7. QED BY <1>3, <1>5, <1>6 DEF Page

(* What the loop has after each record it gets from what it had before.    *)
LEMMA PagesAreSteps ==
  ASSUME NEW rows \in Seq(Row)
  PROVE  /\ Pages(rows) \in [0 .. Len(rows) -> Page]
         /\ Pages(rows)[0] = Started
         /\ \A n \in 1 .. Len(rows) : Pages(rows)[n] = AddRecord(Pages(rows)[n - 1], rows[n])
  <1>. DEFINE N == Len(rows)
              V == Page
              first == Started
              P == Pages(rows)
              step == [n \in 1 .. N |-> [s \in V |-> AddRecord(s, rows[n])]]
              Rec(f) == [n \in 0 .. N |-> IF n = 0 THEN Started ELSE AddRecord(f[n - 1], rows[n])]
  <1>1. N \in Nat /\ \A n \in 1 .. N : rows[n] \in Row
    BY LenProperties, ElementOfSeq
  <1>2. first \in V
    BY EmptySeq DEF Started, ZeroDate, Page, Dates
  <1>3. step \in [1 .. N -> [V -> V]]
    BY <1>1, AddRecordMakesPage
  <1>4. Steps(N, V, first, step) # {}
    <2>. HIDE DEF N, V, first, step
    <2>. QED BY <1>1, <1>2, <1>3, Recursion
  <1>5. PICK f \in Steps(N, V, first, step) : TRUE
    BY <1>4
  <1>6. f \in [0 .. N -> V] /\ f[0] = first /\ \A n \in 1 .. N : f[n] = step[n][f[n - 1]]
    BY <1>5 DEF Steps
  <1>7. \A n \in 1 .. N : f[n] = AddRecord(f[n - 1], rows[n])
    <2>1. SUFFICES ASSUME NEW n \in 1 .. N PROVE f[n] = AddRecord(f[n - 1], rows[n])
      OBVIOUS
    <2>2. n - 1 \in 0 .. N
      BY <1>1
    <2>3. f[n - 1] \in V
      BY <1>6, <2>2
    <2>4. step[n][f[n - 1]] = AddRecord(f[n - 1], rows[n])
      BY <2>3
    <2>5. QED BY <1>6, <2>4
  <1>8. f = Rec(f)
    <2>1. f = [n \in 0 .. N |-> f[n]]
      BY <1>6
    <2>2. \A n \in 0 .. N : f[n] = IF n = 0 THEN Started ELSE AddRecord(f[n - 1], rows[n])
      BY <1>1, <1>6, <1>7
    <2>3. QED BY <2>1, <2>2
  <1>9. P = CHOOSE g : g = Rec(g)
    BY DEF Pages
  <1>10. P = Rec(P)
    <2>. HIDE DEF Rec
    <2>. QED BY <1>8, <1>9, Zenon
  <1>. HIDE DEF P
  <1>11. /\ DOMAIN P = 0 .. N /\ P = [n \in 0 .. N |-> P[n]]
         /\ \A n \in 0 .. N : P[n] = IF n = 0 THEN Started ELSE AddRecord(P[n - 1], rows[n])
    BY <1>10
  <1>12. P[0] = Started /\ \A n \in 1 .. N : P[n] = AddRecord(P[n - 1], rows[n])
    <2>1. 0 \in 0 .. N /\ \A n \in 1 .. N : n \in 0 .. N /\ n # 0
      BY <1>1
    <2>2. QED BY <1>11, <2>1, Zenon
  <1>13. \A n \in 0 .. N : P[n] \in Page
    <2>. DEFINE T == {n \in 0 .. N : P[n] \in Page}
    <2>1. 0 \in T
      BY <1>1, <1>2, <1>12
    <2>2. ASSUME NEW n \in 0 .. N, n < N, n \in T PROVE n + 1 \in T
      <3>1. n + 1 \in 1 .. N /\ n + 1 \in 0 .. N /\ (n + 1) - 1 = n
        BY <1>1, <2>2
      <3>2. P[n + 1] = AddRecord(P[n], rows[n + 1]) /\ rows[n + 1] \in Row
        BY <1>1, <1>12, <3>1
      <3>3. P[n + 1] \in Page
        BY <2>2, <3>2, AddRecordMakesPage
      <3>4. QED BY <3>1, <3>3
    <2>3. \A n \in 0 .. N : n \in T
      <3>. HIDE DEF T
      <3>. QED BY <1>1, <2>1, <2>2, Induction
    <2>4. QED BY <2>3
  <1>14. P \in [0 .. N -> Page]
    BY <1>11, <1>13
  <1>15. QED BY <1>12, <1>14 DEF P, N

-----------------------------------------------------------------------------
(* Sums of records. *)

(* Sums of which at most one share differs. *)
DifferAt(rows, I, qs, J, N, c, d) ==
  \A i \in 1 .. N : Share(qs, J, i) = Share(rows, I, i) + (IF i = c THEN d ELSE 0)

(* x is more than y by d, if at all.                                       *)
More(x, y, inside, d) == x = y + (IF inside THEN d ELSE 0) /\ y \in Int

(* Sums differ by what the one share differs by.                           *)
LEMMA PartsDiffer ==
  ASSUME NEW rows \in Seq(Row), NEW qs \in Seq(Row), NEW I, NEW J,
         NEW N \in Nat, N <= Len(rows), N <= Len(qs), NEW c \in Nat, NEW d \in Int,
         DifferAt(rows, I, qs, J, N, c, d)
  PROVE  More(Parts(qs, J)[N], Parts(rows, I)[N], c \in 1 .. N, d)
  <1>. DEFINE P == Parts(rows, I)
              Q == Parts(qs, J)
              more(n) == IF 1 <= c /\ c <= n THEN d ELSE 0
              T == {n \in 0 .. N : Q[n] = P[n] + more(n)}
  <1>1. /\ Len(rows) \in Nat /\ Len(qs) \in Nat
        /\ P \in [0 .. Len(rows) -> Int] /\ Q \in [0 .. Len(qs) -> Int]
        /\ P[0] = 0 /\ Q[0] = 0
        /\ \A n \in 1 .. Len(rows) : P[n] = P[n - 1] + Share(rows, I, n)
        /\ \A n \in 1 .. Len(qs) : Q[n] = Q[n - 1] + Share(qs, J, n)
    BY PartsAreSums, LenProperties
  <1>. HIDE DEF P, Q
  <1>2. 0 \in T
    BY <1>1
  <1>3. ASSUME NEW n \in 0 .. N, n < N, n \in T PROVE n + 1 \in T
    <2>1. /\ n + 1 \in 0 .. N /\ n + 1 \in 1 .. N /\ (n + 1) - 1 = n
          /\ n + 1 \in 1 .. Len(rows) /\ n + 1 \in 1 .. Len(qs)
          /\ n \in 0 .. Len(rows) /\ n \in 0 .. Len(qs)
      BY <1>1, <1>3
    <2>2. P[n + 1] = P[n] + Share(rows, I, n + 1) /\ Q[n + 1] = Q[n] + Share(qs, J, n + 1)
      BY <1>1, <2>1
    <2>3. Q[n] = P[n] + more(n)
      BY <1>3
    <2>4. Share(qs, J, n + 1) = Share(rows, I, n + 1) + (IF n + 1 = c THEN d ELSE 0)
      BY <2>1 DEF DifferAt
    <2>5. Share(rows, I, n + 1) \in Int /\ P[n] \in Int /\ Q[n] \in Int
      BY <1>1, <2>1, SharesAreInts
    <2>6. more(n + 1) = more(n) + (IF n + 1 = c THEN d ELSE 0)
      BY <1>3
    <2>7. Q[n + 1] = P[n + 1] + more(n + 1)
      <3>. DEFINE x == IF n + 1 = c THEN d ELSE 0
                  y == more(n)
                  z == Share(rows, I, n + 1)
      <3>1. x \in Int /\ y \in Int /\ z \in Int /\ P[n] \in Int
        BY <2>5
      <3>2. Q[n + 1] = (P[n] + y) + (z + x) /\ P[n + 1] = P[n] + z /\ more(n + 1) = y + x
        BY <2>2, <2>3, <2>4, <2>6
      <3>. HIDE DEF x, y, z, more
      <3>3. QED BY <3>1, <3>2
    <2>8. QED BY <2>1, <2>7
  <1>4. \A n \in 0 .. N : n \in T
    <2>. HIDE DEF T
    <2>. QED BY <1>2, <1>3, Induction
  <1>5. Q[N] = P[N] + more(N) /\ P[N] \in Int
    BY <1>1, <1>4
  <1>6. c \in 1 .. N <=> 1 <= c /\ c <= N
    OBVIOUS
  <1>7. QED BY <1>5, <1>6 DEF P, Q, More

(* So do the whole sums.                                                   *)
LEMMA SumsDiffer ==
  ASSUME NEW rows \in Seq(Row), NEW qs \in Seq(Row), NEW I, NEW J, Len(qs) = Len(rows),
         NEW c \in 1 .. Len(rows), NEW d \in Int,
         DifferAt(rows, I, qs, J, Len(rows), c, d)
  PROVE  More(Sum(qs, J), Sum(rows, I), c \in 1 .. Len(rows), d)
  <1>1. PICK N \in Nat : N = Len(rows)
    BY LenProperties
  <1>2. PICK e \in Nat : e = c
    BY <1>1
  <1>3. N <= Len(rows) /\ N <= Len(qs) /\ DifferAt(rows, I, qs, J, N, e, d) /\ e \in 1 .. N
    BY <1>1, <1>2
  <1>4. More(Parts(qs, J)[N], Parts(rows, I)[N], e \in 1 .. N, d)
    BY <1>3, PartsDiffer
  <1>5. QED BY <1>1, <1>3, <1>4 DEF Sum, More

(* If all other shares agree, a sum gains what the one share gains.        *)
LEMMA SumsDifferOnce ==
  ASSUME NEW rows \in Seq(Row), NEW qs \in Seq(Row), NEW I, NEW J, Len(qs) = Len(rows),
         NEW c \in 1 .. Len(rows),
         \A i \in 1 .. Len(rows) : i # c => Share(qs, J, i) = Share(rows, I, i)
  PROVE  /\ Sum(rows, I) \in Int /\ Share(qs, J, c) \in Int /\ Share(rows, I, c) \in Int
         /\ Sum(qs, J) = Sum(rows, I) + (Share(qs, J, c) - Share(rows, I, c))
  <1>. DEFINE d == Share(qs, J, c) - Share(rows, I, c)
  <1>1. \A i \in 1 .. Len(rows) : Share(qs, J, i) \in Int /\ Share(rows, I, i) \in Int
    BY SharesAreInts
  <1>2. d \in Int
    BY <1>1
  <1>3. DifferAt(rows, I, qs, J, Len(rows), c, d)
    BY <1>1 DEF DifferAt
  <1>. HIDE DEF d
  <1>4. More(Sum(qs, J), Sum(rows, I), c \in 1 .. Len(rows), d)
    BY <1>2, <1>3, SumsDiffer
  <1>5. QED BY <1>1, <1>4 DEF More, d

(* A sum gains what the record adds that is put between two others.        *)
LEMMA SumGainsOne ==
  ASSUME NEW rows \in Seq(Row), NEW qs \in Seq(Row), NEW I, NEW J, Len(qs) = Len(rows) + 1,
         NEW p \in 1 .. Len(qs),
         \A i \in 1 .. Len(rows) : IF i < p THEN Share(qs, J, i) = Share(rows, I, i)
                                            ELSE Share(qs, J, i + 1) = Share(rows, I, i)
  PROVE  /\ Sum(rows, I) \in Int /\ Share(qs, J, p) \in Int
         /\ Sum(qs, J) = Sum(rows, I) + Share(qs, J, p)
  <1>. DEFINE N == Len(rows)
              P == Parts(rows, I)
              Q == Parts(qs, J)
              d == Share(qs, J, p)
              T == {n \in 0 .. N : /\ n < p => Q[n] = P[n]
                                   /\ n + 1 >= p => Q[n + 1] = P[n] + d}
  <1>1. /\ N \in Nat /\ Len(qs) = N + 1 /\ p \in 1 .. (N + 1)
        /\ P \in [0 .. N -> Int] /\ Q \in [0 .. (N + 1) -> Int] /\ P[0] = 0 /\ Q[0] = 0
        /\ \A n \in 1 .. N : P[n] = P[n - 1] + Share(rows, I, n)
        /\ \A n \in 1 .. (N + 1) : Q[n] = Q[n - 1] + Share(qs, J, n)
    BY PartsAreSums, LenProperties
  <1>2. d \in Int /\ \A n \in 1 .. N : Share(rows, I, n) \in Int
    BY SharesAreInts
  <1>3. \A n \in 1 .. N : IF n < p THEN Share(qs, J, n) = Share(rows, I, n)
                                   ELSE Share(qs, J, n + 1) = Share(rows, I, n)
    OBVIOUS
  <1>4. P[N] = Sum(rows, I) /\ Q[N + 1] = Sum(qs, J)
    BY <1>1 DEF Sum
  <1>. HIDE DEF N, P, Q
  <1>5. p = 1 => Q[1] = P[0] + d
    <2>1. 1 \in 1 .. (N + 1) /\ 1 - 1 = 0
      BY <1>1
    <2>2. Q[1] = Q[0] + Share(qs, J, 1)
      BY <1>1, <2>1
    <2>3. QED BY <1>1, <1>2, <2>2
  <1>. HIDE DEF d
  <1>6. 0 \in T
    BY <1>1, <1>5
  <1>7. ASSUME NEW n \in 0 .. N, n < N, n \in T PROVE n + 1 \in T
    <2>. DEFINE k == n + 1
                a == Share(rows, I, k)
    <2>1. /\ k \in 0 .. N /\ k \in 1 .. N /\ k \in 1 .. (N + 1) /\ k + 1 \in 1 .. (N + 1)
          /\ k - 1 = n /\ (k + 1) - 1 = k /\ k \in 0 .. (N + 1) /\ n \in 0 .. (N + 1) /\ k \in Nat
      BY <1>1, <1>7
    <2>2. P[k] = P[n] + a /\ P[n] \in Int /\ a \in Int
      BY <1>1, <1>2, <2>1
    <2>3. Q[k] = Q[n] + Share(qs, J, k) /\ Q[k + 1] = Q[k] + Share(qs, J, k + 1)
      BY <1>1, <2>1
    <2>4. /\ k < p => Share(qs, J, k) = a
          /\ ~(k < p) => Share(qs, J, k + 1) = a
      BY <1>3, <2>1
    <2>5. (n < p => Q[n] = P[n]) /\ (k >= p => Q[k] = P[n] + d)
      BY <1>7
    <2>6. k = p => Q[k] = P[n] + d
      BY <2>5
    <2>7. /\ k + 1 = p => Share(qs, J, k + 1) = d
          /\ p \in Nat /\ n \in Nat /\ k = n + 1
      BY <1>1, <1>7 DEF d
    <2>. HIDE DEF k, a
    <2>8. k < p => Q[k] = P[k]
      BY <2>2, <2>3, <2>4, <2>5, <2>7
    <2>9. k + 1 >= p => Q[k + 1] = P[k] + d
      <3>1. CASE k + 1 = p
        <4>1. Q[k] = P[k] /\ Q[k + 1] = Q[k] + d
          BY <2>1, <2>3, <2>7, <2>8, <3>1
        <4>2. QED BY <4>1
      <3>2. CASE k >= p
        <4>1. Q[k] = P[n] + d /\ Q[k + 1] = Q[k] + a
          BY <2>1, <2>3, <2>4, <2>5, <2>7, <3>2
        <4>2. Q[k + 1] = (P[n] + d) + a /\ P[k] = P[n] + a
          BY <2>2, <4>1
        <4>3. QED BY <1>2, <2>2, <4>2
      <3>3. QED BY <2>1, <2>7, <3>1, <3>2
    <2>10. k \in T
      BY <2>1, <2>8, <2>9
    <2>11. QED BY <2>10 DEF k
  <1>8. \A n \in 0 .. N : n \in T
    <2>. HIDE DEF T
    <2>. QED BY <1>1, <1>6, <1>7, Induction
  <1>9. N \in T /\ P[N] \in Int /\ N + 1 >= p
    BY <1>1, <1>8
  <1>10. Q[N + 1] = P[N] + d
    BY <1>9
  <1>11. QED BY <1>2, <1>4, <1>9, <1>10 DEF d

(* Sums with the same shares. *)
LEMMA PartsAgree ==
  ASSUME NEW rows \in Seq(Row), NEW qs \in Seq(Row), NEW I, NEW J,
         NEW N \in Nat, N <= Len(rows), N <= Len(qs),
         \A i \in 1 .. N : Share(qs, J, i) = Share(rows, I, i)
  PROVE  Parts(qs, J)[N] = Parts(rows, I)[N]
  <1>1. \A i \in 1 .. N : i \in 1 .. Len(rows)
    BY LenProperties
  <1>2. \A i \in 1 .. N : Share(rows, I, i) \in Int
    BY <1>1, SharesAreInts
  <1>. DEFINE none == 0
  <1>3. DifferAt(rows, I, qs, J, N, none, none)
    BY <1>2 DEF DifferAt
  <1>4. none \notin 1 .. N /\ none \in Nat /\ none \in Int
    OBVIOUS
  <1>5. PICK c \in Nat : c = none
    BY <1>4
  <1>6. PICK d \in Int : d = none
    BY <1>4
  <1>7. DifferAt(rows, I, qs, J, N, c, d) /\ c \notin 1 .. N
    BY <1>3, <1>4, <1>5, <1>6
  <1>8. More(Parts(qs, J)[N], Parts(rows, I)[N], c \in 1 .. N, d)
    BY <1>7, PartsDiffer
  <1>9. QED BY <1>7, <1>8 DEF More

(* Records that are not in I add nothing. *)
LEMMA PartsStop ==
  ASSUME NEW rows \in Seq(Row), NEW I, NEW m \in 0 .. Len(rows),
         \A i \in (m + 1) .. Len(rows) : i \notin I
  PROVE  Parts(rows, I)[Len(rows)] = Parts(rows, I)[m]
  <1>. DEFINE N == Len(rows)
              P == Parts(rows, I)
              T == {n \in 0 .. N : n >= m => P[n] = P[m]}
  <1>1. /\ N \in Nat /\ P \in [0 .. N -> Int]
        /\ \A n \in 1 .. N : P[n] = P[n - 1] + Share(rows, I, n)
    BY PartsAreSums, LenProperties
  <1>. HIDE DEF P
  <1>2. 0 \in T
    BY <1>1
  <1>3. ASSUME NEW n \in 0 .. N, n < N, n \in T PROVE n + 1 \in T
    <2>1. n + 1 \in 0 .. N /\ n + 1 \in 1 .. N /\ (n + 1) - 1 = n
      BY <1>1, <1>3
    <2>2. P[n + 1] = P[n] + Share(rows, I, n + 1) /\ P[n] \in Int
      BY <1>1, <2>1
    <2>3. n >= m => Share(rows, I, n + 1) = 0
      BY <1>1, <2>1 DEF Share
    <2>4. n + 1 >= m => P[n + 1] = P[m]
      BY <1>1, <1>3, <2>1, <2>2, <2>3
    <2>5. QED BY <2>1, <2>4
  <1>4. \A n \in 0 .. N : n \in T
    <2>. HIDE DEF T
    <2>. QED BY <1>1, <1>2, <1>3, Induction
  <1>5. QED BY <1>1, <1>4 DEF P

-----------------------------------------------------------------------------
(* The lines. *)

(* What a text gains of one kind: nothing, or one line at its end, for a   *)
(* total that is positive.                                                 *)
Gains(text, more, kind, date, total) ==
  \E p \in Nat :
    /\ \A k \in LinesOf(text, kind) : k < p /\ k \in LinesOf(more, kind) /\ more[k] = text[k]
    /\ \A k \in LinesOf(more, kind) :
         \/ k \in LinesOf(text, kind)
         \/ k = p /\ total > 0 /\ more[k].date = date /\ more[k].total = total
    /\ total > 0 => p \in LinesOf(more, kind)

(* A text that stays as it is gains nothing.                               *)
LEMMA NothingGained ==
  ASSUME NEW text \in Seq(Line), NEW kind, NEW date
  PROVE  Gains(text, text, kind, date, 0)
  <1>1. Len(text) + 1 \in Nat /\ \A k \in LinesOf(text, kind) : k < Len(text) + 1
    BY LenProperties DEF LinesOf
  <1>2. QED BY <1>1 DEF Gains

(* A line that is appended is the last one, and of one kind only. *)
LEMMA LineGained ==
  ASSUME NEW text \in Seq(Line), NEW kind \in Kinds, NEW date \in Dates, NEW total \in Int,
         NEW more, more = appendLine(text, kind, date, total)
  PROVE  /\ Gains(text, more, kind, date, total)
         /\ \A other \in Kinds \ {kind}, day \in Dates : Gains(text, more, other, day, 0)
  <1>. DEFINE line == [kind |-> kind, date |-> date, total |-> total]
              p == Len(text) + 1
  <1>1. Len(text) \in Nat /\ DOMAIN text = 1 .. Len(text) /\ p \in Nat
    BY LenProperties
  <1>2. CASE total <= 0
    <2>1. more = text
      BY <1>2 DEF appendLine
    <2>2. \A other, day : Gains(text, text, other, day, 0)
      BY NothingGained
    <2>3. \A k \in LinesOf(text, kind) : k < p
      BY <1>1 DEF LinesOf
    <2>4. ~(total > 0)
      BY <1>2
    <2>5. Gains(text, more, kind, date, total)
      BY <1>1, <2>1, <2>3, <2>4 DEF Gains
    <2>6. QED BY <2>1, <2>2, <2>5
  <1>3. CASE ~(total <= 0)
    <2>1. more = Append(text, line)
      BY <1>3 DEF appendLine
    <2>2. line \in Line /\ line.kind = kind /\ line.date = date /\ line.total = total
      BY DEF Line
    <2>. HIDE DEF line
    <2>3. /\ more \in Seq(Line) /\ Len(more) = p
          /\ \A i \in 1 .. Len(text) : more[i] = text[i]
          /\ more[p] = line
      BY <2>1, <2>2, AppendProperties
    <2>4. DOMAIN more = 1 .. p
      BY <2>3, LenProperties
    <2>5. total > 0
      BY <1>3
    <2>6. \A k \in DOMAIN text : k < p /\ k \in DOMAIN more /\ more[k] = text[k]
      BY <1>1, <2>3, <2>4
    <2>7. \A k \in DOMAIN more : k \in DOMAIN text \/ k = p
      BY <1>1, <2>4
    <2>8. p \in DOMAIN more
      BY <1>1, <2>4
    <2>. HIDE DEF p
    <2>9. Gains(text, more, kind, date, total)
      BY <1>1, <2>2, <2>3, <2>5, <2>6, <2>7, <2>8 DEF Gains, LinesOf
    <2>10. \A other \in Kinds \ {kind}, day \in Dates : Gains(text, more, other, day, 0)
      BY <1>1, <2>2, <2>3, <2>6, <2>7 DEF Gains, LinesOf
    <2>11. QED BY <2>9, <2>10
  <1>4. QED BY <1>2, <1>3

(* Nothing and then something is gained as that alone. *)
LEMMA GainedAfterNothing ==
  ASSUME NEW text, NEW mid, NEW more, NEW kind, NEW date, NEW day, NEW total \in Int
  PROVE  /\ Gains(text, mid, kind, day, 0) /\ Gains(mid, more, kind, date, total)
              => Gains(text, more, kind, date, total)
         /\ Gains(text, mid, kind, date, total) /\ Gains(mid, more, kind, day, 0)
              => Gains(text, more, kind, date, total)
  <1>1. ~(0 > 0)
    OBVIOUS
  <1>2. ASSUME Gains(text, mid, kind, day, 0), Gains(mid, more, kind, date, total)
        PROVE  Gains(text, more, kind, date, total)
    <2>1. /\ \A k \in LinesOf(text, kind) : k \in LinesOf(mid, kind) /\ mid[k] = text[k]
          /\ \A k \in LinesOf(mid, kind) : k \in LinesOf(text, kind)
      BY <1>1, <1>2 DEF Gains
    <2>2. PICK p \in Nat :
            /\ \A k \in LinesOf(mid, kind) : k < p /\ k \in LinesOf(more, kind) /\ more[k] = mid[k]
            /\ \A k \in LinesOf(more, kind) :
                 \/ k \in LinesOf(mid, kind)
                 \/ k = p /\ total > 0 /\ more[k].date = date /\ more[k].total = total
            /\ total > 0 => p \in LinesOf(more, kind)
      BY <1>2 DEF Gains
    <2>3. /\ \A k \in LinesOf(text, kind) : k < p /\ k \in LinesOf(more, kind) /\ more[k] = text[k]
          /\ \A k \in LinesOf(more, kind) :
               \/ k \in LinesOf(text, kind)
               \/ k = p /\ total > 0 /\ more[k].date = date /\ more[k].total = total
          /\ total > 0 => p \in LinesOf(more, kind)
      BY <2>1, <2>2
    <2>4. QED BY <2>3 DEF Gains
  <1>3. ASSUME Gains(text, mid, kind, date, total), Gains(mid, more, kind, day, 0)
        PROVE  Gains(text, more, kind, date, total)
    <2>1. /\ \A k \in LinesOf(mid, kind) : k \in LinesOf(more, kind) /\ more[k] = mid[k]
          /\ \A k \in LinesOf(more, kind) : k \in LinesOf(mid, kind)
      BY <1>1, <1>3 DEF Gains
    <2>2. PICK p \in Nat :
            /\ \A k \in LinesOf(text, kind) : k < p /\ k \in LinesOf(mid, kind) /\ mid[k] = text[k]
            /\ \A k \in LinesOf(mid, kind) :
                 \/ k \in LinesOf(text, kind)
                 \/ k = p /\ total > 0 /\ mid[k].date = date /\ mid[k].total = total
            /\ total > 0 => p \in LinesOf(mid, kind)
      BY <1>3 DEF Gains
    <2>3. /\ \A k \in LinesOf(text, kind) : k < p /\ k \in LinesOf(more, kind) /\ more[k] = text[k]
          /\ \A k \in LinesOf(more, kind) :
               \/ k \in LinesOf(text, kind)
               \/ k = p /\ total > 0 /\ more[k].date = date /\ more[k].total = total
          /\ total > 0 => p \in LinesOf(more, kind)
      BY <2>1, <2>2
    <2>4. QED BY <2>3 DEF Gains
  <1>4. QED BY <1>2, <1>3

(* The totals that are kept for the two kinds, and when a line is due.     *)
Kept(s, kind) == IF kind = "day" THEN s.total ELSE s.weekTotal
Turns(last, tm, kind) == ~SameDate(last, tm) /\ (kind = "day" \/ NextWeek(last, tm))

(* What the end of a day, and of a week with it, adds to the text. *)
LEMMA LinesAtTurn ==
  ASSUME NEW s \in Page
  PROVE  /\ Gains(s.text, DayLine(s), "day", s.last, s.total)
         /\ Gains(s.text, DayLine(s), "week", s.last, 0)
         /\ Gains(s.text, WeekLine(DayLine(s), s), "day", s.last, s.total)
         /\ Gains(s.text, WeekLine(DayLine(s), s), "week", s.last, s.weekTotal)
  <1>1. /\ s.text \in Seq(Line) /\ DayLine(s) \in Seq(Line)
        /\ s.last \in Dates /\ s.total \in Int /\ s.weekTotal \in Int
    BY LinesOfPage
  <1>2. /\ "day" \in Kinds /\ "week" \in Kinds
        /\ "week" \in Kinds \ {"day"} /\ "day" \in Kinds \ {"week"}
    BY DEF Kinds
  <1>3. /\ Gains(s.text, DayLine(s), "day", s.last, s.total)
        /\ Gains(s.text, DayLine(s), "week", s.last, 0)
    BY <1>1, <1>2, LineGained DEF DayLine
  <1>4. /\ Gains(DayLine(s), WeekLine(DayLine(s), s), "week", s.last, s.weekTotal)
        /\ Gains(DayLine(s), WeekLine(DayLine(s), s), "day", s.last, 0)
    BY <1>1, <1>2, LineGained DEF WeekLine
  <1>5. QED BY <1>1, <1>3, <1>4, GainedAfterNothing

(* What a record does to the total and to the lines of each kind.          *)
LEMMA RecordAdded ==
  ASSUME NEW s \in Page, NEW r \in Row, NEW kind \in Kinds, NEW tm, tm = localtime(r.start),
         NEW q, q = AddRecord(s, r)
  PROVE  /\ q.last = IF SameDate(s.last, tm) THEN s.last ELSE tm
         /\ Turns(s.last, tm, kind) =>
              /\ Gains(s.text, q.text, kind, s.last, Kept(s, kind))
              /\ Kept(q, kind) = Int32(0 + Int32(r.end - r.start))
         /\ ~Turns(s.last, tm, kind) =>
              /\ Gains(s.text, q.text, kind, s.last, 0)
              /\ Kept(q, kind) = Int32(Kept(s, kind) + Int32(r.end - r.start))
  <1>. DEFINE p == TurnPage(s, tm)
              diff == Int32(r.end - r.start)
  <1>1. p \in Page
    <2>1. tm \in Dates
      BY DatesOfDays DEF Row
    <2>2. QED BY <2>1, LinesOfPage DEF TurnPage, Page
  <1>2. q = [p EXCEPT !.total = Int32(p.total + diff),
                      !.weekTotal = Int32(p.weekTotal + diff)]
    BY DEF AddRecord
  <1>3. /\ q.text = p.text /\ q.last = p.last /\ q.total = Int32(p.total + diff)
        /\ q.weekTotal = Int32(p.weekTotal + diff)
    <2>. HIDE DEF p, diff
    <2>. QED BY <1>1, <1>2 DEF Page
  <1>4. kind = "day" \/ kind = "week"
    BY DEF Kinds
  <1>5. CASE SameDate(s.last, tm)
    <2>1. p = s
      BY <1>5 DEF TurnPage
    <2>2. Gains(s.text, q.text, kind, s.last, 0)
      BY <1>3, <2>1, LinesOfPage, NothingGained
    <2>3. ~Turns(s.last, tm, kind)
      BY <1>5 DEF Turns
    <2>4. Kept(q, kind) = Int32(Kept(s, kind) + diff)
      BY <1>3, <2>1 DEF Kept
    <2>5. QED BY <1>3, <1>5, <2>1, <2>2, <2>3, <2>4
  <1>6. CASE ~SameDate(s.last, tm) /\ NextWeek(s.last, tm)
    <2>1. /\ p.text = WeekLine(DayLine(s), s) /\ p.last = tm
          /\ p.total = 0 /\ p.weekTotal = 0
      BY <1>6 DEF TurnPage
    <2>2. Turns(s.last, tm, kind)
      BY <1>4, <1>6 DEF Turns
    <2>3. Gains(s.text, q.text, kind, s.last, Kept(s, kind))
      BY <1>3, <1>4, <2>1, LinesAtTurn DEF Kept
    <2>4. Kept(q, kind) = Int32(0 + diff)
      BY <1>3, <2>1 DEF Kept
    <2>5. QED BY <1>3, <1>6, <2>1, <2>2, <2>3, <2>4
  <1>7. CASE ~SameDate(s.last, tm) /\ ~NextWeek(s.last, tm)
    <2>1. /\ p.text = DayLine(s) /\ p.last = tm
          /\ p.total = 0 /\ p.weekTotal = s.weekTotal
      BY <1>7 DEF TurnPage
    <2>2. CASE kind = "day"
      BY <1>3, <1>7, <2>1, <2>2, LinesAtTurn DEF Turns, Kept
    <2>3. CASE kind = "week"
      BY <1>3, <1>7, <2>1, <2>3, LinesAtTurn DEF Turns, Kept
    <2>4. QED BY <1>4, <2>2, <2>3
  <1>8. QED BY <1>5, <1>6, <1>7

-----------------------------------------------------------------------------
(* What the lines say after each record. *)

(* Records that are not in I add nothing, at the start and in between. *)
LEMMA PartsStand ==
  ASSUME NEW rows \in Seq(Row), NEW I, NEW m \in 0 .. Len(rows),
         \A i \in 1 .. m : i \notin I
  PROVE  Parts(rows, I)[m] = 0
  <1>. DEFINE N == Len(rows)
              P == Parts(rows, I)
              T == {n \in 0 .. m : P[n] = 0}
  <1>1. /\ N \in Nat /\ P[0] = 0
        /\ \A n \in 1 .. N : P[n] = P[n - 1] + Share(rows, I, n)
    BY PartsAreSums, LenProperties
  <1>. HIDE DEF P
  <1>2. 0 \in T /\ m \in Nat
    BY <1>1
  <1>3. ASSUME NEW n \in 0 .. m, n < m, n \in T PROVE n + 1 \in T
    <2>1. n + 1 \in 0 .. m /\ n + 1 \in 1 .. m /\ n + 1 \in 1 .. N /\ (n + 1) - 1 = n
      BY <1>1, <1>3
    <2>2. P[n + 1] = P[n] + Share(rows, I, n + 1) /\ P[n] = 0
      BY <1>1, <1>3, <2>1
    <2>3. Share(rows, I, n + 1) = 0
      BY <2>1 DEF Share
    <2>4. QED BY <2>1, <2>2, <2>3
  <1>4. \A n \in 0 .. m : n \in T
    <2>. HIDE DEF T
    <2>. QED BY <1>2, <1>3, Induction
  <1>5. QED BY <1>2, <1>4 DEF P

(* A line stands for a unit (a day, a week) with the total that an int     *)
(* makes of its records.                                                   *)
Worth(rows, unit, u) == Int32(Total(rows, unit, u))
Stands(line, rows, unit, u) == line.total = Worth(rows, unit, u) /\ Dated(line, rows, unit, u)

(* The lines of one kind stand for the units of the records in S, in order *)
(* and none twice.                                                         *)
Exact(text, kind, rows, unit, S) ==
  /\ \A i \in S : Worth(rows, unit, unit[i]) > 0 =>
       \E k \in LinesOf(text, kind) : Stands(text[k], rows, unit, unit[i])
  /\ \A k \in LinesOf(text, kind) :
       \E i \in S : Worth(rows, unit, unit[i]) > 0 /\ Stands(text[k], rows, unit, unit[i])
  /\ \A k, m \in LinesOf(text, kind) : k < m =>
       \E i, j \in S : /\ unit[i] < unit[j]
                       /\ Dated(text[k], rows, unit, unit[i])
                       /\ Dated(text[m], rows, unit, unit[j])

(* Exact lines stay exact when no line of the kind is gained.              *)
LEMMA NothingIsExact ==
  ASSUME NEW text, NEW more, NEW kind, NEW date, NEW rows, NEW unit, NEW S,
         Exact(text, kind, rows, unit, S), Gains(text, more, kind, date, 0)
  PROVE  Exact(more, kind, rows, unit, S)
  <1>1. ~(0 > 0)
    OBVIOUS
  <1>2. /\ \A k \in LinesOf(text, kind) : k \in LinesOf(more, kind) /\ more[k] = text[k]
        /\ \A k \in LinesOf(more, kind) : k \in LinesOf(text, kind)
    BY <1>1 DEF Gains
  <1>3. QED BY <1>2 DEF Exact

(* The line of a later unit follows those of the earlier ones. *)
LEMMA LineIsExact ==
  ASSUME NEW text \in Seq(Line), NEW more, NEW kind, NEW rows \in Seq(Row),
         NEW unit \in [DOMAIN rows -> Nat], NEW S \in SUBSET DOMAIN rows, NEW v \in DOMAIN rows,
         \A i \in S : unit[i] < unit[v],
         Exact(text, kind, rows, unit, S),
         Gains(text, more, kind, localtime(rows[v].start), Worth(rows, unit, unit[v]))
  PROVE  Exact(more, kind, rows, unit, S \cup RowsOf(unit, unit[v]))
  <1>. DEFINE u == unit[v]
              w == Worth(rows, unit, u)
              date == localtime(rows[v].start)
              all == S \cup RowsOf(unit, u)
  <1>1. PICK p \in Nat :
          /\ \A k \in LinesOf(text, kind) : k < p /\ k \in LinesOf(more, kind) /\ more[k] = text[k]
          /\ \A k \in LinesOf(more, kind) :
               \/ k \in LinesOf(text, kind)
               \/ k = p /\ w > 0 /\ more[k].date = date /\ more[k].total = w
          /\ w > 0 => p \in LinesOf(more, kind)
    <2>. HIDE DEF w, date
    <2>. QED BY DEF Gains, w, date
  <1>2. v \in RowsOf(unit, u) /\ v \in all /\ \A i \in all \ S : unit[i] = u
    BY DEF RowsOf
  <1>3. \A line : line.date = date => Dated(line, rows, unit, u)
    BY <1>2 DEF Dated
  <1>4. /\ S \subseteq all
        /\ \A k \in LinesOf(more, kind) : k \in LinesOf(text, kind) \/ k = p
    BY <1>1
  <1>. HIDE DEF date, all
  <1>5. ASSUME w > 0, p \notin LinesOf(text, kind)
        PROVE  p \in LinesOf(more, kind) /\ Stands(more[p], rows, unit, u)
    BY <1>1, <1>3, <1>5 DEF Stands
  <1>6. p \notin LinesOf(text, kind)
    BY <1>1
  <1>7. ASSUME NEW i \in all, Worth(rows, unit, unit[i]) > 0
        PROVE  \E k \in LinesOf(more, kind) : Stands(more[k], rows, unit, unit[i])
    <2>1. CASE i \in S
      <3>1. PICK k \in LinesOf(text, kind) : Stands(text[k], rows, unit, unit[i])
        BY <1>7, <2>1 DEF Exact
      <3>2. k \in LinesOf(more, kind) /\ more[k] = text[k]
        BY <1>1
      <3>3. QED BY <3>1, <3>2
    <2>2. CASE i \notin S
      <3>1. unit[i] = u
        BY <1>2, <2>2
      <3>2. QED BY <1>5, <1>6, <1>7, <3>1
    <2>3. QED BY <2>1, <2>2
  <1>8. ASSUME NEW k \in LinesOf(more, kind)
        PROVE  \E i \in all : Worth(rows, unit, unit[i]) > 0 /\ Stands(more[k], rows, unit, unit[i])
    <2>1. CASE k \in LinesOf(text, kind)
      <3>1. PICK i \in S : Worth(rows, unit, unit[i]) > 0 /\ Stands(text[k], rows, unit, unit[i])
        BY <2>1 DEF Exact
      <3>2. more[k] = text[k] /\ i \in all
        BY <1>1, <1>4, <2>1
      <3>3. QED BY <3>1, <3>2
    <2>2. CASE k \notin LinesOf(text, kind)
      <3>1. k = p /\ w > 0
        BY <1>1, <2>2
      <3>2. QED BY <1>2, <1>5, <1>6, <3>1
    <2>3. QED BY <2>1, <2>2
  <1>9. ASSUME NEW k \in LinesOf(more, kind), NEW m \in LinesOf(more, kind), k < m
        PROVE  \E i, j \in all : /\ unit[i] < unit[j]
                                 /\ Dated(more[k], rows, unit, unit[i])
                                 /\ Dated(more[m], rows, unit, unit[j])
    <2>1. k \in LinesOf(text, kind)
      <3>1. SUFFICES ASSUME k = p PROVE FALSE
        BY <1>4
      <3>2. m # p => m < p
        BY <1>1
      <3>3. m \in Nat
        <4>1. DOMAIN text \subseteq Nat
          BY LenProperties
        <4>2. QED BY <1>4, <4>1 DEF LinesOf
      <3>4. QED BY <1>9, <3>1, <3>2, <3>3
    <2>2. more[k] = text[k]
      BY <1>1, <2>1
    <2>3. CASE m \in LinesOf(text, kind)
      <3>1. PICK i \in S, j \in S : /\ unit[i] < unit[j]
                                    /\ Dated(text[k], rows, unit, unit[i])
                                    /\ Dated(text[m], rows, unit, unit[j])
        BY <1>9, <2>1, <2>3 DEF Exact
      <3>2. more[m] = text[m] /\ i \in all /\ j \in all
        BY <1>1, <1>4, <2>3
      <3>3. QED BY <2>2, <3>1, <3>2
    <2>4. CASE m \notin LinesOf(text, kind)
      <3>1. PICK i \in S : Stands(text[k], rows, unit, unit[i])
        BY <2>1 DEF Exact
      <3>2. m = p /\ w > 0
        BY <1>1, <2>4
      <3>3. Dated(more[m], rows, unit, u)
        BY <1>5, <1>6, <3>2 DEF Stands
      <3>4. unit[i] < unit[v] /\ i \in all /\ v \in all
        BY <1>2, <1>4
      <3>5. QED BY <2>2, <3>1, <3>3, <3>4 DEF Stands
    <2>5. QED BY <2>3, <2>4
  <1>10. Exact(more, kind, rows, unit, all)
    BY <1>7, <1>8, <1>9 DEF Exact
  <1>11. QED BY <1>10 DEF all

(* The records up to n of other units than n's. *)
Before(unit, n) == {i \in 1 .. n : unit[i] # unit[n]}

(* The records in order, and a turn of the page wherever the unit changes. *)
Ascends(rows, unit) == \A i, j \in DOMAIN rows : i <= j => unit[i] <= unit[j]
TurnsAreUnits(rows, unit, kind) ==
  \A i \in DOMAIN rows : i + 1 \in DOMAIN rows =>
    (Turns(localtime(rows[i].start), localtime(rows[i + 1].start), kind) <=> unit[i] # unit[i + 1])

(* Behind n records the lines stand for the units before that of n, and    *)
(* what is kept is the sum of n's unit so far.                             *)
Reached(s, n, kind, rows, unit) ==
  /\ Exact(s.text, kind, rows, unit, Before(unit, n))
  /\ Kept(s, kind) = Int32(Parts(rows, RowsOf(unit, unit[n]))[n])
  /\ s.last = localtime(rows[n].start)

(* The first record turns the page on nothing.                             *)
LEMMA FirstReached ==
  ASSUME NEW rows \in Seq(Row), NEW kind \in Kinds, NEW unit \in [DOMAIN rows -> Nat],
         Len(rows) >= 1
  PROVE  Reached(Pages(rows)[1], 1, kind, rows, unit)
  <1>. DEFINE one == 1
              none == 0
              r == rows[one]
              tm == localtime(r.start)
              q == Pages(rows)[one]
              I == RowsOf(unit, unit[one])
  <1>1. one \in 1 .. Len(rows) /\ one \in DOMAIN rows /\ one - 1 = none /\ none \in 0 .. Len(rows)
    BY LenProperties
  <1>2. r \in Row /\ r.start \in Nat /\ r.end \in Nat
    BY <1>1, SharesAreInts
  <1>3. Started \in Page
    BY EmptySeq DEF Started, ZeroDate, Page, Dates
  <1>4. q = AddRecord(Started, r)
    <2>1. Pages(rows)[none] = Started
      BY PagesAreSteps
    <2>. HIDE DEF one, none
    <2>2. q = AddRecord(Pages(rows)[none], r)
      BY <1>1, PagesAreSteps
    <2>3. QED BY <2>1, <2>2
  <1>5. tm \in Dates /\ tm.mday >= 1
    BY <1>2, DatesOfDays
  <1>6. ~SameDate(Started.last, tm) /\ Started.text = <<>> /\ Kept(Started, kind) = none
    BY <1>5 DEF SameDate, Started, ZeroDate, Dates, Kept
  <1>7. /\ q.last = tm
        /\ \E day : Gains(<<>>, q.text, kind, day, none)
        /\ Kept(q, kind) = Int32(0 + Int32(r.end - r.start))
    <2>. HIDE DEF q, r, tm
    <2>1. /\ q.last = IF SameDate(Started.last, tm) THEN Started.last ELSE tm
          /\ Turns(Started.last, tm, kind) =>
               /\ Gains(Started.text, q.text, kind, Started.last, Kept(Started, kind))
               /\ Kept(q, kind) = Int32(0 + Int32(r.end - r.start))
          /\ ~Turns(Started.last, tm, kind) =>
               /\ Gains(Started.text, q.text, kind, Started.last, 0)
               /\ Kept(q, kind) = Int32(Kept(Started, kind) + Int32(r.end - r.start))
      BY <1>2, <1>3, <1>4, RecordAdded DEF tm
    <2>2. QED BY <1>6, <2>1
  <1>8. Before(unit, one) = {}
    BY <1>1 DEF Before
  <1>9. Exact(<<>>, kind, rows, unit, {})
    BY DEF Exact, LinesOf
  <1>10. Exact(q.text, kind, rows, unit, Before(unit, one))
    <2>. HIDE DEF q
    <2>1. PICK day : Gains(<<>>, q.text, kind, day, 0)
      BY <1>7
    <2>2. QED BY <1>8, <1>9, <2>1, NothingIsExact
  <1>11. Kept(q, kind) = Int32(Parts(rows, I)[one])
    <2>1. one \in I
      BY <1>1 DEF RowsOf
    <2>. DEFINE len == r.end - r.start
    <2>2. Parts(rows, I)[one] = len
      <3>1. Parts(rows, I)[none] = 0 /\ Share(rows, I, one) = len
        BY <2>1, PartsAreSums DEF Share, Length
      <3>. HIDE DEF one, none, I
      <3>2. Parts(rows, I)[one] = Parts(rows, I)[none] + Share(rows, I, one)
        BY <1>1, PartsAreSums
      <3>3. len \in Int
        BY <1>2
      <3>. HIDE DEF len
      <3>4. QED BY <3>1, <3>2, <3>3
    <2>3. len \in Int
      BY <1>2
    <2>. DEFINE nil == 0
    <2>4. Int32(nil + Int32(len)) = Int32(nil + len)
      <3>. HIDE DEF len
      <3>1. Int32(len) \in Int /\ Int32(Int32(len) + nil) = Int32(len + nil)
        <4>1. nil \in Int
          OBVIOUS
        <4>. HIDE DEF nil
        <4>2. QED BY <2>3, <4>1, Int32Fits, Int32Wraps
      <3>2. nil + Int32(len) = Int32(len) + nil /\ nil + len = len + nil
        BY <2>3, <3>1
      <3>3. QED BY <3>1, <3>2
    <2>5. nil + len = len
      BY <2>3
    <2>. HIDE DEF q, I, len
    <2>6. Kept(q, kind) = Int32(nil + Int32(len))
      BY <1>7 DEF len
    <2>7. QED BY <2>2, <2>4, <2>5, <2>6
  <1>12. Reached(q, one, kind, rows, unit)
    BY <1>7, <1>10, <1>11 DEF Reached
  <1>13. QED BY <1>12

(* The next record is of the same unit, or the page is turned. *)
LEMMA NextReached ==
  ASSUME NEW rows \in Seq(Row), NEW kind \in Kinds, NEW unit \in [DOMAIN rows -> Nat],
         Ascends(rows, unit), TurnsAreUnits(rows, unit, kind),
         NEW n \in 1 .. Len(rows), n < Len(rows),
         Reached(Pages(rows)[n], n, kind, rows, unit)
  PROVE  Reached(Pages(rows)[n + 1], n + 1, kind, rows, unit)
  <1>. DEFINE N == Len(rows)
              m == n + 1
              s == Pages(rows)[n]
              q == Pages(rows)[m]
              r == rows[m]
              tm == localtime(r.start)
              len == r.end - r.start
              I == RowsOf(unit, unit[n])
              J == RowsOf(unit, unit[m])
              P == Parts(rows, I)
              Q == Parts(rows, J)
  <1>1. /\ N \in Nat /\ DOMAIN rows = 1 .. N /\ m \in 1 .. N /\ m - 1 = n /\ n < m /\ n \in 0 .. N
        /\ n \in Nat /\ m \in Nat
    BY LenProperties
  <1>2. /\ r \in Row /\ r.start \in Nat /\ r.end \in Nat /\ rows[n].start \in Nat
        /\ len \in Int
    <2>1. r \in Row /\ r.start \in Nat /\ r.end \in Nat
      <3>. HIDE DEF m
      <3>. QED BY <1>1, SharesAreInts
    <2>2. rows[n].start \in Nat
      BY SharesAreInts
    <2>3. QED BY <2>1, <2>2
  <1>3. s \in Page /\ q = AddRecord(s, r)
    BY <1>1, PagesAreSteps
  <1>4. /\ s.last = localtime(rows[n].start)
        /\ Kept(s, kind) = Int32(P[n])
        /\ Exact(s.text, kind, rows, unit, Before(unit, n))
    BY DEF Reached
  <1>5. /\ P \in [0 .. N -> Int] /\ Q \in [0 .. N -> Int]
        /\ Q[m] = Q[n] + Share(rows, J, m)
    BY <1>1, PartsAreSums
  <1>6. Share(rows, J, m) = len
    BY <1>1 DEF Share, Length, RowsOf
  <1>7. /\ q.last = IF SameDate(s.last, tm) THEN s.last ELSE tm
        /\ Turns(s.last, tm, kind) =>
             /\ Gains(s.text, q.text, kind, s.last, Kept(s, kind))
             /\ Kept(q, kind) = Int32(0 + Int32(len))
        /\ ~Turns(s.last, tm, kind) =>
             /\ Gains(s.text, q.text, kind, s.last, 0)
             /\ Kept(q, kind) = Int32(Kept(s, kind) + Int32(len))
    <2>. HIDE DEF q, r, tm, s
    <2>. QED BY <1>2, <1>3, RecordAdded DEF tm
  <1>8. q.last = tm
    <2>. HIDE DEF q, s, r
    <2>1. SameDate(localtime(rows[n].start), tm) => localtime(rows[n].start) = tm
      BY <1>2, DateTellsDay
    <2>2. QED BY <1>4, <1>7, <2>1
  <1>9. Turns(s.last, tm, kind) <=> unit[n] # unit[m]
    <2>. HIDE DEF s
    <2>. QED BY <1>1, <1>4 DEF TurnsAreUnits
  <1>10. unit[n] \in Nat /\ unit[m] \in Nat /\ unit[n] <= unit[m]
    BY <1>1 DEF Ascends
  <1>11. s.text \in Seq(Line)
    BY <1>3, LinesOfPage
  <1>12. Exact(q.text, kind, rows, unit, Before(unit, m)) /\ Kept(q, kind) = Int32(Q[m])
    <2>1. CASE unit[n] = unit[m]
      <3>1. Before(unit, m) = Before(unit, n)
        <4>1. \A i \in 1 .. m : i \in 1 .. n \/ i = m
          BY <1>1
        <4>2. \A i \in 1 .. n : i \in 1 .. m
          BY <1>1
        <4>3. QED BY <2>1, <4>1, <4>2 DEF Before
      <3>2. Q = P
        BY <2>1
      <3>3. P[n] \in Int
        BY <1>1, <1>5
      <3>. HIDE DEF q, s, P, Q, len, m
      <3>4. /\ Gains(s.text, q.text, kind, s.last, 0)
            /\ Kept(q, kind) = Int32(Int32(P[n]) + Int32(len))
        BY <1>4, <1>7, <1>9, <2>1
      <3>5. Exact(q.text, kind, rows, unit, Before(unit, m))
        BY <1>4, <3>1, <3>4, NothingIsExact
      <3>6. Int32(Int32(P[n]) + Int32(len)) = Int32(P[n] + len)
        BY <1>2, <3>3, Int32Adds
      <3>7. QED BY <1>5, <1>6, <3>2, <3>4, <3>5, <3>6
    <2>2. CASE unit[n] # unit[m]
      <3>1. unit[n] < unit[m]
        BY <1>10, <2>2
      <3>2. \A i \in 1 .. n : unit[i] <= unit[n] /\ unit[i] \in Nat
        <4>1. \A i \in 1 .. n : i \in DOMAIN rows /\ n \in DOMAIN rows /\ i <= n
          BY <1>1
        <4>2. QED BY <4>1 DEF Ascends
      <3>3. \A i \in m .. N : unit[m] <= unit[i] /\ unit[i] \in Nat
        <4>1. \A i \in m .. N : i \in DOMAIN rows /\ m \in DOMAIN rows /\ m <= i
          BY <1>1
        <4>2. QED BY <4>1 DEF Ascends
      <3>4. P[N] = P[n]
        <4>1. \A i \in (n + 1) .. N : i \notin I
          BY <1>10, <3>1, <3>3 DEF RowsOf
        <4>2. QED BY <1>1, <4>1, PartsStop
      <3>5. Q[n] = 0
        <4>1. \A i \in 1 .. n : i \notin J
          BY <1>10, <3>1, <3>2 DEF RowsOf
        <4>2. QED BY <1>1, <4>1, PartsStand
      <3>6. Before(unit, n) \cup I = Before(unit, m)
        <4>1. \A i \in I : i \in 1 .. n
          <5>1. \A i \in 1 .. N : i \in 1 .. n \/ i \in m .. N
            BY <1>1
          <5>2. QED BY <1>1, <1>10, <3>1, <3>3, <5>1 DEF RowsOf
        <4>2. \A i \in 1 .. m : i \in 1 .. n \/ i = m
          BY <1>1
        <4>3. \A i \in 1 .. n : i \in 1 .. m /\ i \in 1 .. N /\ unit[i] # unit[m]
          BY <1>1, <1>10, <3>1, <3>2
        <4>. HIDE DEF m
        <4>4. \A i \in 1 .. n : i \in I <=> unit[i] = unit[n]
          BY <1>1, <4>3 DEF RowsOf
        <4>5. \A i : i \in Before(unit, m) <=> i \in 1 .. n
          BY <4>2, <4>3 DEF Before
        <4>6. \A i : i \in Before(unit, n) \cup I <=> i \in 1 .. n
          BY <4>1, <4>4 DEF Before
        <4>7. QED BY <4>5, <4>6
      <3>7. /\ Before(unit, n) \in SUBSET DOMAIN rows /\ n \in DOMAIN rows
            /\ \A i \in Before(unit, n) : unit[i] < unit[n]
        BY <1>1, <1>10, <3>2 DEF Before
      <3>8. Kept(s, kind) = Worth(rows, unit, unit[n])
        BY <1>4, <3>4 DEF Worth, Total, Sum
      <3>. HIDE DEF q, s, P, Q, len, m, J
      <3>9. /\ Gains(s.text, q.text, kind, localtime(rows[n].start), Worth(rows, unit, unit[n]))
            /\ Kept(q, kind) = Int32(0 + Int32(len))
        BY <1>4, <1>7, <1>9, <2>2, <3>8
      <3>10. Exact(q.text, kind, rows, unit, Before(unit, m))
        <4>1. Exact(q.text, kind, rows, unit, Before(unit, n) \cup RowsOf(unit, unit[n]))
          BY <1>4, <1>11, <3>7, <3>9, LineIsExact
        <4>2. QED BY <3>6, <4>1
      <3>11. 0 + Int32(len) = Int32(len) + 0 /\ Int32(len) \in Int /\ Q[n] + len = len + 0
        BY <1>2, <3>5, Int32Fits
      <3>12. Int32(Int32(len) + 0) = Int32(len + 0)
        <4>. DEFINE nil == 0
        <4>1. nil \in Int
          OBVIOUS
        <4>. HIDE DEF nil
        <4>2. Int32(Int32(len) + nil) = Int32(len + nil)
          BY <1>2, <4>1, Int32Wraps
        <4>3. QED BY <4>2 DEF nil
      <3>13. QED BY <1>5, <1>6, <3>9, <3>10, <3>11, <3>12
    <2>3. QED BY <2>1, <2>2
  <1>13. QED BY <1>8, <1>12 DEF Reached

(* The lines of one kind that showLog prints stand for the units of all    *)
(* the records.                                                            *)
LEMMA LinesAreExact ==
  ASSUME NEW rows \in Seq(Row), NEW kind \in Kinds, NEW unit \in [DOMAIN rows -> Nat],
         Ascends(rows, unit), TurnsAreUnits(rows, unit, kind)
  PROVE  Exact(showLog(rows), kind, rows, unit, DOMAIN rows)
  <1>. DEFINE N == Len(rows)
              s == Pages(rows)[N]
              text == WeekLine(DayLine(s), s)
  <1>1. /\ N \in Nat /\ DOMAIN rows = 1 .. N /\ N \in 0 .. N
        /\ showLog(rows) = text
    BY LenProperties DEF showLog
  <1>2. s \in Page
    BY <1>1, PagesAreSteps
  <1>3. Gains(s.text, text, kind, s.last, Kept(s, kind))
    <2>1. kind = "day" \/ kind = "week"
      BY DEF Kinds
    <2>2. QED BY <1>2, <2>1, LinesAtTurn DEF Kept
  <1>4. CASE N = 0
    <2>1. s = Started
      BY <1>4, PagesAreSteps
    <2>2. s.text = <<>> /\ Kept(s, kind) = 0
      BY <2>1 DEF Started, Kept
    <2>3. DOMAIN rows = {}
      BY <1>1, <1>4
    <2>4. Exact(<<>>, kind, rows, unit, {})
      BY DEF Exact, LinesOf
    <2>. HIDE DEF s, text
    <2>5. Gains(<<>>, text, kind, s.last, 0)
      BY <1>3, <2>2
    <2>6. QED BY <1>1, <2>3, <2>4, <2>5, NothingIsExact
  <1>5. CASE N # 0
    <2>. DEFINE T == {k \in 0 .. N - 1 : Reached(Pages(rows)[k + 1], k + 1, kind, rows, unit)}
    <2>1. N - 1 \in Nat /\ N >= 1 /\ (N - 1) + 1 = N
      BY <1>1, <1>5
    <2>2. 0 \in T
      BY <2>1, FirstReached
    <2>3. ASSUME NEW k \in 0 .. N - 1, k < N - 1, k \in T PROVE k + 1 \in T
      <3>1. k + 1 \in 1 .. Len(rows) /\ k + 1 < Len(rows) /\ k + 1 \in 0 .. N - 1
        BY <1>1, <2>3
      <3>2. Reached(Pages(rows)[k + 1], k + 1, kind, rows, unit)
        BY <2>3
      <3>3. Reached(Pages(rows)[(k + 1) + 1], (k + 1) + 1, kind, rows, unit)
        BY <3>1, <3>2, NextReached
      <3>4. QED BY <3>1, <3>3
    <2>4. \A k \in 0 .. N - 1 : k \in T
      <3>. HIDE DEF T
      <3>. QED BY <2>1, <2>2, <2>3, Induction
    <2>5. Reached(s, N, kind, rows, unit)
      <3>1. N - 1 \in T
        BY <2>1, <2>4
      <3>2. Reached(Pages(rows)[(N - 1) + 1], (N - 1) + 1, kind, rows, unit)
        BY <3>1
      <3>. HIDE DEF N, T
      <3>3. QED BY <2>1, <3>2
    <2>6. /\ Exact(s.text, kind, rows, unit, Before(unit, N))
          /\ Kept(s, kind) = Worth(rows, unit, unit[N])
          /\ s.last = localtime(rows[N].start)
      BY <2>5 DEF Reached, Worth, Total, Sum
    <2>7. N \in DOMAIN rows /\ Before(unit, N) \in SUBSET DOMAIN rows
      BY <1>1, <2>1 DEF Before
    <2>8. \A i \in Before(unit, N) : unit[i] < unit[N]
      <3>1. \A i \in Before(unit, N) : unit[i] # unit[N] /\ i <= N /\ i \in DOMAIN rows
        BY <1>1 DEF Before
      <3>2. \A i \in Before(unit, N) : unit[i] <= unit[N] /\ unit[i] \in Nat /\ unit[N] \in Nat
        BY <2>7, <3>1 DEF Ascends
      <3>3. QED BY <3>1, <3>2
    <2>9. Before(unit, N) \cup RowsOf(unit, unit[N]) = DOMAIN rows
      BY <1>1 DEF Before, RowsOf
    <2>10. s.text \in Seq(Line)
      BY <1>2, LinesOfPage
    <2>. HIDE DEF s, text, N
    <2>11. Gains(s.text, text, kind, localtime(rows[N].start), Worth(rows, unit, unit[N]))
      BY <1>3, <2>6
    <2>12. Exact(text, kind, rows, unit, Before(unit, N) \cup RowsOf(unit, unit[N]))
      BY <2>6, <2>7, <2>8, <2>10, <2>11, LineIsExact
    <2>13. QED BY <1>1, <2>9, <2>12
  <1>6. QED BY <1>4, <1>5

-----------------------------------------------------------------------------
(* Records in order. *)

(* A record that was never ended, or within a second of its start.         *)
Short(r) == r.end <= r.start + 1

(* What is left when a record was stored "time" ago or before: it began    *)
(* and ended two seconds ahead of that time at most, and if it was ended,   *)
(* then two seconds before it began at most.                               *)
Recorded(rows, time) ==
  \A i \in DOMAIN rows :
    /\ Epoch <= rows[i].start /\ rows[i].start <= time + 1
    /\ rows[i].end <= time + 2
    /\ rows[i].end = 0 \/ rows[i].start <= rows[i].end + 2

(* The records stand in the order of their starts.  One ends two seconds   *)
(* after the next one began at most, unless that is short.                 *)
InTurn(rows) ==
  \A i, j \in DOMAIN rows : i < j =>
    /\ rows[i].start <= rows[j].start
    /\ rows[i].end <= rows[j].start + 2 \/ Short(rows[j])

(* Record c can be ended at any time: none before it is in its way, and    *)
(* those behind it are short.                                              *)
Latest(rows, c) ==
  \A i \in DOMAIN rows : /\ i < c => rows[i].end <= rows[c].start + 2
                         /\ i > c => Short(rows[i])

(* A record can be added that begins at t and ends at any time.            *)
Clear(rows, t) ==
  \A i \in DOMAIN rows :
    IF rows[i].start <= t THEN rows[i].end <= t + 2 ELSE Short(rows[i])

(* The clock starts past 0, the value of a record without an end.          *)
LEMMA Bounds ==
  /\ Epoch \in Nat /\ Epoch > 0 /\ MaxClock \in Nat /\ MaxRows \in Nat
  /\ StartTime \in Nat \ {0} /\ StopTime \in Nat \ {0}
BY ReportsAssumption

(* The types of what a log holds.                                          *)
LEMMA RowsAreRows ==
  ASSUME NEW rows \in Seq(Row)
  PROVE  /\ Len(rows) \in Nat /\ DOMAIN rows = 1 .. Len(rows)
         /\ \A i \in DOMAIN rows : rows[i] \in Row /\ rows[i].start \in Nat /\ rows[i].end \in Nat
  <1>1. Len(rows) \in Nat /\ DOMAIN rows = 1 .. Len(rows)
    BY LenProperties
  <1>2. \A i \in DOMAIN rows : rows[i] \in Row
    BY <1>1, ElementOfSeq
  <1>3. QED BY <1>1, <1>2 DEF Row

(* Where the records are once one was inserted.                            *)
LEMMA Inserted ==
  ASSUME NEW rows \in Seq(Row), NEW p \in 1 .. (Len(rows) + 1), NEW r \in Row,
         NEW qs, qs = Insert(rows, p, r)
  PROVE  /\ qs \in Seq(Row) /\ Len(qs) = Len(rows) + 1 /\ DOMAIN qs = 1 .. (Len(rows) + 1)
         /\ p \in DOMAIN qs /\ qs[p] = r
         /\ \A i \in DOMAIN rows : IF i < p THEN i \in DOMAIN qs /\ qs[i] = rows[i]
                                            ELSE i + 1 \in DOMAIN qs /\ qs[i + 1] = rows[i]
         /\ \A j \in DOMAIN qs : \/ j < p /\ j \in DOMAIN rows /\ qs[j] = rows[j]
                                 \/ j = p
                                 \/ j > p /\ j - 1 \in DOMAIN rows /\ qs[j] = rows[j - 1]
  <1>. DEFINE n == Len(rows) + 1
  <1>1. /\ n \in Nat /\ p \in 1 .. n /\ DOMAIN rows = 1 .. (n - 1)
        /\ \A i \in 1 .. (n - 1) : rows[i] \in Row
    BY RowsAreRows
  <1>2. qs = [i \in 1 .. n |-> IF i < p THEN rows[i] ELSE IF i = p THEN r ELSE rows[i - 1]]
    BY DEF Insert
  <1>. HIDE DEF n
  <1>3. \A j \in 1 .. n : \/ j < p /\ j \in 1 .. (n - 1) /\ qs[j] = rows[j]
                          \/ j = p /\ qs[j] = r
                          \/ j > p /\ j - 1 \in 1 .. (n - 1) /\ qs[j] = rows[j - 1]
    BY <1>1, <1>2
  <1>4. \A j \in 1 .. n : qs[j] \in Row
    BY <1>1, <1>3
  <1>5. qs \in [1 .. n -> Row] /\ DOMAIN qs = 1 .. n
    BY <1>2, <1>4
  <1>6. qs \in Seq(Row)
    BY <1>1, <1>5, SeqDef
  <1>7. Len(qs) = n
    <2>1. Len(qs) \in Nat /\ 1 .. Len(qs) = 1 .. n
      BY <1>5, <1>6, LenProperties
    <2>2. QED BY <1>1, <2>1
  <1>8. \A i \in 1 .. (n - 1) : IF i < p THEN i \in 1 .. n /\ qs[i] = rows[i]
                                         ELSE i + 1 \in 1 .. n /\ qs[i + 1] = rows[i]
    <2>1. SUFFICES ASSUME NEW i \in 1 .. (n - 1)
                   PROVE  IF i < p THEN i \in 1 .. n /\ qs[i] = rows[i]
                                   ELSE i + 1 \in 1 .. n /\ qs[i + 1] = rows[i]
      OBVIOUS
    <2>2. i \in 1 .. n /\ i + 1 \in 1 .. n /\ (i + 1) - 1 = i
      BY <1>1
    <2>3. i < p => qs[i] = rows[i]
      BY <1>2, <2>2
    <2>4. ~(i < p) => qs[i + 1] = rows[i]
      BY <1>1, <1>2, <2>2
    <2>5. QED BY <2>2, <2>3, <2>4
  <1>9. QED BY <1>1, <1>3, <1>5, <1>6, <1>7, <1>8 DEF n

(* A record that is inserted where there is room can be ended at any time. *)
LEMMA InsertKeepsOrder ==
  ASSUME NEW rows \in Seq(Row), NEW s \in Nat, NEW time \in Nat, s <= time,
         Recorded(rows, s), InTurn(rows),
         NEW r \in Row, NEW p, Place(rows, p, r.start), Clear(rows, r.start),
         Epoch <= r.start, r.start <= time + 1, r.end <= time + 2,
         r.end = 0 \/ r.start <= r.end + 2,
         NEW qs, qs = Insert(rows, p, r)
  PROVE  /\ qs \in Seq(Row) /\ Len(qs) = Len(rows) + 1 /\ p \in 1 .. Len(qs)
         /\ Recorded(qs, time) /\ InTurn(qs) /\ Latest(qs, p)
  <1>1. p \in 1 .. (Len(rows) + 1) /\ \A i \in DOMAIN rows : i < p <=> rows[i].start <= r.start
    BY DEF Place
  <1>2. /\ qs \in Seq(Row) /\ Len(qs) = Len(rows) + 1 /\ DOMAIN qs = 1 .. (Len(rows) + 1)
        /\ qs[p] = r
        /\ \A j \in DOMAIN qs : \/ j < p /\ j \in DOMAIN rows /\ qs[j] = rows[j]
                                \/ j = p
                                \/ j > p /\ j - 1 \in DOMAIN rows /\ qs[j] = rows[j - 1]
    BY <1>1, Inserted
  <1>3. r.start \in Nat /\ r.end \in Nat
    BY DEF Row
  <1>4. /\ Len(rows) \in Nat /\ DOMAIN rows = 1 .. Len(rows)
        /\ \A i \in DOMAIN rows : rows[i].start \in Nat /\ rows[i].end \in Nat
    BY RowsAreRows
  <1>5. \A j \in DOMAIN qs : qs[j].start \in Nat /\ qs[j].end \in Nat /\ j \in Nat
    BY <1>2, RowsAreRows
  <1>6. Recorded(qs, time)
    <2>1. SUFFICES ASSUME NEW j \in DOMAIN qs
                   PROVE  /\ Epoch <= qs[j].start /\ qs[j].start <= time + 1
                          /\ qs[j].end <= time + 2
                          /\ qs[j].end = 0 \/ qs[j].start <= qs[j].end + 2
      BY DEF Recorded
    <2>2. CASE j = p
      BY <1>2, <2>2
    <2>3. ASSUME NEW i \in DOMAIN rows, qs[j] = rows[i]
          PROVE  /\ Epoch <= qs[j].start /\ qs[j].start <= time + 1
                 /\ qs[j].end <= time + 2
                 /\ qs[j].end = 0 \/ qs[j].start <= qs[j].end + 2
      <3>1. /\ Epoch <= rows[i].start /\ rows[i].start <= s + 1 /\ rows[i].end <= s + 2
            /\ rows[i].end = 0 \/ rows[i].start <= rows[i].end + 2
        BY DEF Recorded
      <3>2. rows[i].start \in Nat /\ rows[i].end \in Nat
        BY <1>4
      <3>3. QED BY <2>3, <3>1, <3>2
    <2>4. QED BY <1>2, <2>2, <2>3
  <1>7. \A j \in DOMAIN qs : j < p => qs[j].start <= r.start /\ qs[j].end <= r.start + 2
    <2>1. SUFFICES ASSUME NEW j \in DOMAIN qs, j < p
                   PROVE  qs[j].start <= r.start /\ qs[j].end <= r.start + 2
      OBVIOUS
    <2>2. j \in DOMAIN rows /\ qs[j] = rows[j]
      BY <1>1, <1>2, <1>5, <2>1
    <2>3. QED BY <1>1, <2>1, <2>2 DEF Clear
  <1>8. \A j \in DOMAIN qs : j > p => r.start <= qs[j].start /\ Short(qs[j])
    <2>1. SUFFICES ASSUME NEW j \in DOMAIN qs, j > p
                   PROVE  r.start <= qs[j].start /\ Short(qs[j])
      OBVIOUS
    <2>2. j - 1 \in DOMAIN rows /\ qs[j] = rows[j - 1] /\ ~(j - 1 < p)
      BY <1>1, <1>2, <1>5, <2>1
    <2>3. ~(rows[j - 1].start <= r.start) /\ rows[j - 1].start \in Nat
      BY <1>1, <1>4, <2>2
    <2>4. QED BY <1>3, <2>2, <2>3 DEF Clear
  <1>9. Latest(qs, p)
    BY <1>2, <1>7, <1>8 DEF Latest
  <1>10. InTurn(qs)
    <2>1. SUFFICES ASSUME NEW i \in DOMAIN qs, NEW j \in DOMAIN qs, i < j
                   PROVE  /\ qs[i].start <= qs[j].start
                          /\ qs[i].end <= qs[j].start + 2 \/ Short(qs[j])
      BY DEF InTurn
    <2>2. CASE j = p
      BY <1>2, <1>7, <2>1, <2>2
    <2>3. CASE i = p
      BY <1>2, <1>8, <2>1, <2>3
    <2>4. CASE i # p /\ j # p
      <3>1. PICK a \in DOMAIN rows, b \in DOMAIN rows : a < b /\ qs[i] = rows[a] /\ qs[j] = rows[b]
        <4>1. /\ (i < p /\ i \in DOMAIN rows /\ qs[i] = rows[i])
                 \/ (i > p /\ i - 1 \in DOMAIN rows /\ qs[i] = rows[i - 1])
              /\ (j < p /\ j \in DOMAIN rows /\ qs[j] = rows[j])
                 \/ (j > p /\ j - 1 \in DOMAIN rows /\ qs[j] = rows[j - 1])
          BY <1>2, <2>4
        <4>2. i \in Nat /\ j \in Nat /\ p \in Nat
          BY <1>1, <1>4, <1>5
        <4>3. CASE i < p /\ j < p
          BY <2>1, <4>1, <4>2, <4>3
        <4>4. CASE i < p /\ j > p
          <5>1. i < j - 1
            BY <4>2, <4>4
          <5>2. QED BY <4>1, <4>2, <4>4, <5>1
        <4>5. CASE i > p /\ j > p
          <5>1. i - 1 < j - 1
            BY <2>1, <4>2
          <5>2. QED BY <4>1, <4>2, <4>5, <5>1
        <4>6. QED BY <2>1, <2>4, <4>2, <4>3, <4>4, <4>5
      <3>2. QED BY <3>1 DEF InTurn
    <2>5. QED BY <2>2, <2>3, <2>4
  <1>11. QED BY <1>1, <1>2, <1>6, <1>9, <1>10

(* The records of qs are those of rows, but record c ends at e.            *)
IsEnded(qs, rows, c, e) == qs = [rows EXCEPT ![c].end = e]

(* The end of that record is all that changes. *)
LEMMA Ended ==
  ASSUME NEW rows \in Seq(Row), NEW c \in DOMAIN rows, NEW e \in Nat,
         NEW qs, IsEnded(qs, rows, c, e)
  PROVE  /\ qs \in Seq(Row) /\ Len(qs) = Len(rows) /\ DOMAIN qs = DOMAIN rows
         /\ qs[c].start = rows[c].start /\ qs[c].end = e
         /\ \A i \in DOMAIN rows : i # c => qs[i] = rows[i]
         /\ \A i \in DOMAIN rows : qs[i].start = rows[i].start
  <1>. DEFINE r == [rows[c] EXCEPT !.end = e]
  <1>1. /\ Len(rows) \in Nat /\ DOMAIN rows = 1 .. Len(rows)
        /\ \A i \in DOMAIN rows : rows[i] \in Row
    BY RowsAreRows
  <1>2. r \in Row /\ r.start = rows[c].start /\ r.end = e
    BY <1>1 DEF Row
  <1>3. qs = [rows EXCEPT ![c] = r]
    BY <1>1 DEF IsEnded
  <1>. HIDE DEF r
  <1>4. qs \in Seq(Row) /\ Len(qs) = Len(rows)
    BY <1>1, <1>2, <1>3, ExceptSeq
  <1>5. DOMAIN qs = DOMAIN rows /\ \A i \in DOMAIN rows : qs[i] = IF i = c THEN r ELSE rows[i]
    BY <1>3
  <1>6. QED BY <1>2, <1>4, <1>5

(* A record that can be ended at any time can be ended again.              *)
LEMMA EndKeepsOrder ==
  ASSUME NEW rows \in Seq(Row), NEW s \in Nat, NEW time \in Nat, s <= time,
         Recorded(rows, s), InTurn(rows),
         NEW c \in DOMAIN rows, Latest(rows, c),
         NEW e \in Nat, e <= time + 2, rows[c].start <= e + 2,
         NEW qs, IsEnded(qs, rows, c, e)
  PROVE  /\ qs \in Seq(Row) /\ Len(qs) = Len(rows) /\ DOMAIN qs = DOMAIN rows
         /\ qs[c].start = rows[c].start /\ qs[c].end = e
         /\ \A i \in DOMAIN rows : i # c => qs[i] = rows[i]
         /\ \A i \in DOMAIN rows : qs[i].start = rows[i].start
         /\ Recorded(qs, time) /\ InTurn(qs) /\ Latest(qs, c)
  <1>1. /\ Len(rows) \in Nat /\ DOMAIN rows = 1 .. Len(rows)
        /\ \A i \in DOMAIN rows : rows[i] \in Row /\ rows[i].start \in Nat /\ rows[i].end \in Nat
    BY RowsAreRows
  <1>2. /\ qs \in Seq(Row) /\ Len(qs) = Len(rows) /\ DOMAIN qs = DOMAIN rows
        /\ qs[c].start = rows[c].start /\ qs[c].end = e
        /\ \A i \in DOMAIN rows : i # c => qs[i] = rows[i]
        /\ \A i \in DOMAIN rows : qs[i].start = rows[i].start
    BY Ended
  <1>3. Recorded(qs, time)
    <2>1. \A i \in DOMAIN rows : /\ Epoch <= rows[i].start /\ rows[i].start <= time + 1
                                 /\ rows[i].end <= time + 2
                                 /\ rows[i].end = 0 \/ rows[i].start <= rows[i].end + 2
      BY <1>1 DEF Recorded
    <2>2. QED BY <1>1, <1>2, <2>1 DEF Recorded
  <1>4. InTurn(qs) /\ Latest(qs, c)
    <2>1. \A i \in DOMAIN rows : i < c => qs[i].end <= qs[c].start + 2
      <3>1. \A i \in DOMAIN rows : i < c => rows[i].end <= rows[c].start + 2 /\ i # c
        BY <1>1 DEF Latest
      <3>2. \A i \in DOMAIN rows : i # c => qs[i].end = rows[i].end
        BY <1>2
      <3>3. QED BY <1>2, <3>1, <3>2
    <2>2. \A i \in DOMAIN rows : i > c => Short(qs[i])
      <3>1. \A i \in DOMAIN rows : i > c => Short(rows[i]) /\ i # c
        BY <1>1 DEF Latest
      <3>2. QED BY <1>2, <3>1
    <2>3. SUFFICES ASSUME NEW i \in DOMAIN rows, NEW j \in DOMAIN rows, i < j
                   PROVE  /\ qs[i].start <= qs[j].start
                          /\ qs[i].end <= qs[j].start + 2 \/ Short(qs[j])
      BY <1>2, <2>1, <2>2 DEF InTurn, Latest
    <2>4. rows[i].start <= rows[j].start /\ (rows[i].end <= rows[j].start + 2 \/ Short(rows[j]))
      BY <2>3 DEF InTurn
    <2>5. qs[i].start <= qs[j].start
      BY <1>2, <2>4
    <2>6. CASE i = c
      BY <2>2, <2>3, <2>5, <2>6
    <2>7. CASE j = c
      BY <2>1, <2>3, <2>5, <2>7
    <2>8. CASE i # c /\ j # c
      BY <1>2, <2>4, <2>5, <2>8
    <2>9. QED BY <2>6, <2>7, <2>8
  <1>5. QED BY <1>2, <1>3, <1>4

(* There is room from the time of the last change on.                      *)
LEMMA PastIsClear ==
  ASSUME NEW rows \in Seq(Row), NEW s \in Nat, NEW t \in Nat, s <= t, Recorded(rows, s)
  PROVE  Clear(rows, t)
  <1>1. \A i \in DOMAIN rows : rows[i].start \in Nat /\ rows[i].end \in Nat
    BY RowsAreRows
  <1>2. \A i \in DOMAIN rows : rows[i].start <= s + 1 /\ rows[i].end <= s + 2
    BY DEF Recorded
  <1>3. QED BY <1>1, <1>2 DEF Clear, Short

(* There is room from the end of the latest record on.                     *)
LEMMA LatestIsClear ==
  ASSUME NEW rows \in Seq(Row), InTurn(rows), NEW c \in DOMAIN rows, Latest(rows, c),
         NEW t \in Nat, rows[c].start <= t, rows[c].end <= t + 2
  PROVE  Clear(rows, t)
  <1>1. c \in Nat /\ \A i \in DOMAIN rows : i \in Nat /\ rows[i].start \in Nat /\ rows[i].end \in Nat
    BY RowsAreRows
  <1>2. SUFFICES ASSUME NEW i \in DOMAIN rows
                 PROVE  IF rows[i].start <= t THEN rows[i].end <= t + 2 ELSE Short(rows[i])
    BY DEF Clear
  <1>3. CASE i < c
    <2>1. rows[i].start <= rows[c].start /\ rows[i].end <= rows[c].start + 2
      BY <1>3 DEF InTurn, Latest
    <2>2. QED BY <1>1, <2>1
  <1>4. CASE i = c
    BY <1>4
  <1>5. CASE i > c
    <2>1. rows[i].end <= rows[i].start + 1
      BY <1>5 DEF Latest, Short
    <2>2. QED BY <1>1, <2>1 DEF Short
  <1>6. QED BY <1>1, <1>3, <1>4, <1>5

-----------------------------------------------------------------------------
(* The log. *)

InTime == Epoch <= since /\ since <= now /\ now <= Epoch + MaxClock

(* The record that is counted and the one the dialog is about can be ended *)
(* at any time, and there is only one of them.                             *)
Pointed ==
  /\ cur = 0 \/ asked = 0
  /\ cur > 0 => Latest(log, cur)
  /\ asked > 0 => /\ Latest(log, asked)
                  /\ log[asked].start <= since
                  /\ log[asked].start <= log[asked].end + 1

IInv ==
  /\ TypeOK /\ InTime
  /\ Recorded(log, since) /\ InTurn(log) /\ Len(log) <= MaxRows
  /\ Pointed

(* The types of the variables, and what the invariant says of the records  *)
(* that are pointed at.                                                    *)
LEMMA StateOfLog ==
  ASSUME IInv
  PROVE  /\ log \in Seq(Row) /\ Len(log) \in Nat /\ DOMAIN log = 1 .. Len(log)
         /\ now \in Nat /\ since \in Nat /\ since <= now
         /\ cur \in 0 .. Len(log) /\ cur \in Nat /\ asked \in 0 .. Len(log) /\ asked \in Nat
         /\ \A i \in DOMAIN log : log[i] \in Row /\ log[i].start \in Nat /\ log[i].end \in Nat
         /\ cur > 0 => /\ cur \in DOMAIN log /\ asked = 0
                       /\ Latest(log, cur) /\ log[cur].start <= since + 1
         /\ asked > 0 => /\ asked \in DOMAIN log /\ cur = 0
                         /\ Latest(log, asked) /\ log[asked].start <= since
                         /\ log[asked].start <= log[asked].end + 1
  <1>1. log \in Seq(Row) /\ now \in Nat /\ since \in Nat /\ cur \in 0 .. Len(log) /\ asked \in 0 .. Len(log)
    BY DEF IInv, TypeOK
  <1>2. /\ Len(log) \in Nat /\ DOMAIN log = 1 .. Len(log)
        /\ \A i \in DOMAIN log : log[i] \in Row /\ log[i].start \in Nat /\ log[i].end \in Nat
    BY <1>1, RowsAreRows
  <1>3. /\ cur \in Nat /\ asked \in Nat
        /\ cur > 0 => cur \in DOMAIN log
        /\ asked > 0 => asked \in DOMAIN log
    BY <1>1, <1>2
  <1>4. cur > 0 => log[cur].start <= since + 1
    BY <1>3 DEF IInv, Recorded
  <1>5. QED BY <1>1, <1>2, <1>3, <1>4 DEF IInv, InTime, Pointed

(* An empty log is in order.                                               *)
LEMMA InitIInv == Init => IInv
  <1>1. SUFFICES ASSUME Init PROVE IInv
    OBVIOUS
  <1>2. log \in Seq(Row) /\ Len(log) = 0 /\ DOMAIN log = {}
    BY <1>1, EmptySeq, LenProperties DEF Init
  <1>3. now = Epoch /\ since = now /\ cur = 0 /\ asked = 0
    BY <1>1 DEF Init
  <1>4. TypeOK /\ InTime /\ Pointed
    BY <1>2, <1>3, Bounds DEF TypeOK, InTime, Pointed
  <1>5. Recorded(log, since) /\ InTurn(log) /\ Len(log) <= MaxRows
    BY <1>2, Bounds DEF Recorded, InTurn
  <1>6. QED BY <1>4, <1>5 DEF IInv

(* What a record that is counted from "start" on does to the log.          *)
LEMMA CountsKeepsOrder ==
  ASSUME NEW rows \in Seq(Row), NEW s \in Nat, NEW time \in Nat, s <= time,
         Recorded(rows, s), InTurn(rows),
         NEW start \in Nat, Clear(rows, start), Epoch <= start, start <= time + 1,
         Counts(rows, start)
  PROVE  /\ log' \in Seq(Row) /\ Len(log') = Len(rows) + 1
         /\ Recorded(log', time) /\ InTurn(log')
         /\ cur' \in 0 .. Len(log') /\ (cur' > 0 => Latest(log', cur'))
  <1>. DEFINE r == [start |-> start, end |-> 0]
  <1>1. PICK p \in 1 .. (Len(rows) + 1) :
          Place(rows, p, start) /\ log' = Insert(rows, p, r) /\ cur' \in {p, 0}
    BY DEF Counts
  <1>2. r \in Row /\ r.start = start /\ r.end = 0 /\ r.end <= time + 2
    BY DEF Row
  <1>3. Len(rows) \in Nat
    BY RowsAreRows
  <1>. HIDE DEF r
  <1>5. /\ Place(rows, p, r.start) /\ Clear(rows, r.start)
        /\ Epoch <= r.start /\ r.start <= time + 1
    BY <1>1, <1>2
  <1>. DEFINE qs == log'
  <1>6. qs = Insert(rows, p, r)
    BY <1>1
  <1>. HIDE DEF qs
  <1>7. /\ qs \in Seq(Row) /\ Len(qs) = Len(rows) + 1 /\ p \in 1 .. Len(qs)
        /\ Recorded(qs, time) /\ InTurn(qs) /\ Latest(qs, p)
    <2>1. \/ r.end = 0
          \/ r.start <= r.end + 2
      BY <1>2
    <2>2. r \in Row /\ r.end <= time + 2
      BY <1>2
    <2>3. QED BY <1>5, <1>6, <2>1, <2>2, InsertKeepsOrder
  <1>8. QED BY <1>1, <1>3, <1>7 DEF qs

(* It is one longer. *)
LEMMA CountsLength ==
  ASSUME NEW rows \in Seq(Row), NEW start \in Nat, Counts(rows, start)
  PROVE  Len(log') = Len(rows) + 1
  <1>. DEFINE qs == log'
              r == [start |-> start, end |-> 0]
  <1>1. PICK p \in 1 .. (Len(rows) + 1) : qs = Insert(rows, p, r)
    BY DEF Counts
  <1>2. r \in Row
    BY DEF Row
  <1>. HIDE DEF qs, r
  <1>3. Len(qs) = Len(rows) + 1
    BY <1>1, <1>2, Inserted
  <1>4. QED BY <1>3 DEF qs

(* The user came back: the record he begins is added. *)
LEMMA OnReturnKeepsIInv ==
  ASSUME IInv, NEW time \in since .. now, OnReturn(time)
  PROVE  IInv'
  <1>1. /\ log \in Seq(Row) /\ Len(log) \in Nat /\ now \in Nat /\ since \in Nat /\ since <= now
        /\ Recorded(log, since) /\ InTurn(log) /\ InTime
    BY StateOfLog DEF IInv
  <1>2. /\ asked = 0 /\ Counts(log, time) /\ Len(log) + 1 <= MaxRows
        /\ since' = now /\ now' = now /\ asked' = asked
    BY DEF OnReturn, Room
  <1>3. time \in Nat /\ Epoch \in Nat /\ since <= time /\ Epoch <= time /\ time <= now + 1
    BY <1>1, Bounds DEF InTime
  <1>4. Clear(log, time)
    BY <1>1, <1>3, PastIsClear
  <1>5. /\ log' \in Seq(Row) /\ Len(log') = Len(log) + 1
        /\ Recorded(log', now) /\ InTurn(log')
        /\ cur' \in 0 .. Len(log') /\ (cur' > 0 => Latest(log', cur'))
    BY <1>1, <1>2, <1>3, <1>4, CountsKeepsOrder
  <1>6. TypeOK' /\ InTime' /\ Pointed' /\ Len(log') <= MaxRows
    BY <1>1, <1>2, <1>5, Bounds DEF TypeOK, InTime, Pointed
  <1>7. QED BY <1>2, <1>5, <1>6 DEF IInv

(* A record that is pointed at is ended. *)
LEMMA EndedKeepsOrder ==
  ASSUME IInv, NEW c \in {cur, asked}, c > 0, NEW e \in Nat, e <= now + 2, log[c].start <= e + 2
  PROVE  /\ EndedAt(c, e) \in Seq(Row) /\ Len(EndedAt(c, e)) = Len(log)
         /\ DOMAIN EndedAt(c, e) = DOMAIN log /\ c \in DOMAIN log
         /\ EndedAt(c, e)[c].start = log[c].start /\ EndedAt(c, e)[c].end = e
         /\ \A i \in DOMAIN log : i # c => EndedAt(c, e)[i] = log[i]
         /\ \A i \in DOMAIN log : EndedAt(c, e)[i].start = log[i].start
         /\ Recorded(EndedAt(c, e), now) /\ InTurn(EndedAt(c, e)) /\ Latest(EndedAt(c, e), c)
  <1>1. /\ log \in Seq(Row) /\ now \in Nat /\ since \in Nat /\ since <= now
        /\ Recorded(log, since) /\ InTurn(log)
    BY StateOfLog DEF IInv
  <1>2. c \in DOMAIN log /\ Latest(log, c)
    BY StateOfLog
  <1>. DEFINE qs == EndedAt(c, e)
  <1>3. IsEnded(qs, log, c, e)
    BY DEF EndedAt, IsEnded
  <1>. HIDE DEF qs
  <1>4. /\ qs \in Seq(Row) /\ Len(qs) = Len(log) /\ DOMAIN qs = DOMAIN log
        /\ qs[c].start = log[c].start /\ qs[c].end = e
        /\ \A i \in DOMAIN log : i # c => qs[i] = log[i]
        /\ \A i \in DOMAIN log : qs[i].start = log[i].start
        /\ Recorded(qs, now) /\ InTurn(qs) /\ Latest(qs, c)
    <2>1. e <= now + 2 /\ log[c].start <= e + 2 /\ e \in Nat
      OBVIOUS
    <2>2. QED BY <1>1, <1>2, <1>3, <2>1, EndKeepsOrder
  <1>5. QED BY <1>2, <1>4 DEF qs

(* The user left: his record is ended, and the dialog is about it.         *)
LEMMA OnIdleKeepsIInv ==
  ASSUME IInv, NEW time \in since .. now, OnIdle(time)
  PROVE  IInv'
  <1>1. /\ cur > 0 /\ log' = EndedAt(cur, time) /\ cur' = 0 /\ asked' = cur
        /\ since' = now /\ now' = now /\ time + StopTime <= now
    BY DEF OnIdle
  <1>2. /\ now \in Nat /\ since \in Nat /\ time \in Nat /\ since <= time /\ cur \in DOMAIN log
        /\ log[cur].start \in Nat /\ log[cur].start <= since + 1
        /\ DOMAIN log = 1 .. Len(log) /\ Len(log) \in Nat /\ cur \in 0 .. Len(log)
    BY <1>1, StateOfLog
  <1>3. time <= now + 2 /\ log[cur].start <= time + 2 /\ log[cur].start <= time + 1
        /\ log[cur].start <= now
    BY <1>1, <1>2, Bounds
  <1>4. /\ log' \in Seq(Row) /\ Len(log') = Len(log)
        /\ log'[cur].start = log[cur].start /\ log'[cur].end = time
        /\ Recorded(log', now) /\ InTurn(log') /\ Latest(log', cur)
    BY <1>1, <1>2, <1>3, EndedKeepsOrder
  <1>5. TypeOK' /\ InTime'
    BY <1>1, <1>2, <1>4, Bounds DEF IInv, TypeOK, InTime
  <1>6. Pointed'
    BY <1>1, <1>3, <1>4 DEF Pointed
  <1>7. QED BY <1>1, <1>4, <1>5, <1>6 DEF IInv

(* What the answers have in common: the time picked is one at which the    *)
(* record they are about can be ended.                                     *)
LEMMA PickEnds ==
  ASSUME IInv, asked > 0, NEW pick \in Epoch .. now, pick \in Picks
  PROVE  /\ pick \in Nat /\ Epoch <= pick /\ pick <= now
         /\ log[asked].start <= pick + 1 /\ log[asked].start \in Nat
         /\ EndedAt(asked, pick) \in Seq(Row) /\ Len(EndedAt(asked, pick)) = Len(log)
         /\ DOMAIN EndedAt(asked, pick) = DOMAIN log /\ asked \in DOMAIN log
         /\ EndedAt(asked, pick)[asked].end = pick
         /\ \A i \in DOMAIN log : i # asked => EndedAt(asked, pick)[i] = log[i]
         /\ \A i \in DOMAIN log : EndedAt(asked, pick)[i].start = log[i].start
         /\ Recorded(EndedAt(asked, pick), now) /\ InTurn(EndedAt(asked, pick))
         /\ Clear(EndedAt(asked, pick), pick + 1)
  <1>1. /\ now \in Nat /\ asked \in DOMAIN log /\ log[asked].start \in Nat /\ log[asked].end \in Nat
        /\ log[asked].start <= log[asked].end + 1
    BY StateOfLog
  <1>2. pick \in Nat /\ Epoch <= pick /\ pick <= now
    BY <1>1, Bounds
  <1>3. log[asked].start <= pick + 1
    <2>1. pick = log[asked].end \/ pick >= log[asked].start
      BY <1>1 DEF Picks
    <2>2. QED BY <1>1, <1>2, <2>1
  <1>. DEFINE qs == EndedAt(asked, pick)
  <1>4. /\ qs \in Seq(Row) /\ Len(qs) = Len(log) /\ DOMAIN qs = DOMAIN log
        /\ qs[asked].start = log[asked].start /\ qs[asked].end = pick
        /\ \A i \in DOMAIN log : i # asked => qs[i] = log[i]
        /\ \A i \in DOMAIN log : qs[i].start = log[i].start
        /\ Recorded(qs, now) /\ InTurn(qs) /\ Latest(qs, asked)
    <2>1. log[asked].start <= pick + 2 /\ pick <= now + 2
      BY <1>1, <1>2, <1>3
    <2>. HIDE DEF qs
    <2>2. QED BY <1>2, <2>1, EndedKeepsOrder DEF qs
  <1>. HIDE DEF qs
  <1>5. Clear(qs, pick + 1)
    <2>1. pick + 1 \in Nat /\ asked \in DOMAIN qs /\ pick <= (pick + 1) + 2
      BY <1>1, <1>2, <1>4
    <2>2. QED BY <1>3, <1>4, <2>1, LatestIsClear
  <1>6. QED BY <1>1, <1>2, <1>3, <1>4, <1>5 DEF qs

(* He picked when he had stopped.                                          *)
LEMMA ActionStopKeepsIInv ==
  ASSUME IInv, NEW pick \in Epoch .. now, ActionStop(pick)
  PROVE  IInv'
  <1>1. /\ asked > 0 /\ pick \in Picks /\ log' = EndedAt(asked, pick)
        /\ asked' = 0 /\ since' = now /\ now' = now /\ cur' = cur
    BY DEF ActionStop, Answered
  <1>2. now \in Nat /\ since \in Nat /\ since <= now /\ cur = 0 /\ Len(log) \in Nat
    BY <1>1, StateOfLog
  <1>3. log' \in Seq(Row) /\ Len(log') = Len(log) /\ Recorded(log', now) /\ InTurn(log')
    BY <1>1, PickEnds
  <1>4. TypeOK' /\ InTime' /\ Pointed'
    BY <1>1, <1>2, <1>3, Bounds DEF IInv, TypeOK, InTime, Pointed
  <1>5. QED BY <1>1, <1>3, <1>4 DEF IInv

(* He had not stopped: his record is counted on.                           *)
LEMMA ActionIgnoreKeepsIInv ==
  ASSUME IInv, ActionIgnore
  PROVE  IInv'
  <1>1. /\ asked > 0 /\ cur' = asked /\ log' = log
        /\ asked' = 0 /\ since' = now /\ now' = now
    BY DEF ActionIgnore, Answered
  <1>2. /\ now \in Nat /\ since \in Nat /\ since <= now /\ Latest(log, asked) /\ asked \in 0 .. Len(log)
        /\ \A i \in DOMAIN log : log[i].start \in Nat /\ log[i].end \in Nat
    BY <1>1, StateOfLog
  <1>3. Recorded(log', since')
    BY <1>1, <1>2 DEF IInv, Recorded
  <1>4. InTurn(log') /\ Len(log') <= MaxRows
    BY <1>1 DEF IInv
  <1>5. TypeOK' /\ InTime' /\ Pointed'
    BY <1>1, <1>2, Bounds DEF IInv, TypeOK, InTime, Pointed
  <1>6. QED BY <1>3, <1>4, <1>5 DEF IInv

(* He had gone on to something else, which begins when he stopped.         *)
LEMMA ActionSwitchKeepsIInv ==
  ASSUME IInv, NEW pick \in Epoch .. now, ActionSwitch(pick)
  PROVE  IInv'
  <1>1. /\ asked > 0 /\ pick \in Picks /\ Counts(EndedAt(asked, pick), pick + 1)
        /\ Len(log) + 1 <= MaxRows
        /\ asked' = 0 /\ since' = now /\ now' = now
    BY DEF ActionSwitch, Answered, Room
  <1>. DEFINE rows == EndedAt(asked, pick)
              start == pick + 1
  <1>2. /\ now \in Nat /\ since \in Nat /\ since <= now /\ pick \in Nat /\ pick <= now /\ Epoch <= pick
        /\ rows \in Seq(Row) /\ Len(rows) = Len(log) /\ Len(log) \in Nat
        /\ Recorded(rows, now) /\ InTurn(rows) /\ Clear(rows, start)
    BY <1>1, StateOfLog, PickEnds
  <1>3. start \in Nat /\ Epoch <= start /\ start <= now + 1 /\ now <= now
    BY <1>2, Bounds
  <1>4. Counts(rows, start)
    BY <1>1
  <1>. HIDE DEF rows, start
  <1>5. /\ log' \in Seq(Row) /\ Len(log') = Len(rows) + 1
        /\ Recorded(log', now) /\ InTurn(log')
        /\ cur' \in 0 .. Len(log') /\ (cur' > 0 => Latest(log', cur'))
    BY <1>2, <1>3, <1>4, CountsKeepsOrder
  <1>6. TypeOK' /\ InTime' /\ Pointed' /\ Len(log') <= MaxRows
    BY <1>1, <1>2, <1>5, Bounds DEF IInv, TypeOK, InTime, Pointed
  <1>7. QED BY <1>1, <1>5, <1>6 DEF IInv

(* The record he worked on in the meantime. *)
LEMMA OtherKeepsOrder ==
  ASSUME IInv, asked > 0, NEW pick \in Epoch .. now, pick \in Picks,
         NEW p, Place(EndedAt(asked, pick), p, pick + 1),
         NEW rows, rows = Insert(EndedAt(asked, pick), p, [start |-> pick + 1, end |-> now - 1])
  PROVE  /\ rows \in Seq(Row) /\ Len(rows) = Len(log) + 1
         /\ Recorded(rows, now) /\ InTurn(rows) /\ Clear(rows, now)
  <1>. DEFINE r == [start |-> pick + 1, end |-> now - 1]
              qs == EndedAt(asked, pick)
  <1>1. /\ now \in Nat /\ pick \in Nat /\ pick <= now /\ Epoch <= pick /\ Epoch > 0 /\ Epoch \in Nat
        /\ qs \in Seq(Row) /\ Len(qs) = Len(log) /\ Len(log) \in Nat
        /\ Recorded(qs, now) /\ InTurn(qs) /\ Clear(qs, pick + 1)
    BY StateOfLog, PickEnds, Bounds
  <1>2. /\ r \in Row /\ r.start = pick + 1 /\ r.end = now - 1
        /\ Epoch <= r.start /\ r.start <= now + 1 /\ r.end <= now + 2
        /\ r.start <= r.end + 2
    BY <1>1 DEF Row
  <1>3. Place(qs, p, r.start) /\ Clear(qs, r.start) /\ rows = Insert(qs, p, r)
    BY <1>1, <1>2
  <1>. HIDE DEF r, qs
  <1>4. rows \in Seq(Row) /\ Len(rows) = Len(qs) + 1 /\ Recorded(rows, now) /\ InTurn(rows)
    BY <1>1, <1>2, <1>3, InsertKeepsOrder
  <1>5. Clear(rows, now)
    BY <1>1, <1>4, PastIsClear
  <1>6. QED BY <1>1, <1>4, <1>5

(* He had gone on to something else and is back at his task.               *)
LEMMA ActionLogAndBackKeepsIInv ==
  ASSUME IInv, NEW pick \in Epoch .. now, ActionLogAndBack(pick)
  PROVE  IInv'
  <1>1. PICK p \in 1 .. (Len(log) + 1) :
          LET other == [start |-> pick + 1, end |-> now - 1]
              rows  == Insert(EndedAt(asked, pick), p, other)
          IN  /\ Place(EndedAt(asked, pick), p, pick + 1)
              /\ Counts(rows, now) \/ (log' = rows /\ cur' = 0)
    BY DEF ActionLogAndBack
  <1>. DEFINE rows == Insert(EndedAt(asked, pick), p, [start |-> pick + 1, end |-> now - 1])
  <1>2. /\ asked > 0 /\ pick \in Picks /\ Len(log) + 2 <= MaxRows
        /\ asked' = 0 /\ since' = now /\ now' = now
        /\ Place(EndedAt(asked, pick), p, pick + 1)
        /\ Counts(rows, now) \/ (log' = rows /\ cur' = 0)
    BY <1>1 DEF ActionLogAndBack, Answered, Room
  <1>3. /\ now \in Nat /\ since \in Nat /\ since <= now /\ Len(log) \in Nat /\ InTime
        /\ Epoch <= now /\ now <= now + 1
    BY StateOfLog, Bounds DEF IInv, InTime
  <1>4. /\ rows \in Seq(Row) /\ Len(rows) = Len(log) + 1
        /\ Recorded(rows, now) /\ InTurn(rows) /\ Clear(rows, now)
    BY <1>2, OtherKeepsOrder
  <1>. HIDE DEF rows
  <1>5. /\ log' \in Seq(Row) /\ Len(log') <= Len(log) + 2 /\ Len(log') \in Nat
        /\ Recorded(log', now) /\ InTurn(log')
        /\ cur' \in 0 .. Len(log') /\ (cur' > 0 => Latest(log', cur'))
    <2>1. CASE Counts(rows, now)
      <3>1. /\ log' \in Seq(Row) /\ Len(log') = Len(rows) + 1
            /\ Recorded(log', now) /\ InTurn(log')
            /\ cur' \in 0 .. Len(log') /\ (cur' > 0 => Latest(log', cur'))
        BY <1>3, <1>4, <2>1, CountsKeepsOrder
      <3>2. QED BY <1>3, <1>4, <3>1
    <2>2. CASE log' = rows /\ cur' = 0
      BY <1>3, <1>4, <2>2
    <2>3. QED BY <1>2, <2>1, <2>2
  <1>6. TypeOK' /\ InTime' /\ Pointed' /\ Len(log') <= MaxRows
    BY <1>2, <1>3, <1>5, Bounds DEF TypeOK, InTime, Pointed
  <1>7. QED BY <1>2, <1>5, <1>6 DEF IInv

(* The process ends while a record is counted, by itself or not: the time  *)
(* at which the record is ended is one at which it can be.                 *)
LEMMA LastEnd ==
  ASSUME IInv, Close \/ \E check \in Epoch .. now : recoverFromCrash(check)
  PROVE  \E e \in Nat : e <= now + 2 /\ log[cur].start <= e + 2 /\ log' = EndedAt(cur, e)
  <1>. DEFINE start == log[cur].start
  <1>1. now \in Nat /\ since \in Nat /\ since <= now /\ start \in Nat /\ start <= since + 1
    <2>1. cur > 0
      BY DEF Close, recoverFromCrash
    <2>2. QED BY <2>1, StateOfLog
  <1>. HIDE DEF start
  <1>2. CASE Close
    <2>1. log' = EndedAt(cur, now)
      BY <1>2 DEF Close
    <2>2. QED BY <1>1, <2>1 DEF start
  <1>3. ASSUME NEW check \in Epoch .. now, recoverFromCrash(check)
        PROVE  \E e \in Nat : e <= now + 2 /\ log[cur].start <= e + 2 /\ log' = EndedAt(cur, e)
    <2>1. check \in Nat /\ check <= now
      BY <1>1, Bounds
    <2>2. log' = EndedAt(cur, Larger(check, start + 1))
      BY <1>3 DEF recoverFromCrash, start
    <2>3. \/ check > start + 1 /\ Larger(check, start + 1) = check
          \/ ~(check > start + 1) /\ Larger(check, start + 1) = start + 1
      BY DEF Larger
    <2>. DEFINE e == Larger(check, start + 1)
    <2>. HIDE DEF e
    <2>4. e \in Nat /\ e <= now + 2 /\ start <= e + 2
      BY <1>1, <2>1, <2>3 DEF e
    <2>5. QED BY <2>2, <2>4 DEF e, start
  <1>4. QED BY <1>2, <1>3

(* The record ended then is in order, and none is counted.                 *)
LEMMA LastEndKeepsIInv ==
  ASSUME IInv, Close \/ \E check \in Epoch .. now : recoverFromCrash(check)
  PROVE  IInv'
  <1>1. cur > 0 /\ cur' = 0 /\ since' = now /\ now' = now /\ asked' = asked
    BY DEF Close, recoverFromCrash
  <1>2. /\ now \in Nat /\ since \in Nat /\ since <= now /\ Len(log) \in Nat
        /\ log[cur].start \in Nat /\ log[cur].start <= since + 1 /\ asked = 0
    BY <1>1, StateOfLog
  <1>3. PICK e \in Nat : e <= now + 2 /\ log[cur].start <= e + 2 /\ log' = EndedAt(cur, e)
    BY LastEnd
  <1>4. log' \in Seq(Row) /\ Len(log') = Len(log) /\ Recorded(log', now) /\ InTurn(log')
    BY <1>1, <1>3, EndedKeepsOrder
  <1>5. TypeOK' /\ InTime' /\ Pointed'
    BY <1>1, <1>2, <1>4, Bounds DEF IInv, TypeOK, InTime, Pointed
  <1>6. QED BY <1>1, <1>4, <1>5 DEF IInv

(* Time passes all records by.                                             *)
LEMMA TickKeepsIInv ==
  ASSUME IInv, Tick \/ UNCHANGED vars
  PROVE  IInv'
  <1>1. /\ log' = log /\ cur' = cur /\ asked' = asked /\ since' = since
        /\ now' = now \/ (now' = now + 1 /\ now < Epoch + MaxClock)
    BY DEF Tick, vars
  <1>2. now \in Nat /\ since \in Nat
    BY StateOfLog
  <1>3. TypeOK' /\ InTime'
    BY <1>1, <1>2, Bounds DEF IInv, TypeOK, InTime
  <1>4. Recorded(log', since') /\ InTurn(log') /\ Len(log') <= MaxRows /\ Pointed'
    BY <1>1 DEF IInv, Pointed
  <1>5. QED BY <1>3, <1>4 DEF IInv

(* What is in the log of the reports, whatever times the handlers store:   *)
(* the records stand in the order of their starts, none begins or ends     *)
(* more than two seconds ahead of the last change, and one overlaps the    *)
(* next by two seconds at most, unless that is an open record or one that  *)
(* was ended within a second; there is at most one that is counted or that *)
(* the dialog is about, and it can be ended at any time.                   *)
THEOREM Invariance == Spec => []IInv
  <1>1. Init => IInv
    BY InitIInv
  <1>2. IInv /\ [Next]_vars => IInv'
    <2>1. SUFFICES ASSUME IInv, [Next]_vars PROVE IInv'
      OBVIOUS
    <2>2. ASSUME NEW time \in since .. now, OnReturn(time) \/ OnIdle(time) PROVE IInv'
      BY <2>1, <2>2, OnReturnKeepsIInv, OnIdleKeepsIInv
    <2>3. ASSUME NEW pick \in Epoch .. now,
                 ActionStop(pick) \/ ActionSwitch(pick) \/ ActionLogAndBack(pick)
          PROVE  IInv'
      BY <2>1, <2>3, ActionStopKeepsIInv, ActionSwitchKeepsIInv, ActionLogAndBackKeepsIInv
    <2>4. CASE ActionIgnore
      BY <2>1, <2>4, ActionIgnoreKeepsIInv
    <2>5. CASE Close \/ \E check \in Epoch .. now : recoverFromCrash(check)
      BY <2>1, <2>5, LastEndKeepsIInv
    <2>6. CASE Tick \/ UNCHANGED vars
      BY <2>1, <2>6, TickKeepsIInv
    <2>7. QED BY <2>1, <2>2, <2>3, <2>4, <2>5, <2>6 DEF Next
  <1>3. QED BY <1>1, <1>2, PTL DEF Spec

(* The variables hold what they are declared to hold. *)
THEOREM TypeCorrect == Spec => []TypeOK
  <1>1. IInv => TypeOK
    BY DEF IInv
  <1>2. QED BY <1>1, Invariance, PTL

-----------------------------------------------------------------------------
(* The lines are those of the days and of the weeks. *)

Ordered(rows) == \A i, j \in DOMAIN rows : i <= j => rows[i].start <= rows[j].start

(* The days of an ordered log ascend, and the page of the day is turned at *)
(* each.                                                                   *)
LEMMA DaysAscend ==
  ASSUME NEW rows \in Seq(Row), Ordered(rows)
  PROVE  /\ DayOf(rows) \in [DOMAIN rows -> Nat]
         /\ Ascends(rows, DayOf(rows))
         /\ TurnsAreUnits(rows, DayOf(rows), "day")
  <1>1. \A i \in DOMAIN rows : rows[i].start \in Nat
    <2>1. \A i \in DOMAIN rows : i \in 1 .. Len(rows)
      BY LenProperties
    <2>2. QED BY <2>1, SharesAreInts
  <1>2. \A i \in DOMAIN rows : Day(rows[i].start) \in Nat
    BY <1>1, DatesOfDays
  <1>3. Ascends(rows, DayOf(rows))
    BY <1>1, DaysGrow DEF Ascends, DayOf, Ordered
  <1>4. TurnsAreUnits(rows, DayOf(rows), "day")
    BY <1>1, DateTellsDay DEF TurnsAreUnits, Turns, DayOf
  <1>5. QED BY <1>2, <1>3, <1>4 DEF DayOf

(* So do its weeks, unless a week or more is left out across the end of a  *)
(* month.                                                                  *)
LEMMA WeeksAscend ==
  ASSUME NEW rows \in Seq(Row), Ordered(rows),
         \A i \in DOMAIN rows : i + 1 \in DOMAIN rows =>
           \/ Day(rows[i + 1].start) - Day(rows[i].start) < DaysPerWeek
           \/ Day(rows[i].start) \div DaysPerMonth = Day(rows[i + 1].start) \div DaysPerMonth
  PROVE  /\ WeekOf(rows) \in [DOMAIN rows -> Nat]
         /\ Ascends(rows, WeekOf(rows))
         /\ TurnsAreUnits(rows, WeekOf(rows), "week")
  <1>1. \A i \in DOMAIN rows : i \in Nat /\ rows[i].start \in Nat
    <2>1. \A i \in DOMAIN rows : i \in 1 .. Len(rows)
      BY LenProperties
    <2>2. \A i \in DOMAIN rows : rows[i].start \in Nat
      BY <2>1, SharesAreInts
    <2>3. QED BY <2>1, <2>2
  <1>2. \A i \in DOMAIN rows : Day(rows[i].start) \in Nat
    BY <1>1, DatesOfDays
  <1>3. \A i \in DOMAIN rows : Day(rows[i].start) \div DaysPerWeek \in Nat
    <2>1. \A i \in DOMAIN rows : Day(rows[i].start) \in Int
      BY <1>2
    <2>2. QED BY <1>2, <2>1, Divided, CalendarUnits
  <1>4. Ascends(rows, WeekOf(rows))
    BY <1>1, DaysGrow DEF Ascends, WeekOf, Ordered
  <1>5. TurnsAreUnits(rows, WeekOf(rows), "week")
    <2>1. SUFFICES ASSUME NEW i \in DOMAIN rows, NEW j \in DOMAIN rows, j = i + 1
                   PROVE  Turns(localtime(rows[i].start), localtime(rows[j].start), "week")
                            <=> WeekOf(rows)[i] # WeekOf(rows)[j]
      BY DEF TurnsAreUnits
    <2>. DEFINE a == rows[i].start
                b == rows[j].start
    <2>2. /\ a \in Nat /\ b \in Nat /\ a <= b
          /\ \/ Day(b) - Day(a) < DaysPerWeek
             \/ Day(a) \div DaysPerMonth = Day(b) \div DaysPerMonth
      BY <1>1, <2>1 DEF Ordered
    <2>3. WeekOf(rows)[i] = Day(a) \div DaysPerWeek /\ WeekOf(rows)[j] = Day(b) \div DaysPerWeek
      BY DEF WeekOf
    <2>. HIDE DEF a, b
    <2>4. NextWeek(localtime(a), localtime(b)) <=> Day(a) \div DaysPerWeek # Day(b) \div DaysPerWeek
      BY <2>2, NextWeekIsExact
    <2>5. SameDate(localtime(a), localtime(b)) <=> Day(a) = Day(b)
      BY <2>2, DateTellsDay
    <2>6. Turns(localtime(a), localtime(b), "week") <=>
            ~SameDate(localtime(a), localtime(b)) /\ NextWeek(localtime(a), localtime(b))
      BY DEF Turns
    <2>7. Turns(localtime(a), localtime(b), "week") <=> WeekOf(rows)[i] # WeekOf(rows)[j]
      BY <2>3, <2>4, <2>5, <2>6
    <2>8. QED BY <2>7 DEF a, b
  <1>6. QED BY <1>3, <1>4, <1>5 DEF WeekOf

(* A date is of one unit only, so that exact lines are in order. *)
LEMMA ExactIsInOrder ==
  ASSUME NEW rows \in Seq(Row), NEW text, NEW kind, NEW unit \in [DOMAIN rows -> Nat],
         \A i, j \in DOMAIN rows : Day(rows[i].start) = Day(rows[j].start) => unit[i] = unit[j],
         Exact(text, kind, rows, unit, DOMAIN rows)
  PROVE  InOrder(text, kind, rows, unit)
  <1>1. SUFFICES ASSUME NEW k \in LinesOf(text, kind), NEW m \in LinesOf(text, kind),
                        NEW i \in DOMAIN rows, NEW j \in DOMAIN rows,
                        k < m, text[k].date = localtime(rows[i].start),
                        text[m].date = localtime(rows[j].start)
                 PROVE  unit[i] < unit[j]
    BY DEF InOrder
  <1>2. \A a \in DOMAIN rows : rows[a].start \in Nat
    <2>1. \A a \in DOMAIN rows : a \in 1 .. Len(rows)
      BY LenProperties
    <2>2. QED BY <2>1, SharesAreInts
  <1>3. PICK x \in DOMAIN rows, y \in DOMAIN rows :
          /\ unit[x] < unit[y]
          /\ Dated(text[k], rows, unit, unit[x])
          /\ Dated(text[m], rows, unit, unit[y])
    BY <1>1 DEF Exact
  <1>4. PICK a \in DOMAIN rows : unit[a] = unit[x] /\ text[k].date = localtime(rows[a].start)
    BY <1>3 DEF Dated, RowsOf
  <1>5. PICK b \in DOMAIN rows : unit[b] = unit[y] /\ text[m].date = localtime(rows[b].start)
    BY <1>3 DEF Dated, RowsOf
  <1>6. Day(rows[a].start) = Day(rows[i].start)
    <2>1. localtime(rows[a].start) = localtime(rows[i].start)
      BY <1>1, <1>4
    <2>2. rows[a].start \in Nat /\ rows[i].start \in Nat
      BY <1>2
    <2>3. QED BY <2>1, <2>2, DateTellsDay
  <1>7. Day(rows[b].start) = Day(rows[j].start)
    <2>1. localtime(rows[b].start) = localtime(rows[j].start)
      BY <1>1, <1>5
    <2>2. rows[b].start \in Nat /\ rows[j].start \in Nat
      BY <1>2
    <2>3. QED BY <2>1, <2>2, DateTellsDay
  <1>8. QED BY <1>3, <1>4, <1>5, <1>6, <1>7

-----------------------------------------------------------------------------
(* The sums fit an int. *)

Open(rows, I) == {i \in DOMAIN rows : i \in I /\ rows[i].end = 0}

(* No sum exceeds the time since the program was first used by more than   *)
(* the overlaps: two seconds for each record.                              *)
LEMMA SumsEnd ==
  ASSUME NEW rows \in Seq(Row), NEW time \in Nat, Epoch <= time,
         Recorded(rows, time), InTurn(rows), NEW I, NEW n \in 0 .. Len(rows)
  PROVE  /\ Parts(rows, I)[n] \in Int
         /\ Parts(rows, I)[n] <= (time + 2 - Epoch) + 2 * n
  <1>. DEFINE N == Len(rows)
              P == Parts(rows, I)
              Q == [m \in 0 .. N |-> (P[m] + Epoch) - 2 * m]
              T == {m \in 0 .. N : /\ Q[m] <= time + 2
                                   /\ \A j \in (m + 1) .. N : Short(rows[j]) \/ Q[m] <= rows[j].start}
  <1>1. /\ N \in Nat /\ DOMAIN rows = 1 .. N /\ Epoch \in Nat
        /\ \A i \in 1 .. N : rows[i].start \in Nat /\ rows[i].end \in Nat
    BY RowsAreRows, Bounds
  <1>2. /\ P \in [0 .. N -> Int] /\ P[0] = 0
        /\ \A m \in 1 .. N : P[m] = P[m - 1] + Share(rows, I, m)
    BY PartsAreSums
  <1>3. \A i \in 1 .. N : Epoch <= rows[i].start /\ rows[i].end <= time + 2
    BY <1>1 DEF Recorded
  <1>4. \A i, j \in 1 .. N : i < j => /\ rows[i].start <= rows[j].start
                                      /\ rows[i].end <= rows[j].start + 2 \/ Short(rows[j])
    BY <1>1 DEF InTurn
  <1>. HIDE DEF P, N
  <1>5. \A m \in 0 .. N : Q[m] \in Int /\ P[m] = (Q[m] - Epoch) + 2 * m
    BY <1>1, <1>2
  <1>6. Q[0] = Epoch
    BY <1>1, <1>2
  <1>7. ASSUME NEW m \in 0 .. N, NEW k \in 0 .. N, k = m + 1
        PROVE  Q[k] = Q[m] + Share(rows, I, k) - 2
    <2>. DEFINE share == Share(rows, I, k)
                p == P[m]
                q == P[k]
    <2>1. k \in 1 .. N /\ k - 1 = m /\ m \in Nat
      BY <1>1, <1>7
    <2>2. q = p + share /\ p \in Int /\ share \in Int
      BY <1>2, <2>1, SharesAreInts DEF N
    <2>3. Q[k] = (q + Epoch) - 2 * k /\ Q[m] = (p + Epoch) - 2 * m
      OBVIOUS
    <2>4. 2 * k = 2 * m + 2 /\ 2 * m \in Int
      BY <1>7, <2>1
    <2>. HIDE DEF Q, share, p, q
    <2>5. Q[k] = Q[m] + share - 2
      BY <1>1, <2>2, <2>3, <2>4
    <2>6. QED BY <2>5 DEF share
  <1>. HIDE DEF Q
  <1>8. 0 \in T
    <2>1. 0 \in 0 .. N /\ \A j \in (0 + 1) .. N : j \in 1 .. N
      BY <1>1
    <2>2. QED BY <1>1, <1>3, <1>6, <2>1
  <1>9. ASSUME NEW m \in 0 .. N, m < N, m \in T PROVE m + 1 \in T
    <2>. DEFINE k == m + 1
                a == rows[k].start
                b == rows[k].end
                part == Q[m]
                share == Share(rows, I, k)
    <2>1. k \in 1 .. N /\ k \in 0 .. N /\ k \in (m + 1) .. N
      BY <1>1, <1>9
    <2>2. part \in Int /\ Q[k] = part + share - 2
      BY <1>5, <1>7, <2>1
    <2>3. share = 0 \/ share = b - a
      BY DEF Share, Length
    <2>4. a \in Nat /\ b \in Nat /\ b <= time + 2
      BY <1>1, <1>3, <2>1
    <2>5. Short(rows[k]) \/ part <= a
      BY <1>9, <2>1
    <2>6. part <= time + 2 /\ \A j \in (k + 1) .. N : Short(rows[j]) \/ part <= rows[j].start
      <3>1. \A j \in (k + 1) .. N : j \in (m + 1) .. N
        BY <2>1
      <3>2. QED BY <1>9, <3>1
    <2>7. Short(rows[k]) => b - a <= 1
      BY <2>4 DEF Short
    <2>8. \A j \in (k + 1) .. N : j \in 1 .. N /\ (Short(rows[j]) \/ b <= rows[j].start + 2)
      <3>1. \A j \in (k + 1) .. N : j \in 1 .. N /\ k < j
        BY <1>1, <2>1
      <3>2. QED BY <1>4, <2>1, <3>1
    <2>9. \A j \in (k + 1) .. N : rows[j].start \in Nat
      BY <1>1, <2>8
    <2>. HIDE DEF k, a, b, part, share
    <2>10. \A x \in Int : part <= x /\ b <= x + 2 => Q[k] <= x
      BY <2>2, <2>3, <2>4, <2>5, <2>7
    <2>11. Q[k] <= time + 2
      BY <2>4, <2>6, <2>10
    <2>12. \A j \in (k + 1) .. N : Short(rows[j]) \/ Q[k] <= rows[j].start
      BY <2>6, <2>8, <2>9, <2>10
    <2>13. k \in T
      BY <2>1, <2>11, <2>12
    <2>14. QED BY <2>13 DEF k
  <1>10. \A m \in 0 .. N : m \in T
    <2>. HIDE DEF T
    <2>. QED BY <1>1, <1>8, <1>9, Induction
  <1>11. n \in 0 .. N /\ n \in T
    BY <1>10 DEF N
  <1>12. P[n] \in Int /\ P[n] = (Q[n] - Epoch) + 2 * n /\ Q[n] <= time + 2 /\ Q[n] \in Int
    BY <1>2, <1>5, <1>11
  <1>13. P[n] <= (time + 2 - Epoch) + 2 * n
    BY <1>1, <1>11, <1>12
  <1>14. QED BY <1>12, <1>13 DEF P

(* A sum with one record left open is no less than the time of day would   *)
(* be below zero, but for two seconds for each record that was ended       *)
(* before it began.                                                        *)
LEMMA SumsBegin ==
  ASSUME NEW rows \in Seq(Row), NEW time \in Nat, Recorded(rows, time),
         NEW I, NEW n \in 0 .. Len(rows), AtMostOne(Open(rows, I))
  PROVE  Parts(rows, I)[n] >= -(time + 1) - 2 * n
  <1>. DEFINE N == Len(rows)
              P == Parts(rows, I)
              T == {m \in 0 .. N : /\ P[m] >= -(time + 1) - 2 * m
                                   /\ (\A i \in 1 .. m : i \notin Open(rows, I)) => P[m] >= -(2 * m)}
  <1>1. /\ N \in Nat /\ DOMAIN rows = 1 .. N
        /\ \A i \in 1 .. N : rows[i].start \in Nat /\ rows[i].end \in Nat
    BY RowsAreRows
  <1>2. /\ P \in [0 .. N -> Int] /\ P[0] = 0
        /\ \A m \in 1 .. N : P[m] = P[m - 1] + Share(rows, I, m)
    BY PartsAreSums
  <1>. HIDE DEF P
  <1>3. 0 \in T
    BY <1>1, <1>2
  <1>4. ASSUME NEW m \in 0 .. N, m < N, m \in T PROVE m + 1 \in T
    <2>. DEFINE k == m + 1
                r == rows[k]
                share == Share(rows, I, k)
    <2>1. /\ k \in 1 .. N /\ k - 1 = m /\ k \in 0 .. N /\ k \in 1 .. k /\ m \in Nat
          /\ \A i \in 1 .. m : i \in 1 .. k /\ i # k
      BY <1>1, <1>4
    <2>2. P[m] \in Int /\ P[k] = P[m] + share
      BY <1>2, <1>4, <2>1
    <2>3. r.start \in Nat /\ r.end \in Nat /\ r.start <= time + 1 /\ (r.end = 0 \/ r.start <= r.end + 2)
      BY <1>1, <2>1 DEF Recorded
    <2>4. k \notin I => share = 0
      BY DEF Share
    <2>5. k \in I => share = r.end - r.start
      BY DEF Share, Length
    <2>6. k \in Open(rows, I) => k \in I /\ r.end = 0
      BY DEF Open
    <2>7. k \notin Open(rows, I) => k \notin I \/ r.end # 0
      BY <1>1, <2>1 DEF Open
    <2>8. k \in Open(rows, I) => \A i \in 1 .. m : i \notin Open(rows, I)
      BY <2>1 DEF AtMostOne
    <2>9. /\ P[m] >= -(time + 1) - 2 * m
          /\ (\A i \in 1 .. m : i \notin Open(rows, I)) => P[m] >= -(2 * m)
      BY <1>4
    <2>10. 2 * k = 2 * m + 2
      BY <2>1
    <2>. HIDE DEF k, r, share
    <2>11. CASE k \in Open(rows, I)
      <3>. DEFINE part == P[m]
                  start == r.start
                  twice == 2 * m
      <3>1. part >= -twice /\ share = 0 - start
        BY <2>5, <2>6, <2>8, <2>9, <2>11
      <3>2. P[k] = part + share /\ part \in Int /\ start \in Nat /\ start <= time + 1
        BY <2>2, <2>3
      <3>3. 2 * k = twice + 2 /\ twice \in Nat
        BY <2>1, <2>10
      <3>. HIDE DEF part, start, twice
      <3>4. P[k] >= -(time + 1) - 2 * k
        BY <3>1, <3>2, <3>3
      <3>5. QED BY <2>1, <2>11, <3>4 DEF k
    <2>12. CASE k \notin Open(rows, I)
      <3>1. share \in Int /\ share >= -2
        BY <2>3, <2>4, <2>5, <2>7, <2>12
      <3>2. P[k] >= -(time + 1) - 2 * k
        BY <2>1, <2>2, <2>9, <2>10, <3>1
      <3>3. (\A i \in 1 .. k : i \notin Open(rows, I)) => P[k] >= -(2 * k)
        BY <2>1, <2>2, <2>9, <2>10, <3>1
      <3>4. QED BY <2>1, <3>2, <3>3 DEF k
    <2>13. QED BY <2>11, <2>12
  <1>5. \A m \in 0 .. N : m \in T
    <2>. HIDE DEF T
    <2>. QED BY <1>1, <1>3, <1>4, Induction
  <1>6. n \in T
    BY <1>5
  <1>7. QED BY <1>6 DEF P

(* The clock stays in the half of an int's range that is not negative, and *)
(* so far from its end that the overlaps do not matter.                    *)
Before2038 == Epoch + MaxClock + 2 * (MaxRows + 1) < IntRange \div 2

(* Sums do not overflow upwards, nor downwards with at most one record     *)
(* left open.                                                              *)
LEMMA SumsFit ==
  ASSUME Before2038, NEW rows \in Seq(Row), Len(rows) <= MaxRows,
         NEW time \in Nat, Epoch <= time, time <= Epoch + MaxClock,
         Recorded(rows, time), InTurn(rows), NEW I
  PROVE  /\ Sum(rows, I) \in Int /\ Sum(rows, I) < HalfRange
         /\ Sum(rows, I) > 0 => Int32(Sum(rows, I)) = Sum(rows, I)
         /\ AtMostOne(Open(rows, I)) => Int32(Sum(rows, I)) = Sum(rows, I)
  <1>. DEFINE x == Sum(rows, I)
              N == Len(rows)
  <1>1. N \in 0 .. Len(rows) /\ N \in Nat
    BY RowsAreRows
  <1>2. x \in Int /\ x <= (time + 2 - Epoch) + 2 * N
    BY <1>1, SumsEnd DEF Sum
  <1>3. AtMostOne(Open(rows, I)) => x >= -(time + 1) - 2 * N
    BY <1>1, SumsBegin DEF Sum
  <1>4. /\ Epoch \in Nat /\ MaxClock \in Nat /\ MaxRows \in Nat /\ HalfRange \in Nat
        /\ Epoch + MaxClock + 2 * (MaxRows + 1) < HalfRange /\ N <= MaxRows
    BY Bounds, IntIsHalved DEF Before2038
  <1>. HIDE DEF x, N
  <1>5. 2 * (MaxRows + 1) = 2 * MaxRows + 2 /\ 2 * N <= 2 * MaxRows /\ 2 * MaxRows \in Nat /\ 2 * N \in Nat
    BY <1>1, <1>4
  <1>6. x < HalfRange
    BY <1>2, <1>4, <1>5
  <1>7. x > 0 => -HalfRange <= x
    BY <1>2, <1>4
  <1>8. AtMostOne(Open(rows, I)) => -HalfRange <= x
    BY <1>2, <1>3, <1>4, <1>5
  <1>9. -HalfRange <= x /\ x < HalfRange => Int32(x) = x
    BY <1>2, Int32Fits
  <1>10. QED BY <1>2, <1>6, <1>7, <1>8, <1>9 DEF x

(* What does not overflow upwards is no more than the int made of it.      *)
LEMMA Int32Grows ==
  ASSUME NEW x \in Int, x < HalfRange
  PROVE  Int32(x) \in Int /\ Int32(x) >= x
  <1>1. CASE -HalfRange <= x
    BY <1>1, Int32Fits
  <1>2. CASE ~(-HalfRange <= x)
    <2>1. (x + HalfRange) % IntRange \in 0 .. (IntRange - 1)
      BY IntIsHalved, Divided
    <2>2. Int32(x) = ((x + HalfRange) % IntRange) - HalfRange
      BY IntIsHalved DEF Int32
    <2>3. QED BY <1>2, <2>1, <2>2, IntIsHalved
  <1>3. QED BY <1>1, <1>2

-----------------------------------------------------------------------------
(* The lines of the log. *)

(* The query reads the log in the order of the starts.                     *)
LEMMA InTurnIsOrdered ==
  ASSUME NEW rows \in Seq(Row), InTurn(rows)
  PROVE  Ordered(rows)
  <1>1. SUFFICES ASSUME NEW i \in DOMAIN rows, NEW j \in DOMAIN rows, i <= j
                 PROVE  rows[i].start <= rows[j].start
    BY DEF Ordered
  <1>2. i \in Nat /\ j \in Nat /\ rows[i].start \in Nat
    BY RowsAreRows
  <1>3. CASE i = j
    BY <1>2, <1>3
  <1>4. CASE i < j
    BY <1>4 DEF InTurn
  <1>5. QED BY <1>1, <1>2, <1>3, <1>4

(* The sums of the log fit an int, as far as they can. *)
LEMMA LogFits ==
  ASSUME Before2038, IInv, NEW I
  PROVE  /\ Sum(log, I) > 0 => Int32(Sum(log, I)) = Sum(log, I)
         /\ AtMostOne(Open(log, I)) => Int32(Sum(log, I)) = Sum(log, I)
  <1>1. /\ log \in Seq(Row) /\ Len(log) <= MaxRows /\ since \in Nat
        /\ Recorded(log, since) /\ InTurn(log)
    BY StateOfLog DEF IInv
  <1>2. Epoch <= since /\ since <= Epoch + MaxClock
    BY StateOfLog, Bounds DEF IInv, InTime
  <1>3. QED BY <1>1, <1>2, SumsFit

(* A line that stands for what an int makes of a total stands for the      *)
(* total, when it fits.                                                    *)
LEMMA StandsShows ==
  ASSUME NEW line, NEW rows, NEW unit, NEW u, Worth(rows, unit, u) = Total(rows, unit, u)
  PROVE  Stands(line, rows, unit, u) <=> Shows(line, rows, unit, u)
BY DEF Stands, Shows

(* What exact lines show of the log. *)
LEMMA ExactShows ==
  ASSUME Before2038, IInv, NEW kind, NEW unit \in [DOMAIN log -> Nat], NEW text,
         \A i, j \in DOMAIN log : Day(log[i].start) = Day(log[j].start) => unit[i] = unit[j],
         Exact(text, kind, log, unit, DOMAIN log)
  PROVE  /\ \A i \in DOMAIN log : Total(log, unit, unit[i]) > 0 =>
              \E k \in LinesOf(text, kind) : Shows(text[k], log, unit, unit[i])
         /\ (\A i \in DOMAIN log : AtMostOne(Open(log, RowsOf(unit, unit[i])))) =>
              \A k \in LinesOf(text, kind) :
                \E i \in DOMAIN log : /\ Total(log, unit, unit[i]) > 0
                                      /\ Shows(text[k], log, unit, unit[i])
         /\ InOrder(text, kind, log, unit)
  <1>1. log \in Seq(Row)
    BY StateOfLog
  <1>2. InOrder(text, kind, log, unit)
    BY <1>1, ExactIsInOrder
  <1>3. ASSUME NEW i \in DOMAIN log, Total(log, unit, unit[i]) > 0
        PROVE  \E k \in LinesOf(text, kind) : Shows(text[k], log, unit, unit[i])
    <2>1. Worth(log, unit, unit[i]) = Total(log, unit, unit[i])
      BY <1>3, LogFits DEF Worth, Total
    <2>2. Worth(log, unit, unit[i]) > 0
      BY <1>3, <2>1
    <2>3. PICK k \in LinesOf(text, kind) : Stands(text[k], log, unit, unit[i])
      BY <2>2 DEF Exact
    <2>4. QED BY <2>1, <2>3, StandsShows
  <1>4. ASSUME \A i \in DOMAIN log : AtMostOne(Open(log, RowsOf(unit, unit[i]))),
               NEW k \in LinesOf(text, kind)
        PROVE  \E i \in DOMAIN log : /\ Total(log, unit, unit[i]) > 0
                                     /\ Shows(text[k], log, unit, unit[i])
    <2>1. PICK i \in DOMAIN log :
            Worth(log, unit, unit[i]) > 0 /\ Stands(text[k], log, unit, unit[i])
      BY DEF Exact
    <2>2. Worth(log, unit, unit[i]) = Total(log, unit, unit[i])
      BY <1>4, LogFits DEF Worth, Total
    <2>3. Total(log, unit, unit[i]) > 0
      BY <2>1, <2>2
    <2>4. QED BY <2>1, <2>2, <2>3, StandsShows
  <1>5. QED BY <1>2, <1>3, <1>4

(* A day with work has one line of the log that showLog prints, with the   *)
(* sum of its records, whatever was left open on other days; with at most  *)
(* one record left open on each day there is no other line.                *)
THEOREM DaysAreExact ==
  ASSUME Before2038
  PROVE  Spec => []DayLinesAreExact
  <1>1. IInv => DayLinesAreExact
    <2>1. SUFFICES ASSUME IInv, cur = 0
                   PROVE  LET text == showLog(log)
                              unit == DayOf(log)
                              Works(i) == Total(log, unit, unit[i]) > 0
                          IN  /\ \A i \in DOMAIN log : Works(i) =>
                                   \E k \in LinesOf(text, "day") : Shows(text[k], log, unit, unit[i])
                              /\ (\A i \in DOMAIN log : AtMostOne(RowsOf(unit, unit[i]) \cap Orphans)) =>
                                   \A k \in LinesOf(text, "day") :
                                     \E i \in DOMAIN log :
                                       Works(i) /\ Shows(text[k], log, unit, unit[i])
                              /\ InOrder(text, "day", log, unit)
      BY DEF DayLinesAreExact
    <2>. DEFINE text == showLog(log)
                unit == DayOf(log)
                kind == "day"
    <2>2. kind \in Kinds /\ log \in Seq(Row) /\ Ordered(log)
      BY <2>1, StateOfLog, InTurnIsOrdered DEF IInv, Kinds
    <2>3. unit \in [DOMAIN log -> Nat] /\ Ascends(log, unit) /\ TurnsAreUnits(log, unit, kind)
      BY <2>2, DaysAscend
    <2>4. \A i, j \in DOMAIN log : Day(log[i].start) = Day(log[j].start) => unit[i] = unit[j]
      BY DEF DayOf
    <2>. HIDE DEF unit, kind
    <2>5. Exact(text, kind, log, unit, DOMAIN log)
      BY <2>2, <2>3, LinesAreExact
    <2>6. \A i \in DOMAIN log : Open(log, RowsOf(unit, unit[i])) = RowsOf(unit, unit[i]) \cap Orphans
      <3>1. \A i \in DOMAIN log : i # cur
        BY <2>1, StateOfLog
      <3>2. QED BY <3>1 DEF Open, Orphans
    <2>. HIDE DEF text
    <2>7. /\ \A i \in DOMAIN log : Total(log, unit, unit[i]) > 0 =>
               \E k \in LinesOf(text, kind) : Shows(text[k], log, unit, unit[i])
          /\ (\A i \in DOMAIN log : AtMostOne(Open(log, RowsOf(unit, unit[i])))) =>
               \A k \in LinesOf(text, kind) :
                 \E i \in DOMAIN log : /\ Total(log, unit, unit[i]) > 0
                                       /\ Shows(text[k], log, unit, unit[i])
          /\ InOrder(text, kind, log, unit)
      BY <2>1, <2>3, <2>4, <2>5, ExactShows
    <2>8. (\A i \in DOMAIN log : AtMostOne(RowsOf(unit, unit[i]) \cap Orphans))
            => \A i \in DOMAIN log : AtMostOne(Open(log, RowsOf(unit, unit[i])))
      BY <2>6
    <2>9. /\ \A i \in DOMAIN log : Total(log, unit, unit[i]) > 0 =>
               \E k \in LinesOf(text, kind) : Shows(text[k], log, unit, unit[i])
          /\ (\A i \in DOMAIN log : AtMostOne(RowsOf(unit, unit[i]) \cap Orphans)) =>
               \A k \in LinesOf(text, kind) :
                 \E i \in DOMAIN log : /\ Total(log, unit, unit[i]) > 0
                                       /\ Shows(text[k], log, unit, unit[i])
          /\ InOrder(text, kind, log, unit)
      BY <2>7, <2>8
    <2>10. QED BY <2>9 DEF text, unit, kind
  <1>2. QED BY <1>1, Invariance, PTL

(* With no record left open, and no week or more without one across the    *)
(* end of a month, the week lines are the sums of the calendar weeks.      *)
THEOREM WeeksAreExact ==
  ASSUME Before2038
  PROVE  Spec => []WeekLinesAreExact
  <1>1. IInv => WeekLinesAreExact
    <2>1. SUFFICES ASSUME IInv, cur = 0, Orphans = {},
                          \A i \in DOMAIN log : i + 1 \in DOMAIN log => ~AcrossMonths(i)
                   PROVE  LET text == showLog(log)
                              unit == WeekOf(log)
                              Works(i) == Total(log, unit, unit[i]) > 0
                          IN  /\ \A i \in DOMAIN log : Works(i) =>
                                   \E k \in LinesOf(text, "week") : Shows(text[k], log, unit, unit[i])
                              /\ \A k \in LinesOf(text, "week") :
                                   \E i \in DOMAIN log :
                                     Works(i) /\ Shows(text[k], log, unit, unit[i])
                              /\ InOrder(text, "week", log, unit)
      BY DEF WeekLinesAreExact
    <2>. DEFINE text == showLog(log)
                unit == WeekOf(log)
                kind == "week"
    <2>2. kind \in Kinds /\ log \in Seq(Row) /\ Ordered(log)
      BY <2>1, StateOfLog, InTurnIsOrdered DEF IInv, Kinds
    <2>3. \A i \in DOMAIN log : i + 1 \in DOMAIN log =>
            \/ Day(log[i + 1].start) - Day(log[i].start) < DaysPerWeek
            \/ Day(log[i].start) \div DaysPerMonth = Day(log[i + 1].start) \div DaysPerMonth
      <3>1. \A i \in DOMAIN log : Day(log[i].start) \in Nat
        BY <2>1, StateOfLog, DatesOfDays
      <3>2. QED BY <2>1, <3>1, CalendarUnits DEF AcrossMonths
    <2>4. unit \in [DOMAIN log -> Nat] /\ Ascends(log, unit) /\ TurnsAreUnits(log, unit, kind)
      BY <2>2, <2>3, WeeksAscend
    <2>5. \A i, j \in DOMAIN log : Day(log[i].start) = Day(log[j].start) => unit[i] = unit[j]
      BY DEF WeekOf
    <2>. HIDE DEF unit, kind
    <2>6. Exact(text, kind, log, unit, DOMAIN log)
      BY <2>2, <2>4, LinesAreExact
    <2>7. \A i \in DOMAIN log : AtMostOne(Open(log, RowsOf(unit, unit[i])))
      <3>1. \A i \in DOMAIN log : i # cur
        BY <2>1, StateOfLog
      <3>2. QED BY <2>1, <3>1 DEF Open, Orphans, AtMostOne
    <2>. HIDE DEF text
    <2>8. /\ \A i \in DOMAIN log : Total(log, unit, unit[i]) > 0 =>
               \E k \in LinesOf(text, kind) : Shows(text[k], log, unit, unit[i])
          /\ (\A i \in DOMAIN log : AtMostOne(Open(log, RowsOf(unit, unit[i])))) =>
               \A k \in LinesOf(text, kind) :
                 \E i \in DOMAIN log : /\ Total(log, unit, unit[i]) > 0
                                       /\ Shows(text[k], log, unit, unit[i])
          /\ InOrder(text, kind, log, unit)
      BY <2>1, <2>4, <2>5, <2>6, ExactShows
    <2>9. QED BY <2>7, <2>8 DEF text, unit, kind
  <1>2. QED BY <1>1, Invariance, PTL

(* The records that calcTodayWork adds up are those of today that are not  *)
(* being counted: its end of the day, a thousand days off, is never        *)

-----------------------------------------------------------------------------
(* The two reports. *)

(* The records that calcTodayWork adds up, the one being counted among     *)
(* them whenever it began.                                                 *)
Worked == {i \in DOMAIN log : i = cur \/ log[i].start >= Midnight(now)}

(* The log with the record that is counted ended now is as good as before. *)
ClosedIsInOrder ==
  /\ LogIfClosed \in Seq(Row) /\ Len(LogIfClosed) = Len(log) /\ DOMAIN LogIfClosed = DOMAIN log
  /\ \A i \in DOMAIN log : LogIfClosed[i].start = log[i].start /\ LogIfClosed[i].end = Until(i)
  /\ Recorded(LogIfClosed, now) /\ InTurn(LogIfClosed)

(* It is in order too. *)
LEMMA ClosedLog == IInv => ClosedIsInOrder
  <1>1. SUFFICES ASSUME IInv PROVE ClosedIsInOrder
    OBVIOUS
  <1>2. /\ log \in Seq(Row) /\ now \in Nat /\ since \in Nat /\ since <= now /\ cur \in Nat
        /\ \A i \in DOMAIN log : log[i].start \in Nat /\ log[i].end \in Nat
        /\ Recorded(log, since) /\ InTurn(log)
    BY <1>1, StateOfLog DEF IInv
  <1>3. CASE cur = 0
    <2>1. LogIfClosed = log
      BY <1>3 DEF LogIfClosed
    <2>2. Recorded(log, now)
      BY <1>2 DEF Recorded
    <2>3. \A i \in DOMAIN log : i # cur
      BY <1>1, <1>3, StateOfLog
    <2>4. QED BY <1>2, <2>1, <2>2, <2>3 DEF ClosedIsInOrder, Until
  <1>4. CASE cur > 0
    <2>1. LogIfClosed = EndedAt(cur, now)
      BY <1>4 DEF LogIfClosed
    <2>2. now <= now + 2 /\ log[cur].start <= now + 2
      BY <1>1, <1>2, <1>4, StateOfLog
    <2>3. /\ EndedAt(cur, now) \in Seq(Row) /\ Len(EndedAt(cur, now)) = Len(log)
          /\ DOMAIN EndedAt(cur, now) = DOMAIN log /\ cur \in DOMAIN log
          /\ EndedAt(cur, now)[cur].end = now
          /\ \A i \in DOMAIN log : i # cur => EndedAt(cur, now)[i] = log[i]
          /\ \A i \in DOMAIN log : EndedAt(cur, now)[i].start = log[i].start
          /\ Recorded(EndedAt(cur, now), now) /\ InTurn(EndedAt(cur, now))
      BY <1>1, <1>2, <1>4, <2>2, EndedKeepsOrder
    <2>4. QED BY <2>1, <2>3 DEF ClosedIsInOrder, Until
  <1>5. QED BY <1>2, <1>3, <1>4

(* The records that the query adds up: its end of the day, a thousand days *)
(* off, is never reached.                                                  *)
LEMMA TodayIsToday ==
  ASSUME IInv
  PROVE  TodayRows = {i \in DOMAIN log : log[i].start >= Midnight(now) /\ i # cur}
  <1>1. /\ now \in Nat /\ since \in Nat /\ since <= now /\ Midnight(now) \in Nat
        /\ now < Midnight(now) + SecsPerDay
    <2>1. now \in Nat /\ since \in Nat /\ since <= now
      BY StateOfLog
    <2>2. Day(now) <= Day(now)
      BY <2>1, DatesOfDays
    <2>3. QED BY <2>1, <2>2, TodayBegins
  <1>2. SecsPerDay + 2 <= SecsPerDay * 1000 /\ SecsPerDay \in Nat
    BY CalendarUnits
  <1>3. \A i \in DOMAIN log : log[i].end < Midnight(now) + SecsPerDay * 1000
    <2>1. SUFFICES ASSUME NEW i \in DOMAIN log
                   PROVE  log[i].end < Midnight(now) + SecsPerDay * 1000
      OBVIOUS
    <2>2. log[i].end \in Nat /\ log[i].end <= since + 2
      BY StateOfLog DEF IInv, Recorded
    <2>3. QED BY <1>1, <1>2, <2>2
  <1>4. QED BY <1>3 DEF TodayRows

(* What the query adds up, and what the record that is counted adds to it. *)
Since(rows, t) == {i \in DOMAIN rows : rows[i].start >= t}

Today == Since(log, Midnight(now))
Extra ==
  IF cur = 0 THEN 0
  ELSE (now - log[cur].start)
         - (IF log[cur].start >= Midnight(now) THEN log[cur].end - log[cur].start ELSE 0)

(* calcTodayWork is what an int makes of the sum of the log with the       *)
(* record that is counted ended now.                                       *)
CalcIsSum ==
  /\ Sum(LogIfClosed, Worked) \in Int /\ Sum(log, Today) \in Int
  /\ Sum(LogIfClosed, Worked) = Sum(log, Today) + Extra
  /\ calcTodayWork = Int32(Sum(LogIfClosed, Worked))

(* The query leaves out the record that is counted, and calcTodayWork adds *)
(* the time since it began.                                                *)
LEMMA CalcTodayWork == IInv => CalcIsSum
  <1>1. SUFFICES ASSUME IInv PROVE CalcIsSum
    OBVIOUS
  <1>. DEFINE N == Len(log)
              C == LogIfClosed
              x == Sum(C, Worked)
              y == Sum(log, Today)
  <1>2. /\ log \in Seq(Row) /\ N \in Nat /\ DOMAIN log = 1 .. N /\ now \in Nat /\ cur \in Nat
        /\ \A i \in DOMAIN log : log[i].start \in Nat /\ log[i].end \in Nat
        /\ (cur > 0 => cur \in DOMAIN log)
    BY <1>1, StateOfLog
  <1>3. /\ C \in Seq(Row) /\ Len(C) = N
        /\ \A i \in DOMAIN log : C[i].start = log[i].start /\ C[i].end = Until(i)
    BY <1>1, ClosedLog DEF ClosedIsInOrder
  <1>4. x \in Int /\ y \in Int
    <2>1. Len(C) \in 0 .. Len(C) /\ Len(log) \in 0 .. Len(log)
      BY <1>2, <1>3
    <2>. HIDE DEF C, N
    <2>2. QED BY <1>2, <1>3, <2>1, PartsAreSums DEF Sum
  <1>. HIDE DEF C
  <1>5. CASE cur = 0
    <2>1. C = log /\ \A i \in DOMAIN log : i # cur
      BY <1>2, <1>5 DEF C, LogIfClosed
    <2>2. Worked = Today /\ TodayRows = Today
      BY <1>1, <2>1, TodayIsToday DEF Worked, Today, Since
    <2>3. Extra = 0
      BY <1>5 DEF Extra
    <2>4. calcTodayWork = Int32(Sum(log, TodayRows))
      BY <1>5 DEF calcTodayWork
    <2>5. QED BY <1>4, <2>1, <2>2, <2>3, <2>4 DEF CalcIsSum, C
  <1>6. CASE cur > 0
    <2>. DEFINE d == now - log[cur].start
    <2>1. cur \in 1 .. N /\ cur \in DOMAIN log /\ log[cur].start \in Nat /\ log[cur].end \in Nat
      BY <1>2, <1>6
    <2>2. Share(C, Worked, cur) = d
      BY <1>3, <2>1 DEF Share, Length, Worked, Until
    <2>3. \A i \in 1 .. N : i # cur =>
            /\ Share(C, Worked, i) = Share(log, Today, i)
            /\ Share(log, TodayRows, i) = Share(log, Today, i)
      <3>1. SUFFICES ASSUME NEW i \in 1 .. N, i # cur
                     PROVE  /\ Share(C, Worked, i) = Share(log, Today, i)
                            /\ Share(log, TodayRows, i) = Share(log, Today, i)
        OBVIOUS
      <3>2. /\ C[i].start = log[i].start /\ C[i].end = log[i].end
            /\ (i \in Worked <=> i \in Today) /\ (i \in TodayRows <=> i \in Today)
        BY <1>1, <1>2, <1>3, <3>1, TodayIsToday DEF Worked, Today, Since, Until
      <3>3. QED BY <3>2 DEF Share, Length
    <2>4. /\ Share(log, TodayRows, cur) = 0
          /\ Share(log, Today, cur) =
               IF log[cur].start >= Midnight(now) THEN log[cur].end - log[cur].start ELSE 0
      BY <1>1, <2>1, TodayIsToday DEF Share, Length, Today, Since
    <2>5. Extra = d - Share(log, Today, cur)
      BY <1>6, <2>4 DEF Extra
    <2>. HIDE DEF d
    <2>6. x = y + (Share(C, Worked, cur) - Share(log, Today, cur))
      <3>1. C \in Seq(Row) /\ log \in Seq(Row) /\ Len(C) = Len(log) /\ cur \in 1 .. Len(log)
        BY <1>2, <1>3, <2>1
      <3>2. \A i \in 1 .. Len(log) : i # cur => Share(C, Worked, i) = Share(log, Today, i)
        BY <2>3
      <3>. HIDE DEF N
      <3>3. QED BY <3>1, <3>2, SumsDifferOnce
    <2>7. /\ Sum(log, TodayRows) = y + (Share(log, TodayRows, cur) - Share(log, Today, cur))
          /\ Share(log, Today, cur) \in Int
      <3>. HIDE DEF N
      <3>1. QED BY <1>2, <2>1, <2>3, SumsDifferOnce DEF N
    <2>8. d \in Int
      BY <1>2, <2>1 DEF d
    <2>. DEFINE z == Sum(log, TodayRows)
    <2>9. calcTodayWork = Int32(Int32(z) + d)
      BY <1>6 DEF calcTodayWork, d
    <2>. HIDE DEF x, y, z
    <2>10. z \in Int /\ x = z + d /\ x = y + Extra
      BY <1>4, <2>2, <2>4, <2>5, <2>6, <2>7, <2>8 DEF z
    <2>11. Int32(Int32(z) + d) = Int32(z + d)
      BY <2>8, <2>10, Int32Wraps
    <2>12. QED BY <1>4, <2>9, <2>10, <2>11 DEF CalcIsSum, C, x, y
  <1>7. QED BY <1>2, <1>5, <1>6

(* What the window says of today is what the log, with the record that is  *)
(* being counted ended now, holds of today.                                *)
LEMMA BalloonIsSum ==
  ASSUME IInv, cur = 0 \/ log[cur].start >= Midnight(now),
         \A i \in DOMAIN log : Day(log[i].start) <= Day(now)
  PROVE  /\ LogIfClosed \in Seq(Row) /\ Ordered(LogIfClosed)
         /\ calcTodayWork = Worth(LogIfClosed, DayOf(LogIfClosed), Day(now))
  <1>1. /\ LogIfClosed \in Seq(Row) /\ InTurn(LogIfClosed) /\ DOMAIN LogIfClosed = DOMAIN log
        /\ \A i \in DOMAIN log : LogIfClosed[i].start = log[i].start
    BY ClosedLog DEF ClosedIsInOrder
  <1>2. \A i \in DOMAIN log : log[i].start >= Midnight(now) <=> Day(log[i].start) = Day(now)
    BY StateOfLog, TodayBegins
  <1>3. RowsOf(DayOf(LogIfClosed), Day(now)) = Worked
    <2>1. \A i \in DOMAIN log : i = cur => log[i].start >= Midnight(now)
      BY StateOfLog
    <2>2. QED BY <1>1, <1>2, <2>1 DEF RowsOf, DayOf, Worked
  <1>4. calcTodayWork = Int32(Sum(LogIfClosed, Worked))
    BY CalcTodayWork DEF CalcIsSum
  <1>5. QED BY <1>1, <1>3, <1>4, InTurnIsOrdered DEF Worth, Total

(* An int of nothing is nothing. *)
LEMMA NoRowsNoWork ==
  ASSUME NEW rows \in Seq(Row), NEW I, \A i \in DOMAIN rows : i \notin I
  PROVE  ~(Int32(Sum(rows, I)) > 0)
  <1>. DEFINE nil == 0
              N == Len(rows)
  <1>1. N \in 0 .. Len(rows) /\ \A i \in 1 .. N : i \notin I
    BY LenProperties
  <1>2. Parts(rows, I)[N] = nil
    <2>. HIDE DEF N
    <2>. QED BY <1>1, PartsStand
  <1>3. nil \in Int /\ -HalfRange <= nil /\ nil < HalfRange
    BY IntIsHalved
  <1>4. ~(nil > 0)
    OBVIOUS
  <1>. HIDE DEF nil
  <1>5. Int32(nil) = nil
    BY <1>3, Int32Fits
  <1>6. QED BY <1>2, <1>4, <1>5 DEF Sum

(* The two reports agree: what the window says was worked today is the     *)
(* line that showLog would print for today if the record were ended now,   *)
(* and there is no such line when it says nothing was; ints that overflow  *)
(* overflow alike.                                                         *)
THEOREM ReportsAgree == Spec => []BalloonForetellsLog
  <1>1. IInv => BalloonForetellsLog
    <2>. DEFINE rows == LogIfClosed
                unit == DayOf(rows)
                text == showLog(rows)
                today == {k \in LinesOf(text, "day") : text[k].date = localtime(now)}
                work == Worth(rows, unit, Day(now))
    <2>1. SUFFICES ASSUME IInv, cur = 0 \/ log[cur].start >= Midnight(now),
                          \A i \in DOMAIN log : Day(log[i].start) <= Day(now)
                   PROVE  IF calcTodayWork > 0
                            THEN \E k \in today : text[k].total = calcTodayWork
                            ELSE today = {}
      BY DEF BalloonForetellsLog
    <2>2. rows \in Seq(Row) /\ Ordered(rows) /\ calcTodayWork = work
      BY <2>1, BalloonIsSum
    <2>3. \A i \in DOMAIN rows : rows[i].start \in Nat
      <3>1. \A i \in DOMAIN rows : i \in 1 .. Len(rows)
        BY <2>2, LenProperties
      <3>2. QED BY <2>2, <3>1, SharesAreInts
    <2>4. now \in Nat
      BY <2>1, StateOfLog
    <2>5. \A i \in DOMAIN rows : unit[i] = Day(rows[i].start)
      BY DEF DayOf
    <2>. HIDE DEF rows, text
    <2>6. /\ unit \in [DOMAIN rows -> Nat] /\ Exact(showLog(rows), "day", rows, unit, DOMAIN rows)
      <3>. DEFINE kind == "day"
      <3>1. kind \in Kinds
        BY DEF Kinds
      <3>2. unit \in [DOMAIN rows -> Nat] /\ Ascends(rows, unit) /\ TurnsAreUnits(rows, unit, kind)
        BY <2>2, DaysAscend
      <3>. HIDE DEF unit, kind
      <3>3. Exact(showLog(rows), kind, rows, unit, DOMAIN rows)
        BY <2>2, <3>1, <3>2, LinesAreExact
      <3>4. QED BY <3>2, <3>3 DEF kind
    <2>7. Exact(text, "day", rows, unit, DOMAIN rows)
      BY <2>6 DEF text
    <2>. HIDE DEF unit
    <2>8. ASSUME NEW line, NEW i \in DOMAIN rows, Dated(line, rows, unit, unit[i])
          PROVE  line.date = localtime(now) <=> unit[i] = Day(now)
      <3>1. PICK j \in DOMAIN rows : unit[j] = unit[i] /\ line.date = localtime(rows[j].start)
        BY <2>6, <2>8 DEF Dated, RowsOf
      <3>2. line.date = localtime(now) <=> Day(rows[j].start) = Day(now)
        BY <2>3, <2>4, <3>1, DateTellsDay
      <3>3. QED BY <2>5, <3>1, <3>2
    <2>9. CASE work > 0
      <3>1. PICK i \in DOMAIN rows : i \in RowsOf(unit, Day(now))
        BY <2>2, <2>9, NoRowsNoWork DEF Worth, Total
      <3>2. unit[i] = Day(now)
        BY <3>1 DEF RowsOf
      <3>3. PICK k \in LinesOf(text, "day") : Stands(text[k], rows, unit, unit[i])
        BY <2>7, <2>9, <3>2 DEF Exact
      <3>4. text[k].total = work /\ text[k].date = localtime(now)
        BY <2>8, <3>2, <3>3 DEF Stands
      <3>5. QED BY <2>2, <2>9, <3>4
    <2>10. CASE ~(work > 0)
      <3>1. SUFFICES ASSUME NEW k \in LinesOf(text, "day"), text[k].date = localtime(now)
                     PROVE  FALSE
        BY <2>2, <2>10
      <3>2. PICK i \in DOMAIN rows : /\ Worth(rows, unit, unit[i]) > 0
                                     /\ Stands(text[k], rows, unit, unit[i])
        BY <2>7, <3>1 DEF Exact
      <3>3. unit[i] = Day(now)
        BY <2>8, <3>1, <3>2 DEF Stands
      <3>4. QED BY <2>10, <3>2, <3>3
    <2>11. QED BY <2>9, <2>10
  <1>2. QED BY <1>1, Invariance, PTL

-----------------------------------------------------------------------------
(* The time worked today falls only by what a record loses. *)

(* What the query adds up changes by what the end of a record does. *)
LEMMA SumEnded ==
  ASSUME NEW rows \in Seq(Row), NEW t, NEW c \in DOMAIN rows, NEW e \in Nat,
         NEW qs, IsEnded(qs, rows, c, e)
  PROVE  /\ Sum(rows, Since(rows, t)) \in Int /\ Sum(qs, Since(qs, t)) \in Int
         /\ Sum(qs, Since(qs, t)) =
              Sum(rows, Since(rows, t)) + (IF rows[c].start >= t THEN e - rows[c].end ELSE 0)
  <1>. DEFINE I == Since(rows, t)
              J == Since(qs, t)
              a == rows[c].start
              b == rows[c].end
  <1>1. /\ Len(rows) \in Nat /\ DOMAIN rows = 1 .. Len(rows) /\ c \in 1 .. Len(rows)
        /\ a \in Nat /\ b \in Nat
    BY RowsAreRows
  <1>2. /\ qs \in Seq(Row) /\ Len(qs) = Len(rows) /\ DOMAIN qs = DOMAIN rows
        /\ qs[c].start = rows[c].start /\ qs[c].end = e
        /\ \A i \in DOMAIN rows : i # c => qs[i] = rows[i]
    BY Ended
  <1>3. \A i \in 1 .. Len(rows) : i # c => Share(qs, J, i) = Share(rows, I, i)
    <2>1. SUFFICES ASSUME NEW i \in 1 .. Len(rows), i # c
                   PROVE  Share(qs, J, i) = Share(rows, I, i)
      OBVIOUS
    <2>2. qs[i] = rows[i] /\ (i \in J <=> i \in I)
      BY <1>1, <1>2, <2>1 DEF Since
    <2>3. QED BY <2>2 DEF Share
  <1>4. /\ Share(qs, J, c) = IF a >= t THEN e - a ELSE 0
        /\ Share(rows, I, c) = IF a >= t THEN b - a ELSE 0
    BY <1>1, <1>2 DEF Share, Length, Since
  <1>. HIDE DEF I, J, a, b
  <1>5. /\ Sum(rows, I) \in Int /\ Share(qs, J, c) \in Int /\ Share(rows, I, c) \in Int
        /\ Sum(qs, J) = Sum(rows, I) + (Share(qs, J, c) - Share(rows, I, c))
    BY <1>1, <1>2, <1>3, SumsDifferOnce
  <1>6. Sum(qs, J) = Sum(rows, I) + (IF a >= t THEN e - b ELSE 0)
    <2>1. CASE a >= t
      <3>1. Share(qs, J, c) - Share(rows, I, c) = e - b
        BY <1>1, <1>4, <2>1
      <3>2. QED BY <1>5, <2>1, <3>1
    <2>2. CASE ~(a >= t)
      <3>1. Share(qs, J, c) - Share(rows, I, c) = 0
        BY <1>4, <2>2
      <3>2. QED BY <1>5, <2>2, <3>1
    <2>3. QED BY <2>1, <2>2
  <1>7. Sum(qs, J) \in Int
    BY <1>1, <1>5, <1>6
  <1>8. QED BY <1>5, <1>6, <1>7 DEF I, J, a, b

(* It gains what a record is long that is added. *)
LEMMA SumInserted ==
  ASSUME NEW rows \in Seq(Row), NEW t, NEW p \in 1 .. (Len(rows) + 1), NEW r \in Row,
         NEW qs, qs = Insert(rows, p, r)
  PROVE  /\ Sum(rows, Since(rows, t)) \in Int
         /\ Sum(qs, Since(qs, t)) =
              Sum(rows, Since(rows, t)) + (IF r.start >= t THEN r.end - r.start ELSE 0)
  <1>. DEFINE I == Since(rows, t)
              J == Since(qs, t)
  <1>1. Len(rows) \in Nat /\ DOMAIN rows = 1 .. Len(rows)
    BY RowsAreRows
  <1>2. /\ qs \in Seq(Row) /\ Len(qs) = Len(rows) + 1 /\ DOMAIN qs = 1 .. (Len(rows) + 1)
        /\ p \in DOMAIN qs /\ qs[p] = r
        /\ \A i \in DOMAIN rows : IF i < p THEN i \in DOMAIN qs /\ qs[i] = rows[i]
                                           ELSE i + 1 \in DOMAIN qs /\ qs[i + 1] = rows[i]
    BY Inserted
  <1>3. \A i \in 1 .. Len(rows) : IF i < p THEN Share(qs, J, i) = Share(rows, I, i)
                                           ELSE Share(qs, J, i + 1) = Share(rows, I, i)
    <2>1. SUFFICES ASSUME NEW i \in 1 .. Len(rows)
                   PROVE  IF i < p THEN Share(qs, J, i) = Share(rows, I, i)
                                   ELSE Share(qs, J, i + 1) = Share(rows, I, i)
      OBVIOUS
    <2>2. CASE i < p
      <3>1. qs[i] = rows[i] /\ i \in DOMAIN qs /\ i \in DOMAIN rows
        BY <1>1, <1>2, <2>2
      <3>2. QED BY <2>2, <3>1 DEF Share, Since
    <2>3. CASE ~(i < p)
      <3>1. qs[i + 1] = rows[i] /\ i + 1 \in DOMAIN qs /\ i \in DOMAIN rows
        BY <1>1, <1>2, <2>3
      <3>2. QED BY <2>3, <3>1 DEF Share, Since
    <2>4. QED BY <2>2, <2>3
  <1>4. Share(qs, J, p) = IF r.start >= t THEN r.end - r.start ELSE 0
    BY <1>2 DEF Share, Length, Since
  <1>. HIDE DEF I, J
  <1>5. Sum(rows, I) \in Int /\ Sum(qs, J) = Sum(rows, I) + Share(qs, J, p)
    BY <1>2, <1>3, SumGainsOne
  <1>6. QED BY <1>4, <1>5 DEF I, J

(* A record that is counted from "start" on adds the time since then, and  *)
(* leaves those alone that begin before it.                                *)
LEMMA CountsAdds ==
  ASSUME NEW rows \in Seq(Row), NEW start \in Nat, Counts(rows, start),
         now \in Nat, now' = now, cur' # 0
  PROVE  /\ Sum(rows, Since(rows, Midnight(now))) \in Int
         /\ Sum(log', Today') + Extra' = Sum(rows, Since(rows, Midnight(now))) + (now - start)
         /\ Len(log') = Len(rows) + 1
         /\ \A i \in DOMAIN rows : rows[i].start <= start => log'[i] = rows[i] /\ i # cur'
  <1>. DEFINE r == [start |-> start, end |-> 0]
              t == Midnight(now)
              y == Sum(rows, Since(rows, t))
  <1>1. PICK p \in 1 .. (Len(rows) + 1) :
          Place(rows, p, start) /\ log' = Insert(rows, p, r) /\ cur' = p
    BY DEF Counts
  <1>2. r \in Row /\ r.start = start /\ r.end = 0
    BY DEF Row
  <1>3. Midnight(now') = t /\ Today' = Since(log', t)
    BY DEF Today
  <1>. HIDE DEF r, t
  <1>. DEFINE qs == log'
  <1>4. qs = Insert(rows, p, r)
    BY <1>1
  <1>. HIDE DEF qs
  <1>5. y \in Int /\ Sum(qs, Since(qs, t)) = y + (IF r.start >= t THEN r.end - r.start ELSE 0)
    BY <1>2, <1>4, SumInserted
  <1>6. /\ Len(qs) = Len(rows) + 1 /\ qs[p] = r
        /\ \A i \in DOMAIN rows : i < p => qs[i] = rows[i]
    <2>1. /\ Len(qs) = Len(rows) + 1 /\ qs[p] = r
          /\ \A i \in DOMAIN rows : IF i < p THEN i \in DOMAIN qs /\ qs[i] = rows[i]
                                             ELSE i + 1 \in DOMAIN qs /\ qs[i + 1] = rows[i]
      BY <1>2, <1>4, Inserted
    <2>2. QED BY <2>1
  <1>7. Extra' = (now - start) - (IF start >= t THEN 0 - start ELSE 0)
    <2>1. log'[cur'] = r /\ cur' # 0
      BY <1>1, <1>6 DEF qs
    <2>2. QED BY <1>2, <1>3, <2>1 DEF Extra
  <1>. HIDE DEF y
  <1>8. Sum(qs, Since(qs, t)) + Extra' = y + (now - start)
    <2>1. CASE start >= t
      <3>1. Extra' = (now - start) - (0 - start) /\ Sum(qs, Since(qs, t)) = y + (0 - start)
        BY <1>2, <1>5, <1>7, <2>1
      <3>2. QED BY <1>5, <3>1
    <2>2. CASE ~(start >= t)
      <3>1. Extra' = now - start /\ Sum(qs, Since(qs, t)) = y
        BY <1>2, <1>5, <1>7, <2>2
      <3>2. QED BY <1>5, <3>1
    <2>3. QED BY <2>1, <2>2
  <1>9. \A i \in DOMAIN rows : rows[i].start <= start => i < p
    BY <1>1 DEF Place
  <1>10. p \in Nat /\ \A i \in DOMAIN rows : i \in Nat
    BY RowsAreRows
  <1>11. QED BY <1>1, <1>3, <1>5, <1>6, <1>8, <1>9, <1>10 DEF y, t, qs

(* What calcTodayWork makes an int of falls by no more than record i loses *)
(* and the seams.                                                          *)
Falls(i) ==
  /\ Lost(i) \in Nat
  /\ Sum(log', Today') + Extra' >= ((Sum(log, Today) + Extra) - Lost(i)) - Seams

(* The record that is counted, begun today, is ended: it loses what is not *)
(* counted of it any more.                                                 *)
LEMMA EndFalls ==
  ASSUME IInv, NEW i \in Nat, i = cur, cur > 0, log[cur].start >= Midnight(now),
         NEW e \in Nat, e <= now + 2, log[cur].start <= e + 2,
         log' = EndedAt(cur, e), cur' = 0, now' = now
  PROVE  Falls(i)
  <1>. DEFINE y == Sum(log, Today)
              start == log[cur].start
              end == log[cur].end
  <1>1. now \in Nat /\ cur \in DOMAIN log /\ cur \in Nat /\ start \in Nat /\ end \in Nat /\ log \in Seq(Row)
    BY StateOfLog
  <1>2. /\ EndedAt(cur, e) \in Seq(Row) /\ DOMAIN EndedAt(cur, e) = DOMAIN log
        /\ EndedAt(cur, e)[cur].start = start /\ EndedAt(cur, e)[cur].end = e
        /\ \A k \in DOMAIN log : k # cur => EndedAt(cur, e)[k] = log[k]
        /\ Len(EndedAt(cur, e)) = Len(log)
    BY EndedKeepsOrder
  <1>3. Today' = Since(log', Midnight(now)) /\ Today = Since(log, Midnight(now))
    BY DEF Today, Midnight
  <1>. DEFINE qs == log'
  <1>4. qs = EndedAt(cur, e) /\ IsEnded(qs, log, cur, e)
    BY DEF EndedAt, IsEnded
  <1>. HIDE DEF qs
  <1>5. /\ Sum(log, Since(log, Midnight(now))) \in Int
        /\ Sum(qs, Since(qs, Midnight(now))) =
             Sum(log, Since(log, Midnight(now))) + (IF start >= Midnight(now) THEN e - end ELSE 0)
    BY <1>1, <1>4, SumEnded
  <1>6. y \in Int /\ Sum(log', Today') = y + (e - end)
    BY <1>3, <1>5 DEF qs
  <1>7. Extra' = 0 /\ Extra = (now - start) - (end - start)
    BY DEF Extra
  <1>8. Until(i) = now /\ Until(i)' = e
    BY <1>1, <1>2, <1>4 DEF Until, qs
  <1>9. Lost(i) \in Nat /\ Lost(i) >= now - e /\ Seams \in {0, 2}
    BY <1>1, <1>8 DEF Lost, Larger, Seams
  <1>. HIDE DEF y, start, end
  <1>10. Extra = now - end
    BY <1>1, <1>7
  <1>11. Sum(log', Today') + Extra' >= ((y + Extra) - Lost(i)) - Seams
    BY <1>1, <1>6, <1>7, <1>9, <1>10
  <1>12. QED BY <1>9, <1>11 DEF Falls, y

(* The three ways to end it. *)
LEMMA EndsFall ==
  ASSUME IInv, NEW i \in Nat, i = cur, ~EndsYesterdays,
         \/ Close
         \/ \E time \in since .. now : OnIdle(time)
         \/ \E check \in Epoch .. now : recoverFromCrash(check)
  PROVE  Falls(i)
  <1>1. cur > 0 /\ cur' = 0 /\ now' = now
    BY DEF Close, OnIdle, recoverFromCrash
  <1>2. /\ now \in Nat /\ since \in Nat /\ since <= now
        /\ log[cur].start \in Nat /\ log[cur].start <= since + 1 /\ Midnight(now) \in Int
    <2>1. /\ now \in Nat /\ since \in Nat /\ since <= now
          /\ log[cur].start \in Nat /\ log[cur].start <= since + 1
      BY <1>1, StateOfLog
    <2>2. Day(now) <= Day(now)
      BY <2>1, DatesOfDays
    <2>3. QED BY <2>1, <2>2, TodayBegins
  <1>3. log[cur].start >= Midnight(now)
    BY <1>1, <1>2 DEF EndsYesterdays
  <1>4. PICK e \in Nat : e <= now + 2 /\ log[cur].start <= e + 2 /\ log' = EndedAt(cur, e)
    <2>1. ASSUME NEW time \in since .. now, OnIdle(time)
          PROVE  \E e \in Nat : e <= now + 2 /\ log[cur].start <= e + 2 /\ log' = EndedAt(cur, e)
      <3>1. time \in Nat /\ time <= now + 2 /\ log[cur].start <= time + 2
        BY <1>2
      <3>2. log' = EndedAt(cur, time)
        BY <2>1 DEF OnIdle
      <3>3. QED BY <3>1, <3>2
    <2>2. QED BY <2>1, LastEnd
  <1>5. QED BY <1>1, <1>3, <1>4, EndFalls

(* An answer ends the record the dialog is about at the time picked.       *)
LEMMA PickFalls ==
  ASSUME IInv, asked > 0, NEW pick \in Epoch .. now, pick \in Picks
  PROVE  /\ Sum(log, Today) \in Int
         /\ Sum(EndedAt(asked, pick), Since(EndedAt(asked, pick), Midnight(now))) \in Int
         /\ \A lost \in Nat : lost >= log[asked].end - pick =>
              Sum(EndedAt(asked, pick), Since(EndedAt(asked, pick), Midnight(now)))
                >= Sum(log, Today) - lost
  <1>. DEFINE x == Sum(EndedAt(asked, pick), Since(EndedAt(asked, pick), Midnight(now)))
              y == Sum(log, Since(log, Midnight(now)))
              end == log[asked].end
  <1>1. log \in Seq(Row) /\ asked \in DOMAIN log /\ end \in Nat
    BY StateOfLog
  <1>2. /\ EndedAt(asked, pick) \in Seq(Row) /\ DOMAIN EndedAt(asked, pick) = DOMAIN log
        /\ EndedAt(asked, pick)[asked].start = log[asked].start
        /\ EndedAt(asked, pick)[asked].end = pick /\ pick \in Nat
        /\ \A i \in DOMAIN log : i # asked => EndedAt(asked, pick)[i] = log[i]
    BY <1>1, PickEnds
  <1>3. /\ y \in Int /\ x \in Int
        /\ x = y + (IF log[asked].start >= Midnight(now) THEN pick - end ELSE 0)
    <2>1. IsEnded(EndedAt(asked, pick), log, asked, pick)
      BY DEF IsEnded, EndedAt
    <2>2. QED BY <1>1, <1>2, <2>1, SumEnded
  <1>4. Today = Since(log, Midnight(now))
    BY DEF Today
  <1>. HIDE DEF x, y, end
  <1>5. \A lost \in Nat : lost >= end - pick => x >= y - lost
    BY <1>1, <1>2, <1>3
  <1>6. QED BY <1>3, <1>4, <1>5 DEF x, y, end

(* He picked when he had stopped. *)
LEMMA ActionStopFalls ==
  ASSUME IInv, NEW i \in Nat, i = asked, NEW pick \in Epoch .. now, ActionStop(pick)
  PROVE  Falls(i)
  <1>1. asked > 0 /\ pick \in Picks /\ log' = EndedAt(asked, pick) /\ cur' = cur /\ now' = now
    BY DEF ActionStop, Answered
  <1>2. /\ cur = 0 /\ asked \in Nat /\ asked # cur /\ asked \in DOMAIN log /\ log[asked].end \in Nat
        /\ pick \in Nat /\ EndedAt(asked, pick)[asked].end = pick
    BY <1>1, StateOfLog, PickEnds
  <1>3. Today' = Since(log', Midnight(now)) /\ Extra' = 0 /\ Extra = 0
    BY <1>1, <1>2 DEF Today, Extra
  <1>4. Until(i) = log[asked].end /\ Until(i)' = pick
    BY <1>1, <1>2 DEF Until
  <1>5. Lost(i) \in Nat /\ Lost(i) >= log[asked].end - pick /\ Seams \in {0, 2}
    BY <1>1, <1>2, <1>4 DEF Lost, Larger, Seams
  <1>6. /\ Sum(log, Today) \in Int /\ Sum(log', Today') \in Int
        /\ Sum(log', Today') >= Sum(log, Today) - Lost(i)
    BY <1>1, <1>3, <1>5, PickFalls
  <1>7. QED BY <1>3, <1>5, <1>6 DEF Falls

(* His record is counted on, from when it had been ended.                  *)
LEMMA ActionIgnoreFalls ==
  ASSUME IInv, NEW i \in Nat, i = asked, ActionIgnore
  PROVE  Falls(i)
  <1>. DEFINE start == log[asked].start
              end == log[asked].end
              y == Sum(log, Today)
  <1>1. asked > 0 /\ cur' = asked /\ log' = log /\ now' = now
    BY DEF ActionIgnore, Answered
  <1>2. /\ cur = 0 /\ asked \in Nat /\ asked # cur /\ start \in Nat /\ end \in Nat
        /\ now \in Nat /\ since \in Nat /\ since <= now /\ start <= since
    BY <1>1, StateOfLog
  <1>3. Midnight(now') = Midnight(now) /\ Today' = Today /\ Extra = 0
    BY <1>1, <1>2 DEF Today, Extra
  <1>4. Extra' = (now - start) - (IF start >= Midnight(now) THEN end - start ELSE 0)
    BY <1>1, <1>3 DEF Extra
  <1>5. Until(i) = end /\ Until(i)' = now
    BY <1>1, <1>2 DEF Until
  <1>6. Lost(i) \in Nat /\ Lost(i) >= end - now /\ Seams \in {0, 2}
    BY <1>1, <1>2, <1>5 DEF Lost, Larger, Seams
  <1>7. y \in Int
    BY CalcTodayWork DEF CalcIsSum
  <1>8. Sum(log', Today') = y
    BY <1>1, <1>3
  <1>. HIDE DEF y, start, end
  <1>9. Extra' \in Int /\ Extra' >= 0 - Lost(i)
    BY <1>2, <1>4, <1>6
  <1>10. Sum(log', Today') + Extra' >= ((y + Extra) - Lost(i)) - Seams
    BY <1>3, <1>6, <1>7, <1>8, <1>9
  <1>11. QED BY <1>6, <1>10 DEF Falls, y

(* The seam: the record of the other task begins a second after the time   *)
(* picked, which may be now.                                               *)
LEMMA ActionSwitchFalls ==
  ASSUME IInv, NEW i \in Nat, i = asked, NEW pick \in Epoch .. now, ActionSwitch(pick), ~CutShort
  PROVE  Falls(i)
  <1>. DEFINE rows == EndedAt(asked, pick)
              x == Sum(rows, Since(rows, Midnight(now)))
              y == Sum(log, Today)
  <1>1. asked > 0 /\ pick \in Picks /\ Counts(rows, pick + 1) /\ now' = now
    BY DEF ActionSwitch, Answered
  <1>2. /\ cur = 0 /\ asked \in Nat /\ asked # cur /\ asked \in DOMAIN log /\ log[asked].end \in Nat
        /\ now \in Nat /\ Len(log) \in Nat
    BY <1>1, StateOfLog
  <1>3. /\ pick \in Nat /\ pick <= now /\ pick + 1 \in Nat
        /\ rows \in Seq(Row) /\ Len(rows) = Len(log) /\ DOMAIN rows = DOMAIN log
        /\ rows[asked].end = pick /\ rows[asked].start <= pick + 1
    BY <1>1, <1>2, PickEnds
  <1>4. /\ y \in Int /\ x \in Int
        /\ \A lost \in Nat : lost >= log[asked].end - pick => x >= y - lost
    BY <1>1, PickFalls
  <1>. HIDE DEF rows
  <1>5. cur' # 0 /\ Len(log') > Len(log)
    <2>. DEFINE start == pick + 1
    <2>1. Len(log') = Len(rows) + 1
      <3>1. start \in Nat /\ Counts(rows, start)
        BY <1>1, <1>3
      <3>. HIDE DEF start
      <3>2. QED BY <1>3, <3>1, CountsLength
    <2>2. QED BY <1>2, <1>3, <2>1 DEF CutShort
  <1>6. /\ Sum(log', Today') + Extra' = x + (now - (pick + 1))
        /\ \A k \in DOMAIN rows : rows[k].start <= pick + 1 => log'[k] = rows[k] /\ k # cur'
    <2>. DEFINE start == pick + 1
    <2>1. start \in Nat /\ Counts(rows, start)
      BY <1>1, <1>3
    <2>. HIDE DEF start
    <2>2. /\ Sum(log', Today') + Extra' = x + (now - start)
          /\ \A k \in DOMAIN rows : rows[k].start <= start => log'[k] = rows[k] /\ k # cur'
      BY <1>1, <1>2, <1>3, <1>5, <2>1, CountsAdds
    <2>3. QED BY <2>2 DEF start
  <1>7. Until(i) = log[asked].end /\ Until(i)' = pick
    BY <1>2, <1>3, <1>6 DEF Until
  <1>8. Lost(i) \in Nat /\ Lost(i) >= log[asked].end - pick /\ Seams = 2 /\ Extra = 0
    BY <1>1, <1>2, <1>3, <1>5, <1>7 DEF Lost, Larger, Seams, Extra
  <1>9. x >= y - Lost(i)
    BY <1>4, <1>8
  <1>. HIDE DEF x, y
  <1>10. Sum(log', Today') + Extra' >= ((y + Extra) - Lost(i)) - Seams
    BY <1>2, <1>3, <1>4, <1>6, <1>8, <1>9
  <1>11. QED BY <1>8, <1>10 DEF Falls, y

(* The seams: the record of the other task begins a second after the time  *)
(* picked and ends a second ago.                                           *)
LEMMA ActionLogAndBackFalls ==
  ASSUME IInv, NEW i \in Nat, i = asked, NEW pick \in Epoch .. now, ActionLogAndBack(pick),
         ~CutShort
  PROVE  Falls(i)
  <1>. DEFINE qs == EndedAt(asked, pick)
              r == [start |-> pick + 1, end |-> now - 1]
              t == Midnight(now)
              x == Sum(qs, Since(qs, t))
              y == Sum(log, Today)
  <1>1. PICK p \in 1 .. (Len(log) + 1) :
          /\ Place(qs, p, pick + 1)
          /\ Counts(Insert(qs, p, r), now) \/ (log' = Insert(qs, p, r) /\ cur' = 0)
    BY DEF ActionLogAndBack
  <1>. DEFINE rows == Insert(qs, p, r)
              z == Sum(rows, Since(rows, t))
  <1>2. asked > 0 /\ pick \in Picks /\ now' = now
    BY DEF ActionLogAndBack, Answered
  <1>3. /\ cur = 0 /\ asked \in Nat /\ asked # cur /\ asked \in DOMAIN log /\ log[asked].end \in Nat
        /\ now \in Nat /\ Len(log) \in Nat /\ since <= now /\ log[asked].start \in Nat
        /\ log[asked].start <= since /\ since \in Nat
    BY <1>2, StateOfLog
  <1>4. /\ pick \in Nat /\ pick <= now /\ Epoch <= pick /\ log[asked].start <= pick + 1
        /\ qs \in Seq(Row) /\ Len(qs) = Len(log) /\ DOMAIN qs = DOMAIN log
        /\ qs[asked].end = pick /\ qs[asked].start = log[asked].start
    BY <1>2, <1>3, PickEnds
  <1>5. /\ y \in Int /\ x \in Int
        /\ \A lost \in Nat : lost >= log[asked].end - pick => x >= y - lost
    BY <1>2, PickFalls
  <1>6. r \in Row /\ r.start = pick + 1 /\ r.end = now - 1
    BY <1>3, <1>4, Bounds DEF Row
  <1>7. rows \in Seq(Row) /\ Len(rows) = Len(log) + 1
    BY <1>1, <1>2, OtherKeepsOrder
  <1>8. asked < p /\ p \in 1 .. (Len(qs) + 1)
    BY <1>1, <1>3, <1>4 DEF Place
  <1>. HIDE DEF qs, r, t
  <1>9. asked \in DOMAIN rows /\ rows[asked] = qs[asked]
    <2>1. rows = Insert(qs, p, r) /\ qs \in Seq(Row) /\ r \in Row /\ p \in 1 .. (Len(qs) + 1)
      BY <1>4, <1>6, <1>8
    <2>. HIDE DEF rows
    <2>2. \A k \in DOMAIN qs : k < p => k \in DOMAIN rows /\ rows[k] = qs[k]
      <3>1. \A k \in DOMAIN qs : IF k < p THEN k \in DOMAIN rows /\ rows[k] = qs[k]
                                          ELSE k + 1 \in DOMAIN rows /\ rows[k + 1] = qs[k]
        BY <2>1, Inserted
      <3>2. QED BY <3>1
    <2>3. QED BY <1>3, <1>4, <1>8, <2>2
  <1>10. z = x + (IF r.start >= t THEN r.end - r.start ELSE 0)
    BY <1>4, <1>6, <1>8, SumInserted
  <1>. HIDE DEF rows
  <1>11. Counts(rows, now) /\ cur' # 0
    <2>1. CASE log' = rows /\ cur' = 0
      BY <1>3, <1>7, <2>1 DEF CutShort
    <2>2. CASE Counts(rows, now)
      <3>1. Len(log') > Len(log)
        <4>1. Len(log') = Len(rows) + 1
          BY <1>3, <1>7, <2>2, CountsLength
        <4>2. QED BY <1>3, <1>7, <4>1
      <3>2. QED BY <2>2, <3>1 DEF CutShort
    <2>3. QED BY <1>1, <2>1, <2>2 DEF rows, qs, r
  <1>12. /\ z \in Int /\ Sum(log', Today') + Extra' = z + (now - now)
         /\ Len(log') = Len(rows) + 1
         /\ \A k \in DOMAIN rows : rows[k].start <= now => log'[k] = rows[k] /\ k # cur'
    BY <1>2, <1>3, <1>7, <1>11, CountsAdds DEF t
  <1>13. log'[asked] = qs[asked] /\ asked # cur'
    <2>1. rows[asked].start <= now
      BY <1>3, <1>4, <1>9
    <2>2. QED BY <1>9, <1>12, <2>1
  <1>14. Until(i) = log[asked].end /\ Until(i)' = pick
    BY <1>3, <1>4, <1>13 DEF Until
  <1>15. Lost(i) \in Nat /\ Lost(i) >= log[asked].end - pick /\ Seams = 2 /\ Extra = 0
    <2>1. Lost(i) \in Nat /\ Lost(i) >= log[asked].end - pick
      BY <1>2, <1>3, <1>4, <1>14 DEF Lost, Larger
    <2>2. Seams = 2
      BY <1>3, <1>7, <1>12 DEF Seams
    <2>3. QED BY <1>3, <2>1, <2>2 DEF Extra
  <1>16. x >= y - Lost(i)
    BY <1>5, <1>15
  <1>. HIDE DEF x, y, z
  <1>17. z >= x - 2
    BY <1>3, <1>4, <1>5, <1>6, <1>10
  <1>18. Sum(log', Today') + Extra' = z
    BY <1>3, <1>12
  <1>19. Sum(log', Today') + Extra' >= ((y + Extra) - Lost(i)) - Seams
    BY <1>5, <1>12, <1>15, <1>16, <1>17, <1>18
  <1>20. QED BY <1>15, <1>19 DEF Falls, y

(* The user came back a while ago: the time since then is added.           *)
LEMMA OnReturnFalls ==
  ASSUME IInv, NEW i \in Nat, i = 0, NEW time \in since .. now, OnReturn(time), ~CutShort
  PROVE  Falls(i)
  <1>. DEFINE y == Sum(log, Today)
  <1>1. cur = 0 /\ Counts(log, time) /\ now' = now
    BY DEF OnReturn
  <1>2. /\ now \in Nat /\ since \in Nat /\ time \in Nat /\ time <= now /\ log \in Seq(Row)
        /\ Len(log) \in Nat
    BY StateOfLog
  <1>3. cur' # 0 /\ Len(log') > Len(log)
    <2>1. Len(log') = Len(log) + 1
      BY <1>1, <1>2, CountsLength
    <2>2. QED BY <1>2, <2>1 DEF CutShort
  <1>4. /\ Sum(log, Since(log, Midnight(now))) \in Int
        /\ Sum(log', Today') + Extra' = Sum(log, Since(log, Midnight(now))) + (now - time)
    BY <1>1, <1>2, <1>3, CountsAdds
  <1>5. y \in Int /\ Sum(log', Today') + Extra' = y + (now - time) /\ Extra = 0
    BY <1>1, <1>4 DEF Today, Extra
  <1>6. Lost(i) = 0 /\ Seams = 2
    BY <1>3 DEF Lost, Seams
  <1>. HIDE DEF y
  <1>7. Sum(log', Today') + Extra' >= ((y + Extra) - Lost(i)) - Seams
    BY <1>2, <1>5, <1>6
  <1>8. QED BY <1>6, <1>7 DEF Falls, y

(* While time passes the record that is counted grows. *)
LEMMA TickFalls ==
  ASSUME IInv, NEW i \in Nat, i \in {cur, asked}, Tick \/ UNCHANGED vars, Day(now') = Day(now)
  PROVE  Falls(i)
  <1>. DEFINE y == Sum(log, Today)
  <1>1. log' = log /\ cur' = cur /\ (now' = now \/ now' = now + 1)
    BY DEF Tick, vars
  <1>2. /\ now \in Nat /\ cur \in Nat /\ Len(log) \in Nat
        /\ i > 0 => i \in DOMAIN log /\ log[i].end \in Nat
        /\ cur > 0 => log[cur].start \in Nat /\ log[cur].end \in Nat
    BY StateOfLog
  <1>3. Midnight(now') = Midnight(now)
    BY DEF Midnight
  <1>4. Sum(log', Today') = y
    BY <1>1, <1>3 DEF Today
  <1>5. Extra \in Int /\ Extra' \in Int /\ Extra' >= Extra
    <2>1. CASE cur = 0
      BY <1>1, <2>1 DEF Extra
    <2>2. CASE cur > 0
      <3>. DEFINE share == IF log[cur].start >= Midnight(now) THEN log[cur].end - log[cur].start ELSE 0
                  start == log[cur].start
      <3>1. share \in Int /\ start \in Nat
        BY <1>2, <2>2
      <3>2. Extra = (now - start) - share /\ Extra' = (now' - start) - share
        BY <1>1, <1>3, <2>2 DEF Extra
      <3>. HIDE DEF share, start
      <3>3. QED BY <1>1, <1>2, <3>1, <3>2
    <2>3. QED BY <1>2, <2>1, <2>2
  <1>6. Lost(i) = 0
    <2>1. CASE i = 0
      BY <2>1 DEF Lost
    <2>2. CASE i > 0
      <3>1. Until(i) \in Nat /\ Until(i)' \in Nat /\ Until(i)' >= Until(i)
        BY <1>1, <1>2, <2>2 DEF Until
      <3>2. QED BY <2>2, <3>1 DEF Lost, Larger
    <2>3. QED BY <2>1, <2>2
  <1>7. Seams = 0
    BY <1>1, <1>2 DEF Seams
  <1>8. y \in Int
    BY CalcTodayWork DEF CalcIsSum
  <1>. HIDE DEF y
  <1>9. Sum(log', Today') + Extra' >= ((y + Extra) - Lost(i)) - Seams
    <2>1. \A d, e \in Int : e >= d => y + e >= ((y + d) - 0) - 0
      BY <1>8
    <2>2. y + Extra' >= ((y + Extra) - 0) - 0
      BY <1>5, <2>1
    <2>3. QED BY <1>4, <1>6, <1>7, <2>2
  <1>10. QED BY <1>6, <1>9 DEF Falls, y

(* The sum that calcTodayWork makes an int of does not overflow upwards,   *)
(* nor downwards with at most one record of today left open.               *)
WorkFits ==
  /\ Sum(LogIfClosed, Worked) < HalfRange
  /\ AtMostOne(TodayRows \cap Orphans) => calcTodayWork = Sum(LogIfClosed, Worked)

(* The record that is counted is not one that was left open.               *)
LEMMA WorkThatFits ==
  ASSUME Before2038, IInv
  PROVE  WorkFits
  <1>. DEFINE C == LogIfClosed
  <1>1. /\ now \in Nat /\ Epoch <= now /\ now <= Epoch + MaxClock /\ Len(log) <= MaxRows /\ now # 0
    BY StateOfLog, Bounds DEF IInv, InTime
  <1>2. /\ C \in Seq(Row) /\ Len(C) = Len(log) /\ DOMAIN C = DOMAIN log
        /\ \A i \in DOMAIN log : C[i].end = Until(i)
        /\ Recorded(C, now) /\ InTurn(C)
    BY ClosedLog DEF ClosedIsInOrder
  <1>3. calcTodayWork = Int32(Sum(C, Worked))
    BY CalcTodayWork DEF CalcIsSum
  <1>4. Open(C, Worked) \subseteq TodayRows \cap Orphans
    <2>1. SUFFICES ASSUME NEW i \in Open(C, Worked) PROVE i \in TodayRows \cap Orphans
      OBVIOUS
    <2>2. i \in DOMAIN log /\ i \in Worked /\ Until(i) = 0
      BY <1>2, <2>1 DEF Open
    <2>3. i # cur /\ log[i].end = 0
      BY <1>1, <2>2 DEF Until
    <2>4. QED BY <2>2, <2>3, TodayIsToday DEF Worked, Orphans
  <1>5. AtMostOne(TodayRows \cap Orphans) => AtMostOne(Open(C, Worked))
    BY <1>4 DEF AtMostOne
  <1>. DEFINE rows == C
  <1>. HIDE DEF C
  <1>6. /\ Sum(C, Worked) < HalfRange
        /\ AtMostOne(Open(C, Worked)) => Int32(Sum(C, Worked)) = Sum(C, Worked)
    BY <1>1, <1>2, SumsFit
  <1>7. QED BY <1>3, <1>5, <1>6 DEF WorkFits, C

(* What every step does within a day.                                      *)
LEMMA StepFalls ==
  ASSUME IInv, [Next]_vars, NEW i \in {cur, asked}, i > 0 \/ (cur = 0 /\ asked = 0),
         Day(now') = Day(now), ~EndsYesterdays, ~CutShort
  PROVE  Falls(i)
  <1>1. cur \in Nat /\ asked \in Nat /\ i \in Nat
    BY StateOfLog
  <1>2. /\ cur > 0 => i = cur /\ asked = 0
        /\ asked > 0 => i = asked /\ cur = 0
    BY <1>1, StateOfLog
  <1>3. ASSUME NEW time \in since .. now, OnReturn(time) PROVE Falls(i)
    <2>1. i = 0
      BY <1>3 DEF OnReturn
    <2>2. QED BY <1>1, <1>3, <2>1, OnReturnFalls
  <1>4. CASE \/ Close
             \/ \E time \in since .. now : OnIdle(time)
             \/ \E check \in Epoch .. now : recoverFromCrash(check)
    <2>1. cur > 0
      BY <1>4 DEF Close, OnIdle, recoverFromCrash
    <2>2. i = cur
      BY <1>2, <2>1
    <2>3. QED BY <1>1, <1>4, <2>2, EndsFall
  <1>5. ASSUME NEW pick \in Epoch .. now, ActionStop(pick) \/ ActionSwitch(pick) \/ ActionLogAndBack(pick)
        PROVE  Falls(i)
    <2>1. asked > 0
      BY <1>5 DEF ActionStop, ActionSwitch, ActionLogAndBack
    <2>2. i = asked
      BY <1>2, <2>1
    <2>3. QED BY <1>1, <1>5, <2>2, ActionStopFalls, ActionSwitchFalls, ActionLogAndBackFalls
  <1>6. CASE ActionIgnore
    <2>1. asked > 0
      BY <1>6 DEF ActionIgnore
    <2>2. i = asked
      BY <1>2, <2>1
    <2>3. QED BY <1>1, <1>6, <2>2, ActionIgnoreFalls
  <1>7. CASE Tick \/ UNCHANGED vars
    BY <1>1, <1>7, TickFalls
  <1>8. QED BY <1>3, <1>4, <1>5, <1>6, <1>7 DEF Next

(* In the course of a day the time worked today falls only by what a       *)
(* record loses, at OnIdle, at an answer, at Close or at recovery, and by  *)
(* the seams of the records an answer adds, unless a record begun before   *)
(* midnight is ended, the process ends in the middle of a handler that     *)
(* adds one, or two records of the day were left open.                     *)
THEOREM TodayFallsByLoss ==
  ASSUME Before2038
  PROVE  Spec => FallsOnlyByLoss
  <1>. DEFINE A == \A i \in {cur, asked} :
                     /\ i > 0 \/ (cur = 0 /\ asked = 0)
                     /\ Day(now') = Day(now)
                     /\ AtMostOne(TodayRows \cap Orphans)
                     /\ ~EndsYesterdays /\ ~CutShort
                     => calcTodayWork' >= calcTodayWork - Lost(i) - Seams
  <1>1. IInv => CalcIsSum /\ WorkFits
    BY CalcTodayWork, WorkThatFits
  <1>2. IInv' => CalcIsSum' /\ WorkFits'
    BY <1>1, PTL
  <1>3. IInv /\ IInv' /\ [Next]_vars => [A]_vars
    <2>1. SUFFICES ASSUME IInv, IInv', [Next]_vars, NEW i \in {cur, asked},
                          i > 0 \/ (cur = 0 /\ asked = 0), Day(now') = Day(now),
                          AtMostOne(TodayRows \cap Orphans), ~EndsYesterdays, ~CutShort
                   PROVE  calcTodayWork' >= calcTodayWork - Lost(i) - Seams
      OBVIOUS
    <2>. DEFINE x == Sum(log, Today) + Extra
                xx == Sum(log', Today') + Extra'
    <2>2. /\ x \in Int /\ calcTodayWork = x
      BY <1>1, <2>1 DEF CalcIsSum, WorkFits
    <2>3. xx \in Int /\ xx < HalfRange /\ calcTodayWork' = Int32(xx)
      BY <1>2, <2>1 DEF CalcIsSum, WorkFits, HalfRange
    <2>4. Lost(i) \in Nat /\ Seams \in {0, 2} /\ xx >= (x - Lost(i)) - Seams
      BY <2>1, StepFalls DEF Falls, Seams
    <2>. HIDE DEF x, xx
    <2>5. Int32(xx) \in Int /\ Int32(xx) >= xx
      BY <2>3, Int32Grows
    <2>6. Int32(xx) >= (x - Lost(i)) - Seams
      BY <2>2, <2>3, <2>4, <2>5
    <2>7. QED BY <2>2, <2>3, <2>6
  <1>4. QED BY <1>3, Invariance, PTL DEF Spec, FallsOnlyByLoss
=============================================================================
