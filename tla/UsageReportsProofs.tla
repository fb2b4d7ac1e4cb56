-------------------------- MODULE UsageReportsProofs --------------------------
(* Proofs about UsageReports: the cards, the charts and the pages of the   *)
(* data plan, for every calendar that covers the days of the history,      *)
(* every billing day the API accepts, every allowance and every usage.     *)
EXTENDS UsageReports, IngestionProofs, WellFoundedInduction, FiniteSetTheorems

-----------------------------------------------------------------------------
(* Whole-number arithmetic. *)

LEMMA LeastOf ==
    ASSUME NEW S, S \subseteq Nat, S # {}
    PROVE  \E x \in S : \A y \in S : x <= y
<1> DEFINE R == OpToRel(<, Nat)
<1>1. IsWellFoundedOn(R, Nat)
    BY NatLessThanWellFounded
<1>2. \A x, y \in Nat : x < y => <<x, y>> \in R
    BY DEF OpToRel
<1> HIDE DEF R
<1>3. PICK x \in S : \A y \in S : ~(<<y, x>> \in R)
    BY <1>1, WFMin
<1>4. ASSUME NEW y \in S PROVE x <= y
    <2>1. x \in Nat /\ y \in Nat
        OBVIOUS
    <2>2. ~(y < x)
        BY <1>2, <1>3, <2>1
    <2> QED BY <2>1, <2>2
<1> QED BY <1>4

LEMMA ProductOrder ==
    ASSUME NEW a \in Int, NEW b \in Int, NEW c \in Nat, a <= b
    PROVE  a * c <= b * c
OBVIOUS

LEMMA StrictOrder ==
    ASSUME NEW a \in Int, NEW b \in Int, NEW c \in Nat, c > 0, a * c < b * c
    PROVE  a < b
OBVIOUS

(* What "\div" returns: the whole quotient.                                *)
LEMMA Quotient ==
    ASSUME NEW a \in Nat, NEW b \in Nat, b > 0
    PROVE  LET q == a \div b
           IN  q \in Nat /\ q * b <= a /\ a < (q + 1) * b
OBVIOUS

LEMMA AtLeast ==
    ASSUME NEW a \in Nat, NEW b \in Nat, b > 0, NEW n \in Nat, n * b <= a
    PROVE  n <= a \div b
<1> DEFINE q == a \div b
<1>1. q \in Nat /\ a < (q + 1) * b
    BY Quotient
<1> HIDE DEF q
<1>2. n * b \in Int /\ (q + 1) * b \in Int /\ n * b < (q + 1) * b
    BY <1>1
<1>3. n < q + 1
    BY <1>1, <1>2, StrictOrder
<1>4. n <= q
    BY <1>1, <1>3
<1> QED BY <1>4 DEF q

LEMMA AtMost ==
    ASSUME NEW a \in Nat, NEW b \in Nat, b > 0, NEW n \in Nat, a < (n + 1) * b
    PROVE  a \div b <= n
<1> DEFINE q == a \div b
<1>1. q \in Nat /\ q * b <= a
    BY Quotient
<1> HIDE DEF q
<1>2. q * b \in Int /\ (n + 1) * b \in Int /\ q * b < (n + 1) * b
    BY <1>1
<1>3. q < n + 1
    BY <1>1, <1>2, StrictOrder
<1>4. q <= n
    BY <1>1, <1>3
<1> QED BY <1>4 DEF q

(* Whoever spends a whole share for each of no more than n days spends no  *)
(* more than there was.                                                    *)
LEMMA SharesFit ==
    ASSUME NEW a \in Nat, NEW n \in Nat, n > 0, NEW days \in Nat, days <= n
    PROVE  (a \div n) * days <= a
<1> DEFINE q == a \div n
<1>1. q \in Nat /\ q * n <= a
    BY Quotient
<1> HIDE DEF q
<1>2. days * q <= n * q
    BY <1>1, ProductOrder
<1>3. q * days <= a
    BY <1>1, <1>2
<1> QED BY <1>3 DEF q

-----------------------------------------------------------------------------
(* The plan's page, put as arithmetic: a cycle of length days, of which    *)
(* past days and h hours of the next have gone.                            *)
PlanNumbers(length, past, h) ==
    /\ length \in Nat /\ past \in Nat /\ past < length
    /\ h \in Nat /\ h < DayHours

(* The days the budget is divided by are at least those that are left, the *)
(* one that is running included.                                           *)
LEMMA DaysLeft ==
    ASSUME NEW left \in Nat, left > 0, NEW h \in Nat, h < DayHours
    PROVE  LET n == RemainingDays(left * DayHours - h) IN n \in Nat /\ n > 0 /\ left <= n
<1> DEFINE hours == left * DayHours - h
           days == hours \div DayHours
<1>1. DayHours \in Nat /\ DayHours > 0
    BY ReportBounds
<1>2. hours \in Nat /\ (left - 1) * DayHours <= hours
    <2>1. left * DayHours \in Int /\ (left - 1) * DayHours = left * DayHours - DayHours
        BY <1>1
    <2>2. (left - 1) * DayHours \in Nat
        BY <1>1
    <2> QED BY <1>1, <2>1, <2>2
<1> HIDE DEF hours
<1>3. left - 1 <= days
    BY <1>1, <1>2, AtLeast
<1>4. days \in Nat
    BY <1>1, <1>2, Quotient
<1> HIDE DEF days
<1>5. RemainingDays(hours) = IF days + 1 > 1 THEN days + 1 ELSE 1
    BY DEF RemainingDays, days
<1>6. RemainingDays(hours) \in Nat /\ RemainingDays(hours) > 0 /\ left <= RemainingDays(hours)
    BY <1>3, <1>4, <1>5
<1> QED BY <1>6 DEF hours

LEMMA ElapsedBounds ==
    ASSUME NEW length, NEW past, NEW h, PlanNumbers(length, past, h)
    PROVE  LET elapsed == past * DayHours + h
           IN  /\ elapsed \in Nat /\ past * DayHours <= elapsed
               /\ elapsed < (past + 1) * DayHours /\ elapsed < length * DayHours
<1>1. DayHours \in Nat /\ DayHours > 0
    BY ReportBounds
<1>2. /\ past \in Nat /\ length \in Nat /\ past + 1 <= length /\ h \in Nat /\ h < DayHours
    BY DEF PlanNumbers
<1>3. (past + 1) * DayHours <= length * DayHours
    BY <1>1, <1>2, ProductOrder
<1>4. past * DayHours \in Nat /\ (past + 1) * DayHours = past * DayHours + DayHours
      /\ length * DayHours \in Nat
    BY <1>1, <1>2
<1> QED BY <1>1, <1>2, <1>3, <1>4

(* While something is left, what is used so far has lasted for the days    *)
(* that are past, so the allowance lasts as long.                          *)
LEMMA ExhaustedLater ==
    ASSUME NEW start \in Int, NEW length, NEW past, NEW h, PlanNumbers(length, past, h),
           NEW used \in Nat, NEW allowance \in Nat, used < allowance,
           NEW elapsed, elapsed = past * DayHours + h, elapsed > 0,
           NEW projected, projected = (used * length * DayHours) \div elapsed, projected > 0
    PROVE  start + past <= start + (length * DayHours * allowance) \div (projected * DayHours)
<1>1. DayHours \in Nat /\ DayHours > 0 /\ length \in Nat /\ past \in Nat
    BY ReportBounds DEF PlanNumbers
<1>2. elapsed \in Nat /\ past * DayHours <= elapsed
    BY ElapsedBounds
<1> DEFINE cycle == length * DayHours
<1>3. cycle \in Nat /\ used * length * DayHours = used * cycle /\ used * cycle \in Nat
    BY <1>1
<1> HIDE DEF cycle
<1>4. projected \in Nat /\ projected * elapsed <= used * cycle
    BY <1>2, <1>3, Quotient
<1>5. (past * DayHours) * projected <= elapsed * projected
    <2>1. past * DayHours \in Int
        BY <1>1
    <2> QED BY <1>2, <1>4, <2>1, ProductOrder
<1>6. used * cycle <= allowance * cycle
    BY <1>3, ProductOrder
<1>7. past * (projected * DayHours) <= cycle * allowance
    <2>1. past * (projected * DayHours) = (past * DayHours) * projected
        BY <1>1, <1>4
    <2>2. elapsed * projected = projected * elapsed /\ cycle * allowance = allowance * cycle
        BY <1>2, <1>3, <1>4
    <2>3. /\ past * (projected * DayHours) \in Int /\ elapsed * projected \in Int
          /\ used * cycle \in Int /\ allowance * cycle \in Int
        BY <1>1, <1>2, <1>3, <1>4
    <2> QED BY <1>4, <1>5, <1>6, <2>1, <2>2, <2>3
<1>8. projected * DayHours \in Nat /\ projected * DayHours > 0 /\ cycle * allowance \in Nat
    BY <1>1, <1>3, <1>4
<1>9. past <= (cycle * allowance) \div (projected * DayHours)
    BY <1>1, <1>7, <1>8, AtLeast
<1>10. (cycle * allowance) \div (projected * DayHours) \in Nat
    BY <1>8, Quotient
<1>11. start + past <= start + (cycle * allowance) \div (projected * DayHours)
    BY <1>1, <1>9, <1>10
<1> QED BY <1>11 DEF cycle

(* Once more is used than allowed, the projection, rounded down as it is,  *)
(* is beyond the allowance, and the allowance was used up by now.          *)
LEMMA ExhaustedBefore ==
    ASSUME NEW start \in Int, NEW length, NEW past, NEW h, PlanNumbers(length, past, h),
           NEW used \in Nat, NEW allowance \in Nat, used > allowance,
           NEW elapsed, elapsed = past * DayHours + h, elapsed > 0,
           NEW projected, projected = (used * length * DayHours) \div elapsed
    PROVE  /\ projected > allowance
           /\ start + (length * DayHours * allowance) \div (projected * DayHours) <= start + past
<1>1. DayHours \in Nat /\ DayHours > 0 /\ length \in Nat /\ past \in Nat
    BY ReportBounds DEF PlanNumbers
<1> DEFINE cycle == length * DayHours
<1>2. elapsed \in Nat /\ elapsed < cycle /\ elapsed < (past + 1) * DayHours
    BY ElapsedBounds
<1>3. cycle \in Nat /\ used * length * DayHours = used * cycle /\ used * cycle \in Nat
    BY <1>1
<1> HIDE DEF cycle
<1>4. projected \in Nat /\ used * cycle < (projected + 1) * elapsed
    BY <1>2, <1>3, Quotient
<1>5. (allowance + 1) * cycle <= used * cycle /\ (allowance + 1) * cycle = allowance * cycle + cycle
    BY <1>3, ProductOrder
<1>6. projected > allowance
    <2>1. (allowance + 1) * elapsed <= (allowance + 1) * cycle
        <3>1. elapsed * (allowance + 1) <= cycle * (allowance + 1)
            BY <1>2, <1>3, ProductOrder
        <3> QED BY <1>2, <1>3, <3>1
    <2>2. (allowance + 1) * elapsed < (projected + 1) * elapsed
        <3>1. /\ (allowance + 1) * elapsed \in Int /\ (allowance + 1) * cycle \in Int
              /\ (projected + 1) * elapsed \in Int
            BY <1>2, <1>3, <1>4
        <3> QED BY <1>3, <1>4, <1>5, <2>1, <3>1
    <2>3. allowance + 1 < projected + 1
        BY <1>2, <1>4, <2>2, StrictOrder
    <2> QED BY <1>4, <2>3
<1>7. allowance * cycle < projected * elapsed
    <2>1. (projected + 1) * elapsed = projected * elapsed + elapsed
        BY <1>2, <1>4
    <2>2. projected * elapsed \in Int /\ allowance * cycle \in Int
        BY <1>2, <1>3, <1>4
    <2> QED BY <1>2, <1>3, <1>4, <1>5, <2>1, <2>2
<1>8. cycle * allowance < (past + 1) * (projected * DayHours)
    <2>1. elapsed * projected <= ((past + 1) * DayHours) * projected
        <3>1. (past + 1) * DayHours \in Int
            BY <1>1
        <3> QED BY <1>2, <1>4, <3>1, ProductOrder
    <2>2. ((past + 1) * DayHours) * projected = (past + 1) * (projected * DayHours)
        BY <1>1, <1>4
    <2>3. elapsed * projected = projected * elapsed /\ cycle * allowance = allowance * cycle
        BY <1>2, <1>3, <1>4
    <2>4. /\ (past + 1) * (projected * DayHours) \in Int /\ projected * elapsed \in Int
          /\ allowance * cycle \in Int
        BY <1>1, <1>2, <1>3, <1>4
    <2> QED BY <1>7, <2>1, <2>2, <2>3, <2>4
<1>9. projected * DayHours \in Nat /\ projected * DayHours > 0 /\ cycle * allowance \in Nat
    BY <1>1, <1>3, <1>4, <1>6
<1>10. (cycle * allowance) \div (projected * DayHours) <= past
    BY <1>1, <1>8, <1>9, AtMost
<1>11. (cycle * allowance) \div (projected * DayHours) \in Nat
    BY <1>9, Quotient
<1>12. start + (cycle * allowance) \div (projected * DayHours) <= start + past
    BY <1>1, <1>10, <1>11
<1> QED BY <1>6, <1>12 DEF cycle

-----------------------------------------------------------------------------
(* The calendar. *)

Last == Len(MonthStart)

LEMMA CalendarShape ==
    /\ Last \in Nat /\ Last > 2 /\ \A i \in 1..Last : MonthStart[i] \in Int
    /\ Months = 1..(Last - 1)
    /\ \A i \in 1..(Last - 1) : MonthStart[i] + ShortestMonth <= MonthStart[i+1]
    /\ ShortestMonth \in Nat /\ ShortestMonth > 0
<1> USE CalendarAssumption, CoverAssumption DEF Last, Months
<1>1. /\ Last \in Nat /\ Last > 2 /\ \A i \in 1..Last : MonthStart[i] \in Int
      /\ Months = 1..(Last - 1) /\ ShortestMonth \in Nat /\ ShortestMonth > 0
    OBVIOUS
<1>2. ASSUME NEW i \in 1..(Last - 1) PROVE MonthStart[i] + ShortestMonth <= MonthStart[i+1]
    <2>1. MonthStart[i+1] - MonthStart[i] \in ShortestMonth..LongestMonth
        OBVIOUS
    <2>2. MonthStart[i+1] \in Int /\ MonthStart[i] \in Int
        BY <1>1
    <2> QED BY <1>1, <2>1, <2>2
<1> QED BY <1>1, <1>2

LEMMA MonthsInOrder ==
    ASSUME NEW i \in 1..Last, NEW j \in 1..Last, i <= j
    PROVE  MonthStart[i] <= MonthStart[j]
<1> DEFINE S == {n \in i..Last : MonthStart[n] < MonthStart[i]}
<1>1. \A n \in 1..Last : MonthStart[n] \in Int
    BY CalendarShape
<1>2. Last \in Nat
    BY CalendarShape
<1>3. CASE S = {}
    BY <1>1, <1>2, <1>3
<1>4. CASE S # {}
    <2>1. PICK n \in S : \A y \in S : n <= y
        <3>1. S \subseteq Nat
            BY <1>2
        <3> HIDE DEF S
        <3> QED BY <1>4, <3>1, LeastOf
    <2>2. n # i /\ n \in i..Last /\ MonthStart[n] < MonthStart[i]
        BY <1>1, <1>2, <2>1
    <2>3. n - 1 \in i..Last /\ n - 1 \in 1..(Last - 1) /\ (n - 1) + 1 = n
        BY <1>2, <2>2
    <2>4. ~(MonthStart[n-1] < MonthStart[i])
        BY <1>2, <2>1, <2>3
    <2>5. MonthStart[n-1] + ShortestMonth <= MonthStart[(n-1) + 1]
        BY <2>3, CalendarShape
    <2>6. MonthStart[n-1] \in Int /\ MonthStart[n] \in Int /\ MonthStart[i] \in Int
        BY <1>1, <1>2, <2>2, <2>3
    <2> QED BY <2>2, <2>3, <2>4, <2>5, <2>6, CalendarShape
<1> QED BY <1>3, <1>4

(* A day is in one month.                                                  *)
LEMMA MonthFound ==
    ASSUME NEW t \in Int, NEW i \in Months, MonthStart[i] <= t, t < MonthStart[i+1]
    PROVE  MonthOf(t) = i
<1>1. Last \in Nat /\ Months = 1..(Last - 1) /\ \A n \in 1..Last : MonthStart[n] \in Int
    BY CalendarShape
<1>2. ASSUME NEW j \in Months, MonthStart[j] <= t, t < MonthStart[j+1] PROVE j = i
    <2>1. /\ i \in 1..Last /\ i+1 \in 1..Last /\ j \in 1..Last /\ j+1 \in 1..Last
          /\ MonthStart[i] \in Int /\ MonthStart[i+1] \in Int
          /\ MonthStart[j] \in Int /\ MonthStart[j+1] \in Int
        BY <1>1
    <2>2. ~(j + 1 <= i)
        BY <1>2, <2>1, MonthsInOrder
    <2>3. ~(i + 1 <= j)
        BY <1>2, <2>1, MonthsInOrder
    <2> QED BY <1>1, <2>2, <2>3
<1>3. MonthOf(t) \in Months /\ MonthStart[MonthOf(t)] <= t /\ t < MonthStart[MonthOf(t) + 1]
    BY DEF MonthOf
<1> QED BY <1>2, <1>3

(* A day of the history is in a month of the calendar, and not in its first.*)
LEMMA MonthExists ==
    ASSUME NEW t \in PastDays
    PROVE  /\ t \in Int /\ MonthOf(t) \in 2..(Last - 1)
           /\ MonthStart[MonthOf(t)] <= t /\ t < MonthStart[MonthOf(t) + 1]
<1>1. /\ Last \in Nat /\ Months = 1..(Last - 1) /\ \A n \in 1..Last : MonthStart[n] \in Int
      /\ Last > 2
    BY CalendarShape
<1>2. t \in Int /\ MonthStart[2] <= t /\ t < MonthStart[Last]
    <2>1. t \in 0..(MaxNow + MaxSkew) /\ MaxNow + MaxSkew \in Nat
        BY ClockAssumption DEF PastDays
    <2> QED BY <1>1, <2>1, CoverAssumption DEF Last
<1> DEFINE S == {n \in 1..Last : t < MonthStart[n]}
<1>3. Last \in S /\ S \subseteq Nat
    BY <1>1, <1>2
<1>4. PICK n \in S : \A y \in S : n <= y
    BY <1>3, LeastOf
<1>5. n > 2
    <2>1. ~(n <= 2)
        <3>1. n \in 1..Last /\ 2 \in 1..Last /\ t < MonthStart[n]
            BY <1>1
        <3>2. n <= 2 => MonthStart[n] <= MonthStart[2]
            BY <3>1, MonthsInOrder
        <3> QED BY <1>1, <1>2, <3>1, <3>2
    <2> QED BY <1>3, <2>1
<1>6. /\ n - 1 \in 2..(Last - 1) /\ n - 1 \in Months /\ (n - 1) + 1 = n
      /\ MonthStart[n-1] <= t /\ t < MonthStart[n]
    <2>1. n \in 1..Last /\ n - 1 \in 1..Last /\ n - 1 \notin S
        BY <1>1, <1>4, <1>5
    <2> QED BY <1>1, <1>2, <1>5, <2>1
<1>7. MonthOf(t) = n - 1
    BY <1>2, <1>6, MonthFound
<1> QED BY <1>2, <1>6, <1>7

(* The cycles.  One of them starts on each billing day of the calendar.    *)

LEMMA DateInMonth ==
    ASSUME NEW i \in Months, NEW k \in 1..ShortestMonth
    PROVE  /\ Date(i, k) \in Int /\ MonthStart[i] <= Date(i, k)
           /\ Date(i, k) < MonthStart[i+1] /\ MonthOf(Date(i, k)) = i
           /\ \A n \in Int : AddMonths(Date(i, k), n) = Date(i + n, k)
<1>1. /\ MonthStart[i] \in Int /\ MonthStart[i+1] \in Int
      /\ MonthStart[i] + ShortestMonth <= MonthStart[i+1] /\ ShortestMonth \in Nat
    BY CalendarShape
<1>2. /\ Date(i, k) \in Int /\ MonthStart[i] <= Date(i, k) /\ Date(i, k) < MonthStart[i+1]
      /\ Date(i, k) - MonthStart[i] + 1 = k
    BY <1>1 DEF Date
<1>3. MonthOf(Date(i, k)) = i
    BY <1>2, MonthFound
<1>4. \A n \in Int : AddMonths(Date(i, k), n) = Date(i + n, k)
    BY <1>2, <1>3, Zenon DEF AddMonths
<1> QED BY <1>2, <1>3, <1>4

LEMMA DatesInOrder ==
    ASSUME NEW i \in 1..Last, NEW j \in 1..Last, i <= j, NEW k \in 1..ShortestMonth
    PROVE  Date(i, k) <= Date(j, k) /\ Date(i, k) \in Int /\ Date(j, k) \in Int
<1>1. MonthStart[i] <= MonthStart[j] /\ MonthStart[i] \in Int /\ MonthStart[j] \in Int
    BY MonthsInOrder, CalendarShape
<1>2. k \in Int
    BY CalendarShape
<1> QED BY <1>1, <1>2 DEF Date

(* The cycle shown on a day starts on a billing day, ends on the next and  *)
(* contains the day.                                                       *)
LEMMA CycleShown ==
    ASSUME NEW t \in PastDays, NEW k \in 1..ShortestMonth
    PROVE  \E j \in Months :
              /\ CycleStart(t, k) = Date(j, k) /\ AddMonths(CycleStart(t, k), 1) = Date(j + 1, k)
              /\ Date(j, k) <= t /\ t < Date(j + 1, k)
<1> DEFINE m == MonthOf(t)
<1>1. /\ t \in Int /\ m \in 2..(Last - 1) /\ MonthStart[m] <= t /\ t < MonthStart[m+1]
    BY MonthExists
<1> HIDE DEF m
<1>2. Last \in Nat /\ Months = 1..(Last - 1) /\ \A n \in 1..Last : MonthStart[n] \in Int
    BY CalendarShape
<1>3. m \in Months /\ m - 1 \in Months /\ m + 1 \in 1..Last
    BY <1>1, <1>2
<1>4. CycleStart(t, k) = IF t < Date(m, k) THEN AddMonths(Date(m, k), -1) ELSE Date(m, k)
    BY Zenon DEF CycleStart, m
<1>5. CASE t < Date(m, k)
    <2>1. CycleStart(t, k) = Date(m - 1, k)
        <3>1. AddMonths(Date(m, k), -1) = Date(m + (-1), k)
            BY <1>3, DateInMonth
        <3>2. m + (-1) = m - 1
            BY <1>1
        <3> QED BY <1>4, <1>5, <3>1, <3>2
    <2>2. AddMonths(CycleStart(t, k), 1) = Date(m, k)
        <3>1. AddMonths(Date(m - 1, k), 1) = Date((m - 1) + 1, k)
            BY <1>3, DateInMonth
        <3>2. (m - 1) + 1 = m
            BY <1>1
        <3> QED BY <2>1, <3>1, <3>2
    <2>3. Date(m - 1, k) <= t
        <3>1. Date(m - 1, k) \in Int /\ Date(m - 1, k) < MonthStart[(m - 1) + 1] /\ (m - 1) + 1 = m
            BY <1>1, <1>3, DateInMonth
        <3> QED BY <1>1, <1>2, <1>3, <3>1
    <2>4. (m - 1) + 1 = m
        BY <1>1
    <2> QED BY <1>3, <1>5, <2>1, <2>2, <2>3, <2>4
<1>6. CASE ~(t < Date(m, k))
    <2>1. CycleStart(t, k) = Date(m, k) /\ AddMonths(CycleStart(t, k), 1) = Date(m + 1, k)
        BY <1>3, <1>4, <1>6, DateInMonth
    <2>2. Date(m, k) <= t
        BY <1>1, <1>3, <1>6, DateInMonth
    <2>3. t < Date(m + 1, k)
        <3>1. MonthStart[m+1] \in Int /\ k \in Int /\ k >= 1
            BY <1>2, <1>3, CalendarShape
        <3> QED BY <1>1, <3>1 DEF Date
    <2> QED BY <1>3, <2>1, <2>2, <2>3
<1> QED BY <1>5, <1>6

-----------------------------------------------------------------------------
(* Sums. *)

(* Induction over the subsets of a finite set, for a property that is the  *)
(* set of those that have it.                                              *)
LEMMA SubsetInduction ==
    ASSUME NEW T, IsFiniteSet(T), NEW Good,
           \A s \in SUBSET T : (\A u \in (SUBSET s) \ {s} : u \in Good) => s \in Good
    PROVE  \A s \in SUBSET T : s \in Good
<1> SUFFICES ASSUME NEW bad \in SUBSET T, bad \notin Good PROVE FALSE
    OBVIOUS
<1> DEFINE Bad == (SUBSET T) \ Good
           R == StrictSubsetOrdering(T)
<1>1. IsWellFoundedOn(R, SUBSET T)
    <2>1. IsWellFoundedOn(R, FiniteSubsetsOf(T))
        BY FS_StrictSubsetOrderingWellFounded
    <2>2. FiniteSubsetsOf(T) = SUBSET T
        BY FS_FiniteSubsetsOfFinite
    <2> QED BY <2>1, <2>2
<1>2. \A s, u \in SUBSET T : u \subseteq s /\ u # s => <<u, s>> \in R
    BY DEF StrictSubsetOrdering
<1> HIDE DEF R
<1>3. PICK s \in Bad : \A u \in Bad : ~(<<u, s>> \in R)
    <2>1. Bad \subseteq SUBSET T /\ Bad # {}
        OBVIOUS
    <2> HIDE DEF Bad
    <2>2. ASSUME NEW B, B \subseteq SUBSET T, B # {}
          PROVE  \E s \in B : \A u \in B : ~(<<u, s>> \in R)
        BY <1>1, <2>2, WFMin
    <2> QED BY <2>1, <2>2
<1>4. ASSUME NEW u \in (SUBSET s) \ {s} PROVE u \in Good
    <2>1. u \in SUBSET T /\ <<u, s>> \in R
        BY <1>2
    <2> QED BY <1>3, <2>1
<1> QED BY <1>4

(* The function by which the community modules define a sum.               *)
Solves(g, T, it) ==
    it = [s \in SUBSET T |-> IF s = {} THEN 0
                             ELSE g[CHOOSE x \in s : TRUE] + it[s \ {CHOOSE x \in s : TRUE}]]

LEMMA SumsAgree ==
    ASSUME NEW g, NEW h, NEW A, NEW B, NEW i, NEW j, Solves(g, A, i), Solves(h, B, j),
           NEW T, IsFiniteSet(T), T \subseteq A, T \subseteq B, \A x \in T : g[x] = h[x]
    PROVE  i[T] = j[T]
<1> DEFINE Good == {s \in SUBSET T : i[s] = j[s]}
<1>1. ASSUME NEW s \in SUBSET T, \A u \in (SUBSET s) \ {s} : u \in Good
      PROVE  s \in Good
    <2>1. CASE s = {}
        BY <2>1 DEF Solves
    <2>2. CASE s # {}
        <3> DEFINE x == CHOOSE x \in s : TRUE
        <3>1. x \in s
            BY <2>2
        <3>2. i[s] = g[x] + i[s \ {x}] /\ j[s] = h[x] + j[s \ {x}]
            <4>1. s \in SUBSET A /\ s \in SUBSET B
                OBVIOUS
            <4> QED BY <2>2, <4>1 DEF Solves
        <3> HIDE DEF x
        <3>3. s \ {x} \in Good
            BY <1>1, <3>1
        <3> QED BY <3>1, <3>2, <3>3
    <2> QED BY <2>1, <2>2
<1> HIDE DEF Good
<1>2. \A s \in SUBSET T : s \in Good
    BY <1>1, SubsetInduction
<1> QED BY <1>2 DEF Good

LEMMA SumExists ==
    ASSUME NEW g, NEW T, IsFiniteSet(T)
    PROVE  \E it : Solves(g, T, it)
<1> DEFINE Good == {s \in SUBSET T : \E it : Solves(g, s, it)}
<1>1. ASSUME NEW s \in SUBSET T, \A u \in (SUBSET s) \ {s} : u \in Good
      PROVE  s \in Good
    <2> DEFINE pick(u) == CHOOSE x \in u : TRUE
               of(u) == CHOOSE it : Solves(g, u, it)
               it == [u \in SUBSET s |-> IF u = {} THEN 0
                                         ELSE g[pick(u)] + of(u \ {pick(u)})[u \ {pick(u)}]]
    <2>1. \A u \in (SUBSET s) \ {s} : Solves(g, u, of(u))
        BY <1>1
    <2>2. \A u \in SUBSET s : u # {} => pick(u) \in u /\ u \ {pick(u)} \in (SUBSET s) \ {s}
        OBVIOUS
    <2> HIDE DEF of, pick
    <2>3. ASSUME NEW v \in (SUBSET s) \ {s}
          PROVE  it[v] = of(v)[v]
        <3>1. v \in SUBSET v /\ v \in SUBSET s /\ Solves(g, v, of(v))
            BY <2>1
        <3>2. CASE v = {}
            BY <3>1, <3>2 DEF Solves
        <3>3. CASE v # {}
            <4> DEFINE w == v \ {pick(v)}
            <4>1. w \in (SUBSET s) \ {s} /\ w \subseteq v
                BY <2>2, <3>3
            <4>2. IsFiniteSet(w)
                BY <4>1, FS_Subset
            <4>3. Solves(g, w, of(w))
                BY <2>1, <4>1
            <4>4. of(v)[v] = g[pick(v)] + of(v)[w]
                BY <3>1, <3>3 DEF Solves, pick
            <4>5. it[v] = g[pick(v)] + of(w)[w]
                BY <3>1, <3>3
            <4> HIDE DEF it, w
            <4>6. of(v)[w] = of(w)[w]
                BY <3>1, <4>1, <4>2, <4>3, SumsAgree
            <4> QED BY <4>4, <4>5, <4>6
        <3> QED BY <3>2, <3>3
    <2>4. Solves(g, s, it)
        <3>1. \A u \in SUBSET s : u # {} => of(u \ {pick(u)})[u \ {pick(u)}] = it[u \ {pick(u)}]
            BY <2>2, <2>3
        <3>2. it = [u \in SUBSET s |-> IF u = {} THEN 0
                                         ELSE g[pick(u)] + it[u \ {pick(u)}]]
            BY <3>1
        <3> QED BY <3>2 DEF Solves, pick
    <2> QED BY <2>4
<1> HIDE DEF Good
<1>2. \A s \in SUBSET T : s \in Good
    BY <1>1, SubsetInduction
<1> QED BY <1>2 DEF Good

LEMMA SumSolves ==
    ASSUME NEW g, NEW T, IsFiniteSet(T)
    PROVE  \E it : Solves(g, T, it) /\ SumFunctionOnSet(g, T) = it[T]
<1> DEFINE it[s \in SUBSET T] == IF s = {} THEN 0
                        ELSE LET x == CHOOSE y \in s : TRUE
                            IN  g[x] + it[s \ {x}]
<1>1. SumFunctionOnSet(g, T) = it[T]
  BY DEF SumFunctionOnSet, FoldFunctionOnSet, MapThenFoldSet
<1>2. \E i : i = [s \in SUBSET T |-> IF s = {} THEN 0
             ELSE g[CHOOSE x \in s : TRUE] + i[s \ {CHOOSE x \in s : TRUE}]]
  <2>1. \E i : Solves(g, T, i)
    BY SumExists
  <2> QED BY <2>1, Zenon DEF Solves
<1>3. it = [s \in SUBSET T |-> IF s = {} THEN 0
             ELSE g[CHOOSE x \in s : TRUE] + it[s \ {CHOOSE x \in s : TRUE}]]
  BY <1>2
<1> QED BY <1>1, <1>3 DEF Solves

LEMMA SumOfSubset ==
    ASSUME NEW g, NEW T, IsFiniteSet(T), NEW it, Solves(g, T, it), NEW s \in SUBSET T
    PROVE  SumFunctionOnSet(g, s) = it[s]
<1>1. IsFiniteSet(s)
    BY FS_Subset
<1>2. PICK i : Solves(g, s, i) /\ SumFunctionOnSet(g, s) = i[s]
    BY <1>1, SumSolves
<1>3. i[s] = it[s]
    BY <1>1, <1>2, SumsAgree
<1> QED BY <1>2, <1>3

LEMMA SumOfNone == ASSUME NEW g PROVE SumFunctionOnSet(g, {}) = 0
<1>1. PICK it : Solves(g, {}, it) /\ SumFunctionOnSet(g, {}) = it[{}]
    BY FS_EmptySet, SumSolves
<1>2. it[{}] = 0
    BY <1>1 DEF Solves
<1> QED BY <1>1, <1>2

(* A sum may be taken in any order: any summand can be split off.          *)
LEMMA SumSplits ==
    ASSUME NEW g, NEW T, IsFiniteSet(T), \A x \in T : g[x] \in Int
    PROVE  /\ SumFunctionOnSet(g, T) \in Int
           /\ \A x \in T : SumFunctionOnSet(g, T) = g[x] + SumFunctionOnSet(g, T \ {x})
<1>1. PICK it : Solves(g, T, it)
    BY SumExists
<1> DEFINE Good == {s \in SUBSET T : it[s] \in Int /\ \A x \in s : it[s] = g[x] + it[s \ {x}]}
<1>2. ASSUME NEW s \in SUBSET T, \A u \in (SUBSET s) \ {s} : u \in Good
      PROVE  s \in Good
    <2>1. CASE s = {}
        BY <1>1, <2>1 DEF Solves
    <2>2. CASE s # {}
        <3> DEFINE y == CHOOSE y \in s : TRUE
        <3>1. y \in s
            BY <2>2
        <3>2. it[s] = g[y] + it[s \ {y}]
            BY <1>1, <2>2 DEF Solves
        <3> HIDE DEF y
        <3>3. s \ {y} \in Good
            BY <1>2, <3>1
        <3>4. it[s \ {y}] \in Int /\ g[y] \in Int /\ it[s] \in Int
            BY <3>1, <3>2, <3>3
        <3>5. ASSUME NEW x \in s PROVE it[s] = g[x] + it[s \ {x}]
            <4>1. CASE x = y
                BY <3>2, <4>1
            <4>2. CASE x # y
                <5> DEFINE rest == (s \ {y}) \ {x}
                <5>1. s \ {x} \in Good /\ rest \in Good
                    BY <1>2, <3>1, <4>2
                <5>2. y \in s \ {x} /\ x \in s \ {y} /\ (s \ {x}) \ {y} = rest
                    BY <3>1, <4>2
                <5>3. it[s \ {y}] = g[x] + it[rest]
                    BY <3>3, <5>2
                <5>4. it[s \ {x}] = g[y] + it[rest]
                    BY <5>1, <5>2
                <5>5. it[rest] \in Int /\ g[x] \in Int
                    BY <5>1
                <5> HIDE DEF rest
                <5> QED BY <3>2, <3>4, <5>3, <5>4, <5>5
            <4> QED BY <4>1, <4>2
        <3> QED BY <3>4, <3>5
    <2> QED BY <2>1, <2>2
<1> HIDE DEF Good
<1>3. T \in Good
    BY <1>2, SubsetInduction
<1>4. it[T] \in Int /\ \A x \in T : it[T] = g[x] + it[T \ {x}]
    BY <1>3 DEF Good
<1>5. \A s \in SUBSET T : SumFunctionOnSet(g, s) = it[s]
    BY <1>1, SumOfSubset
<1>6. \A x \in T : T \ {x} \in SUBSET T
    OBVIOUS
<1> QED BY <1>4, <1>5, <1>6

(* Only the values on the set count.                                       *)
LEMMA SumOfSame ==
    ASSUME NEW g, NEW h, NEW T, IsFiniteSet(T), \A x \in T : g[x] = h[x]
    PROVE  SumFunctionOnSet(g, T) = SumFunctionOnSet(h, T)
<1>1. PICK i : Solves(g, T, i) /\ SumFunctionOnSet(g, T) = i[T]
    BY SumSolves
<1>2. PICK j : Solves(h, T, j) /\ SumFunctionOnSet(h, T) = j[T]
    BY SumSolves
<1>3. i[T] = j[T]
    BY <1>1, <1>2, SumsAgree
<1> QED BY <1>1, <1>2, <1>3

(* What is additive on disjoint sets is the sum of its parts.              *)
Additive(F, T) ==
    /\ F[{}] = 0
    /\ \A a, b \in SUBSET T : a \cap b = {} => F[a] \in Int /\ F[a \union b] = F[a] + F[b]

LEMMA SumOfParts ==
    ASSUME NEW T, NEW F, Additive(F, T), NEW P, IsFiniteSet(P), NEW part \in [P -> SUBSET T],
           \A p, q \in P : p # q => part[p] \cap part[q] = {},
           NEW g, \A p \in P : g[p] = F[part[p]],
           NEW all \in SUBSET T, \A x \in T : x \in all <=> \E p \in P : x \in part[p]
    PROVE  SumFunctionOnSet(g, P) = F[all]
<1> DEFINE covered(Q) == UNION {part[p] : p \in Q}
           Good == {Q \in SUBSET P : SumFunctionOnSet(g, Q) = F[covered(Q)]}
<1>1. ASSUME NEW Q \in SUBSET P, \A R \in (SUBSET Q) \ {Q} : R \in Good
      PROVE  Q \in Good
    <2>1. CASE Q = {}
        <3>1. covered(Q) = {}
            BY <2>1
        <3>2. SumFunctionOnSet(g, Q) = 0 /\ F[{}] = 0
            BY <2>1, SumOfNone DEF Additive
        <3> QED BY <3>1, <3>2
    <2>2. CASE Q # {}
        <3>1. PICK p \in Q : TRUE
            BY <2>2
        <3> DEFINE R == Q \ {p}
        <3>2. R \in Good
            BY <1>1
        <3>3. IsFiniteSet(Q) /\ \A x \in Q : g[x] \in Int
            <4>1. \A x \in P : F[part[x]] \in Int
                <5> SUFFICES ASSUME NEW x \in P PROVE F[part[x]] \in Int
                    OBVIOUS
                <5>1. part[x] \in SUBSET T /\ {} \in SUBSET T /\ part[x] \cap {} = {}
                    OBVIOUS
                <5> QED BY <5>1 DEF Additive
            <4> QED BY <4>1, FS_Subset
        <3>4. SumFunctionOnSet(g, Q) = g[p] + SumFunctionOnSet(g, R)
            BY <3>3, SumSplits
        <3>5. covered(Q) = part[p] \union covered(R)
            OBVIOUS
        <3>6. /\ part[p] \cap covered(R) = {} /\ part[p] \in SUBSET T
              /\ covered(R) \in SUBSET T /\ g[p] = F[part[p]]
            OBVIOUS
        <3>7. SumFunctionOnSet(g, R) = F[covered(R)]
            BY <3>2
        <3> HIDE DEF covered, R
        <3>8. F[covered(Q)] = F[part[p]] + F[covered(R)]
            <4>1. ASSUME NEW a \in SUBSET T, NEW b \in SUBSET T, a \cap b = {}
                  PROVE  F[a \union b] = F[a] + F[b]
                BY <4>1 DEF Additive
            <4>2. F[part[p] \union covered(R)] = F[part[p]] + F[covered(R)]
                BY <3>6, <4>1
            <4> QED BY <3>5, <4>2
        <3>9. SumFunctionOnSet(g, Q) = F[covered(Q)]
            BY <3>4, <3>6, <3>7, <3>8
        <3> QED BY <3>9
    <2> QED BY <2>1, <2>2
<1> HIDE DEF Good
<1>2. P \in Good
    BY <1>1, SubsetInduction
<1>3. all = covered(P)
    OBVIOUS
<1> QED BY <1>2, <1>3 DEF Good

(* A sum over a set is additive in that set.                               *)
LEMMA SumOfUnion ==
    ASSUME NEW g, NEW A, NEW B, IsFiniteSet(A), IsFiniteSet(B), A \cap B = {},
           \A x \in A \union B : g[x] \in Int
    PROVE  SumFunctionOnSet(g, A \union B) = SumFunctionOnSet(g, A) + SumFunctionOnSet(g, B)
<1> DEFINE Good == {s \in SUBSET B :
                       SumFunctionOnSet(g, A \union s)
                          = SumFunctionOnSet(g, A) + SumFunctionOnSet(g, s)}
<1>1. SumFunctionOnSet(g, A) \in Int
    BY SumSplits
<1>2. ASSUME NEW s \in SUBSET B, \A u \in (SUBSET s) \ {s} : u \in Good
      PROVE  s \in Good
    <2>1. CASE s = {}
        <3>1. A \union s = A
            BY <2>1
        <3> QED BY <1>1, <2>1, <3>1, SumOfNone
    <2>2. CASE s # {}
        <3>1. PICK x \in s : TRUE
            BY <2>2
        <3> DEFINE u == s \ {x}
                   all == A \union s
        <3>2. u \in Good
            BY <1>2
        <3>3. IsFiniteSet(s) /\ IsFiniteSet(u) /\ IsFiniteSet(all)
            BY FS_Subset, FS_Union
        <3>4. x \in all /\ all \ {x} = A \union u /\ g[x] \in Int
            OBVIOUS
        <3>5. SumFunctionOnSet(g, all) = g[x] + SumFunctionOnSet(g, all \ {x})
            BY <3>3, <3>4, SumSplits
        <3>6. SumFunctionOnSet(g, s) = g[x] + SumFunctionOnSet(g, u)
            BY <3>3, SumSplits
        <3>7. SumFunctionOnSet(g, u) \in Int
            BY <3>3, SumSplits
        <3>8. SumFunctionOnSet(g, A \union u)
                 = SumFunctionOnSet(g, A) + SumFunctionOnSet(g, u)
            BY <3>2
        <3>9. SumFunctionOnSet(g, all) = g[x] + SumFunctionOnSet(g, A \union u)
            BY <3>4, <3>5
        <3> HIDE DEF u, all
        <3>10. SumFunctionOnSet(g, all) = SumFunctionOnSet(g, A) + SumFunctionOnSet(g, s)
            BY <1>1, <3>4, <3>6, <3>7, <3>8, <3>9
        <3> QED BY <3>10 DEF all
    <2> QED BY <2>1, <2>2
<1> HIDE DEF Good
<1>3. B \in Good
    BY <1>2, SubsetInduction
<1> QED BY <1>3 DEF Good

LEMMA SumOfPairs ==
    ASSUME NEW g, NEW h, NEW k, NEW T, IsFiniteSet(T),
           \A x \in T : g[x] \in Int /\ h[x] \in Int /\ k[x] = g[x] + h[x]
    PROVE  SumFunctionOnSet(k, T) = SumFunctionOnSet(g, T) + SumFunctionOnSet(h, T)
<1> DEFINE Good == {s \in SUBSET T :
                       SumFunctionOnSet(k, s)
                          = SumFunctionOnSet(g, s) + SumFunctionOnSet(h, s)}
<1>1. ASSUME NEW s \in SUBSET T, \A u \in (SUBSET s) \ {s} : u \in Good
      PROVE  s \in Good
    <2>1. CASE s = {}
        BY <2>1, SumOfNone
    <2>2. CASE s # {}
        <3>1. PICK x \in s : TRUE
            BY <2>2
        <3> DEFINE u == s \ {x}
        <3>2. u \in Good
            BY <1>1
        <3>3. IsFiniteSet(s) /\ IsFiniteSet(u)
            BY FS_Subset
        <3>4. \A y \in s : g[y] \in Int /\ h[y] \in Int /\ k[y] \in Int
            OBVIOUS
        <3>5. /\ SumFunctionOnSet(g, s) = g[x] + SumFunctionOnSet(g, u)
              /\ SumFunctionOnSet(h, s) = h[x] + SumFunctionOnSet(h, u)
              /\ SumFunctionOnSet(k, s) = k[x] + SumFunctionOnSet(k, u)
            BY <3>3, <3>4, SumSplits
        <3>6. SumFunctionOnSet(g, u) \in Int /\ SumFunctionOnSet(h, u) \in Int
            BY <3>3, <3>4, SumSplits
        <3>7. SumFunctionOnSet(k, u) = SumFunctionOnSet(g, u) + SumFunctionOnSet(h, u)
            BY <3>2
        <3>8. g[x] \in Int /\ h[x] \in Int /\ k[x] = g[x] + h[x]
            OBVIOUS
        <3> HIDE DEF u
        <3>9. SumFunctionOnSet(k, s) = SumFunctionOnSet(g, s) + SumFunctionOnSet(h, s)
            BY <3>5, <3>6, <3>7, <3>8
        <3> QED BY <3>9
    <2> QED BY <2>1, <2>2
<1> HIDE DEF Good
<1>2. T \in Good
    BY <1>1, SubsetInduction
<1> QED BY <1>2 DEF Good

-----------------------------------------------------------------------------
(* Every reading is of a day of the history, and so is the end of every    *)
(* interval, which is after its first.                                     *)
DaysInv ==
    /\ now <= MaxNow
    /\ \A r \in readings : r.at \in PastDays
    /\ \A w \in Workers : /\ sample[w] # NoReading => sample[w].at \in PastDays
                          /\ previous[w] # NoReading => previous[w].at \in PastDays
    /\ \A i \in 1..Len(intervals) : intervals[i].ended \in PastDays /\ intervals[i].ended > 0

LEMMA WallInPast == TypeOK /\ DaysInv => Wall \in PastDays /\ Wall \in Int
BY ClockAssumption DEF TypeOK, DaysInv, Wall, PastDays

LEMMA DaysRecord ==
    ASSUME BaseInv, DaysInv, NEW w \in Workers, Record(w)
    PROVE  DaysInv'
<1> DEFINE s == sample[w]
           p == previous[w]
           x == UsageInterval(p, s)
<1>1. TypeOK /\ SampleInv
    BY DEF BaseInv
<1>2. s \in Reading /\ s.at \in PastDays
    <2>1. s # NoReading
        BY <1>1 DEF SampleInv, InTransaction, Record
    <2> QED BY <1>1, <2>1 DEF TypeOK, DaysInv
<1>3. /\ readings' = InsertReading(s)
      /\ \/ Advances(p, s) /\ intervals' = Append(intervals, x)
         \/ intervals' = intervals
      /\ sample' = [sample EXCEPT ![w] = NoReading]
      /\ previous' = [previous EXCEPT ![w] = NoReading]
      /\ now' = now
    BY DEF Record, clock
<1>4. ASSUME Advances(p, s) PROVE x.ended \in PastDays /\ x.ended > 0 /\ x \in Interval
    <2>1. p \in Reading /\ s.at > p.at
        BY <1>1, <1>4 DEF TypeOK, Advances
    <2>2. x.ended = s.at
        BY DEF UsageInterval
    <2>3. p.at \in Nat /\ s.at \in Nat
        BY <1>2, <2>1 DEF Reading
    <2> QED BY <1>2, <2>1, <2>2, <2>3, IntervalType
<1> HIDE DEF s, p, x
<1>5. \A r \in readings' : r.at \in PastDays
    BY <1>2, <1>3 DEF InsertReading, DaysInv
<1>6. \A v \in Workers : /\ sample'[v] # NoReading => sample'[v].at \in PastDays
                         /\ previous'[v] # NoReading => previous'[v].at \in PastDays
    <2>1. sample \in [Workers -> Reading \union {NoReading}]
        BY <1>1 DEF TypeOK
    <2>2. previous \in [Workers -> Reading \union {NoReading}]
        BY <1>1 DEF TypeOK
    <2> QED BY <1>3, <2>1, <2>2 DEF DaysInv
<1>7. \A i \in 1..Len(intervals') : intervals'[i].ended \in PastDays /\ intervals'[i].ended > 0
    <2>1. intervals \in Seq(Interval)
        BY <1>1 DEF TypeOK
    <2>2. CASE Advances(p, s) /\ intervals' = Append(intervals, x)
        <3>1. x \in Interval /\ x.ended \in PastDays /\ x.ended > 0
            BY <1>4, <2>2
        <3>2. /\ Len(intervals') = Len(intervals) + 1 /\ Len(intervals) \in Nat
              /\ intervals'[Len(intervals) + 1] = x
              /\ \A i \in 1..Len(intervals) : intervals'[i] = intervals[i]
            BY <2>1, <2>2, <3>1
        <3>3. \A i \in 1..Len(intervals') : i \in 1..Len(intervals) \/ i = Len(intervals) + 1
            BY <3>2
        <3> QED BY <3>1, <3>2, <3>3 DEF DaysInv
    <2>3. CASE intervals' = intervals
        BY <2>3 DEF DaysInv
    <2> QED BY <1>3, <2>2, <2>3
<1>8. now' <= MaxNow
    BY <1>3 DEF DaysInv
<1> QED BY <1>5, <1>6, <1>7, <1>8 DEF DaysInv

LEMMA DaysStep == BaseInv /\ DaysInv /\ [Next]_vars => DaysInv'
<1> SUFFICES ASSUME BaseInv, DaysInv, [Next]_vars PROVE DaysInv'
    OBVIOUS
<1>1. TypeOK /\ LatestInv
    BY DEF BaseInv
<1>2. now \in Nat /\ MaxNow \in Nat
    BY <1>1, ClockAssumption DEF TypeOK
<1>3. /\ sample \in [Workers -> Reading \union {NoReading}]
      /\ previous \in [Workers -> Reading \union {NoReading}]
    BY <1>1 DEF TypeOK
<1>4. ASSUME NEW d \in Direction, Traffic(d) PROVE DaysInv'
    BY <1>4 DEF DaysInv, Traffic, clock, tables
<1>5. CASE RouterRestart
    BY <1>2, <1>5 DEF DaysInv, RouterRestart, tables
<1>6. CASE WanRecords
    BY <1>2, <1>6, WanFrame DEF DaysInv, tables
<1>7. CASE Tick
    BY <1>2, <1>7 DEF DaysInv, Tick, tables
<1>8. CASE AdjustClock
    BY <1>8 DEF DaysInv, AdjustClock, tables
<1>9. ASSUME NEW w \in Workers, Start(w) PROVE DaysInv'
    BY <1>9 DEF DaysInv, Start, clock, tables
<1>10. ASSUME NEW w \in Workers, Stop(w) PROVE DaysInv'
    BY <1>3, <1>10 DEF DaysInv, Stop, clock, tables
<1>11. ASSUME NEW w \in Workers, LoseSession(w) PROVE DaysInv'
    BY <1>11 DEF DaysInv, LoseSession, clock, tables
<1>12. ASSUME NEW w \in Workers, PruneRawData(w) PROVE DaysInv'
    BY <1>12 DEF DaysInv, PruneRawData, clock
<1>13. ASSUME NEW w \in Workers, Sample(w) PROVE DaysInv'
    <2>1. ConnectionCounters.at \in PastDays
        BY <1>1, WallInPast DEF ConnectionCounters
    <2> HIDE DEF ConnectionCounters
    <2> QED BY <1>3, <1>13, <2>1 DEF DaysInv, Sample, clock, tables
<1>14. ASSUME NEW w \in Workers, SelectPrevious(w) PROVE DaysInv'
    <2>1. Latest = NoReading \/ Latest \in readings
        BY <1>1, LatestIn
    <2>2. Latest # NoReading => Latest.at \in PastDays
        BY <2>1 DEF DaysInv
    <2> QED BY <1>3, <1>14, <2>2 DEF DaysInv, SelectPrevious, clock, tables
<1>15. ASSUME NEW w \in Workers, LockPrevious(w) PROVE DaysInv'
    BY <1>3, <1>15 DEF DaysInv, LockPrevious, clock, tables
<1>16. ASSUME NEW w \in Workers, Record(w) PROVE DaysInv'
    BY <1>16, DaysRecord
<1>17. ASSUME NEW w \in Workers, Rollback(w) PROVE DaysInv'
    BY <1>3, <1>17 DEF DaysInv, Rollback, clock, tables
<1>18. CASE UNCHANGED vars
    BY <1>18 DEF DaysInv, vars, clock, tables
<1> QED BY ONLY <1>4, <1>5, <1>6, <1>7, <1>8, <1>9, <1>10, <1>11, <1>12, <1>13, <1>14, <1>15,
                <1>16, <1>17, <1>18, [Next]_vars DEF Next, Environment, Worker

LEMMA AlwaysInPast == Spec => [](TypeOK /\ DaysInv)
<1>1. Init => BaseInv /\ DaysInv
    <2>1. ASSUME Init PROVE BaseInv
        BY <2>1, TypeInit DEF BaseInv, LatestInv, Init
    <2>2. ASSUME Init PROVE DaysInv
        BY <2>2, ClockAssumption DEF Init, DaysInv
    <2> QED BY <2>1, <2>2
<1>2. BaseInv => TypeOK
    BY DEF BaseInv
<1>3. BaseInv /\ DaysInv /\ [Next]_vars => BaseInv' /\ DaysInv'
    BY BaseStep, DaysStep
<1> QED BY <1>1, <1>2, <1>3, PTL DEF Spec

-----------------------------------------------------------------------------
(* Whatever the billing day, the cycle shown contains the day it is shown  *)
(* on, and every interval counts towards exactly one of the cycles that    *)
(* are ever shown, one that ends on their boundary included (planUsage,    *)
(* SummarizeUsage).                                                        *)
LEMMA OneCycle ==
    ASSUME NEW k \in 1..ShortestMonth, NEW x, x.ended \in PastDays, x.ended > 0
    PROVE  Cardinality({c \in Cycles[k] : InWindow(x, c[1], c[2])}) = 1
<1> DEFINE e == x.ended
           between(j) == <<Date(j, k), Date(j + 1, k)>>
           chosen == {c \in Cycles[k] : InWindow(x, c[1], c[2])}
<1>1. e \in Int /\ e - 1 \in PastDays
    BY ClockAssumption DEF PastDays
<1>2. Last \in Nat /\ Months = 1..(Last - 1)
    BY CalendarShape
<1>3. Cycles[k] = {<<CycleStart(t, k), AddMonths(CycleStart(t, k), 1)>> : t \in PastDays}
    <2>1. k \in 1..LongestMonth
        <3>1. MonthStart[2] - MonthStart[1] \in ShortestMonth..LongestMonth
            BY <1>2, CalendarAssumption, CoverAssumption DEF Months, Last
        <3>2. MonthStart[2] - MonthStart[1] \in Int
            BY CalendarShape
        <3> QED BY <3>1, <3>2, CalendarAssumption
    <2> QED BY <2>1, Zenon DEF Cycles
<1>4. ASSUME NEW t \in PastDays
      PROVE  \E j \in Months : /\ <<CycleStart(t, k), AddMonths(CycleStart(t, k), 1)>> = between(j)
                               /\ Date(j, k) <= t /\ t < Date(j + 1, k)
    <2>1. PICK j \in Months :
             /\ CycleStart(t, k) = Date(j, k) /\ AddMonths(CycleStart(t, k), 1) = Date(j + 1, k)
             /\ Date(j, k) <= t /\ t < Date(j + 1, k)
        BY CycleShown
    <2> QED BY <2>1
<1>5. \A c \in Cycles[k] : \E j \in Months : c = between(j)
    BY <1>3, <1>4
<1>6. PICK j \in Months : /\ between(j) \in Cycles[k]
                          /\ Date(j, k) <= e - 1 /\ e - 1 < Date(j + 1, k)
    BY <1>1, <1>3, <1>4
<1>7. \A i \in Months : Date(i, k) \in Int /\ Date(i + 1, k) \in Int
    <2>1. \A i \in Months : i \in 1..Last /\ i + 1 \in 1..Last /\ i <= i + 1
        BY <1>2
    <2> QED BY <2>1, DatesInOrder
<1>8. Date(j, k) < e /\ e <= Date(j + 1, k)
    BY <1>1, <1>6, <1>7
<1>9. ASSUME NEW i \in Months, Date(i, k) < e, e <= Date(i + 1, k) PROVE i = j
    <2>1. i \in 1..Last /\ i + 1 \in 1..Last /\ j \in 1..Last /\ j + 1 \in 1..Last
        BY <1>2
    <2>2. ~(i + 1 <= j)
        BY <1>1, <1>7, <1>8, <1>9, <2>1, DatesInOrder
    <2>3. ~(j + 1 <= i)
        BY <1>1, <1>7, <1>8, <1>9, <2>1, DatesInOrder
    <2> QED BY <1>2, <2>2, <2>3
<1>10. \A i \in Months : InWindow(x, between(i)[1], between(i)[2]) <=>
                            Date(i, k) < e /\ e <= Date(i + 1, k)
    BY <1>1, <1>7 DEF InWindow
<1>11. chosen = {between(j)}
    BY <1>5, <1>6, <1>8, <1>9, <1>10
<1> QED BY <1>11, FS_Singleton

THEOREM ChargedOnce == Spec => []ChargedInOneCycle
<1>1. ASSUME TypeOK, DaysInv PROVE ChargedInOneCycle
    <2>1. Wall \in PastDays /\ Wall \in Int
        BY <1>1, WallInPast
    <2>2. ASSUME NEW k \in 1..LongestMonth, ValidBillingDay(k)
          PROVE  /\ CycleStart(Wall, k) <= Wall /\ Wall < AddMonths(CycleStart(Wall, k), 1)
                 /\ \A i \in 1..Len(intervals) :
                       Cardinality({c \in Cycles[k] : InWindow(intervals[i], c[1], c[2])}) = 1
        <3>1. k \in 1..ShortestMonth
            BY <2>2 DEF ValidBillingDay
        <3>2. CycleStart(Wall, k) <= Wall /\ Wall < AddMonths(CycleStart(Wall, k), 1)
            <4>1. PICK j \in Months :
                     /\ CycleStart(Wall, k) = Date(j, k)
                     /\ AddMonths(CycleStart(Wall, k), 1) = Date(j + 1, k)
                     /\ Date(j, k) <= Wall /\ Wall < Date(j + 1, k)
                BY <2>1, <3>1, CycleShown
            <4> QED BY <4>1
        <3>3. ASSUME NEW i \in 1..Len(intervals)
              PROVE  Cardinality({c \in Cycles[k] : InWindow(intervals[i], c[1], c[2])}) = 1
            <4>1. intervals[i].ended \in PastDays /\ intervals[i].ended > 0
                BY <1>1 DEF DaysInv
            <4> QED BY <3>1, <4>1, OneCycle
        <3> QED BY <3>2, <3>3
    <2> QED BY <2>2 DEF ChargedInOneCycle
<1> QED BY <1>1, AlwaysInPast, PTL

-----------------------------------------------------------------------------
(* A page of the plan, read some hours into a day of the history.          *)
LEMMA PageRead ==
    ASSUME NEW t \in PastDays, NEW page \in Pages[t]
    PROVE  \E length, past, h, used, allowance :
              /\ PlanNumbers(length, past, h)
              /\ used \in Nat /\ allowance \in Nat /\ allowance > 0
              /\ page.used = used /\ page.allowance = allowance
              /\ page.start \in Int /\ page.end = page.start + length /\ t = page.start + past
              /\ page.remaining = IF allowance > used THEN allowance - used ELSE 0
              /\ page.elapsed = past * DayHours + h
              /\ page.dailyBudget =
                    IF allowance > 0
                    THEN page.remaining \div RemainingDays((length - past) * DayHours - h) ELSE 0
              /\ LET projected == IF page.elapsed > 0
                                  THEN (used * length * DayHours) \div page.elapsed ELSE 0
                 IN  /\ page.warned = (allowance > 0 /\ projected > allowance)
                     /\ page.warned => page.exhaustion =
                           page.start + (length * DayHours * allowance) \div (projected * DayHours)
<1>1. t \in Int
    BY MonthExists
<1>2. PICK h \in {0, DayHours \div 2}, k \in {d \in 1..LongestMonth : ValidBillingDay(d)},
           allowance \in 1..MaxAllowance, used \in 0..MaxUsed :
              page = PlanPage(t, h, k, allowance, used)
    BY DEF Pages, PagesOn
<1>3. used \in Nat /\ allowance \in Nat /\ allowance > 0 /\ h \in Nat /\ h < DayHours
    <2>1. DayHours \in Nat /\ DayHours > 0 /\ MaxAllowance \in Nat /\ MaxUsed \in Nat
        BY ReportBounds
    <2>2. h \in Nat /\ h < DayHours
        BY <2>1
    <2> QED BY <2>1, <2>2
<1> DEFINE start == CycleStart(t, k)
           end == AddMonths(start, 1)
           length == end - start
           past == t - start
           elapsed == past * DayHours + h
           remaining == IF allowance > used THEN allowance - used ELSE 0
           days == RemainingDays((end - t) * DayHours - h)
           projected == IF elapsed > 0 THEN (used * length * DayHours) \div elapsed ELSE 0
           warned == allowance > 0 /\ projected > allowance
<1>4. start \in Int /\ end \in Int /\ start <= t /\ t < end
    <2>1. PICK j \in Months : /\ start = Date(j, k) /\ end = Date(j + 1, k)
                              /\ Date(j, k) <= t /\ t < Date(j + 1, k)
        BY <1>2, CycleShown DEF ValidBillingDay
    <2>2. j \in 1..Last /\ j + 1 \in 1..Last /\ j <= j + 1 /\ k \in 1..ShortestMonth
        BY CalendarShape DEF ValidBillingDay
    <2> QED BY <2>1, <2>2, DatesInOrder
<1>5. page = [start |-> start, end |-> end, allowance |-> allowance, used |-> used,
              remaining |-> remaining, elapsed |-> elapsed,
              remainingDays |-> days,
              dailyBudget |-> IF allowance > 0 THEN remaining \div days ELSE 0,
              warned |-> warned,
              exhaustion |-> IF warned THEN ExhaustionDate(start, end, elapsed, allowance, projected)
                             ELSE end]
    BY <1>2 DEF PlanPage
<1>6. ExhaustionDate(start, end, elapsed, allowance, projected)
         = start + (length * DayHours * allowance) \div (projected * DayHours)
    BY DEF ExhaustionDate
<1> HIDE DEF start, end
<1>7. PlanNumbers(length, past, h) /\ end = start + length /\ t = start + past
    BY <1>1, <1>3, <1>4 DEF PlanNumbers
<1>8. end - t = length - past
    BY <1>1, <1>4
<1>9. /\ page.start = start /\ page.end = end /\ page.allowance = allowance /\ page.used = used
      /\ page.remaining = remaining /\ page.elapsed = elapsed
      /\ page.dailyBudget = IF allowance > 0 THEN remaining \div days ELSE 0
    BY <1>5
<1>10. page.warned = warned
    BY <1>5, Zenon
<1>11. warned => page.exhaustion = start + (length * DayHours * allowance) \div (projected * DayHours)
    BY <1>5, <1>6
<1>12. days = RemainingDays((length - past) * DayHours - h)
    BY <1>8
<1>13. projected = IF page.elapsed > 0 THEN (used * length * DayHours) \div page.elapsed ELSE 0
    BY <1>9
<1>14. page.start \in Int /\ page.end = page.start + length /\ t = page.start + past
    BY <1>4, <1>7, <1>9
<1>15. page.remaining = (IF allowance > used THEN allowance - used ELSE 0)
    BY <1>9
<1>16. page.elapsed = past * DayHours + h
    BY <1>9
<1>17. page.dailyBudget =
          IF allowance > 0
          THEN page.remaining \div RemainingDays((length - past) * DayHours - h) ELSE 0
    BY <1>9, <1>12
<1> HIDE DEF length, past, elapsed, remaining, days, projected
<1>18. /\ page.warned = (allowance > 0 /\ projected > allowance)
       /\ page.warned => page.exhaustion =
             page.start + (length * DayHours * allowance) \div (projected * DayHours)
    BY <1>9, <1>10, <1>11, Zenon DEF warned
<1> HIDE DEF warned
<1> QED BY <1>3, <1>7, <1>9, <1>13, <1>14, <1>15, <1>16, <1>17, <1>18, Zenon

(* Whoever uses no more than the daily budget on each remaining day stays  *)
(* within the allowance, at any hour of any day (planUsage).               *)
THEOREM BudgetLasts == Spec => []SustainableBudget
<1>1. ASSUME TypeOK, DaysInv PROVE SustainableBudget
    <2>1. Wall \in PastDays /\ Wall \in Int
        BY <1>1, WallInPast
    <2>2. ASSUME NEW page \in Pages[Wall]
          PROVE  page.dailyBudget * (page.end - Wall) <= page.remaining
        <3>1. PICK length, past, h, used, allowance :
                 /\ PlanNumbers(length, past, h) /\ used \in Nat /\ allowance \in Nat
                 /\ page.start \in Int /\ page.end = page.start + length /\ Wall = page.start + past
                 /\ page.remaining = IF allowance > used THEN allowance - used ELSE 0
                 /\ page.dailyBudget =
                       IF allowance > 0
                       THEN page.remaining \div RemainingDays((length - past) * DayHours - h) ELSE 0
            BY <2>1, PageRead
        <3> DEFINE left == length - past
                   n == RemainingDays(left * DayHours - h)
        <3>2. left \in Nat /\ left > 0 /\ h \in Nat /\ h < DayHours /\ page.end - Wall = left
            BY <3>1 DEF PlanNumbers
        <3>3. page.remaining \in Nat
            BY <3>1
        <3>4. page.dailyBudget = IF allowance > 0 THEN page.remaining \div n ELSE 0
            BY <3>1
        <3> HIDE DEF left
        <3>5. n \in Nat /\ n > 0 /\ left <= n
            BY <3>2, DaysLeft
        <3> HIDE DEF n
        <3>6. (page.remaining \div n) * left <= page.remaining
            BY <3>2, <3>3, <3>5, SharesFit
        <3> QED BY <3>2, <3>3, <3>4, <3>6
    <2> QED BY <2>1, <2>2 DEF SustainableBudget, SustainableDays
<1> QED BY <1>1, AlwaysInPast, PTL

(* The projected exhaustion is not in the past while something is left and *)
(* not in the future once nothing is, however the divisions truncate       *)
(* (planUsage).                                                            *)
THEOREM BelievableDates == Spec => []BelievableExhaustion
<1>1. ASSUME TypeOK, DaysInv PROVE BelievableExhaustion
    <2>1. Wall \in PastDays /\ Wall \in Int
        BY <1>1, WallInPast
    <2>2. ASSUME NEW page \in Pages[Wall]
          PROVE  /\ page.warned /\ page.used < page.allowance => page.exhaustion >= Wall
                 /\ page.used > page.allowance /\ page.elapsed > 0 =>
                       page.warned /\ page.exhaustion <= Wall
        <3>1. PICK length, past, h, used, allowance :
                 /\ PlanNumbers(length, past, h)
                 /\ used \in Nat /\ allowance \in Nat /\ allowance > 0
                 /\ page.used = used /\ page.allowance = allowance
                 /\ page.start \in Int /\ page.end = page.start + length /\ Wall = page.start + past
                 /\ page.elapsed = past * DayHours + h
                 /\ LET projected == IF page.elapsed > 0
                                     THEN (used * length * DayHours) \div page.elapsed ELSE 0
                    IN  /\ page.warned = (allowance > 0 /\ projected > allowance)
                        /\ page.warned => page.exhaustion =
                              page.start + (length * DayHours * allowance) \div (projected * DayHours)
            BY <2>1, PageRead
        <3> DEFINE projected == IF page.elapsed > 0
                                THEN (used * length * DayHours) \div page.elapsed ELSE 0
        <3>2. /\ page.warned = (allowance > 0 /\ projected > allowance)
              /\ page.warned => page.exhaustion =
                    page.start + (length * DayHours * allowance) \div (projected * DayHours)
            BY <3>1, Zenon
        <3>3. page.warned <=> allowance > 0 /\ projected > allowance
            BY <3>2, Zenon
        <3>4. page.elapsed > 0 => projected = (used * length * DayHours) \div page.elapsed
            OBVIOUS
        <3>5. ~(page.elapsed > 0) => projected = 0
            OBVIOUS
        <3>6. page.elapsed \in Nat
            BY <3>1, ElapsedBounds
        <3>7. projected \in Nat
            <4>1. used * length * DayHours \in Nat
                <5>1. used \in Nat /\ length \in Nat /\ DayHours \in Nat
                    BY <3>1, ReportBounds DEF PlanNumbers
                <5> QED BY <5>1
            <4> QED BY <3>4, <3>5, <3>6, <4>1, Quotient
        <3> HIDE DEF projected
        <3>8. ASSUME page.warned, page.used < page.allowance PROVE page.exhaustion >= Wall
            <4>1. page.elapsed > 0 /\ projected > 0
                <5>1. allowance \in Nat /\ projected > allowance
                    BY <3>1, <3>3, <3>8
                <5>2. projected > 0
                    BY <3>7, <5>1
                <5> QED BY <3>5, <3>6, <5>2
            <4>2. page.start + past <=
                     page.start + (length * DayHours * allowance) \div (projected * DayHours)
                BY <3>1, <3>4, <3>8, <4>1, ExhaustedLater
            <4>3. Wall = page.start + past /\ page.exhaustion =
                     page.start + (length * DayHours * allowance) \div (projected * DayHours)
                BY <3>1, <3>2, <3>8
            <4> QED BY <4>2, <4>3
        <3>9. ASSUME page.used > page.allowance, page.elapsed > 0
              PROVE  page.warned /\ page.exhaustion <= Wall
            <4>1. /\ projected > allowance
                  /\ page.start + (length * DayHours * allowance) \div (projected * DayHours)
                        <= page.start + past
                BY <3>1, <3>4, <3>9, ExhaustedBefore
            <4>2. page.warned
                BY <3>1, <3>3, <4>1
            <4>3. Wall = page.start + past /\ page.exhaustion =
                     page.start + (length * DayHours * allowance) \div (projected * DayHours)
                BY <3>1, <3>2, <4>2
            <4> QED BY <4>1, <4>2, <4>3
        <3> QED BY <3>8, <3>9
    <2> QED BY <2>1, <2>2 DEF BelievableExhaustion, BelievableDays
<1> QED BY <1>1, AlwaysInPast, PTL

-----------------------------------------------------------------------------
(* What the pages sum. *)

Volume(d) == [i \in 1..Len(intervals) |-> intervals[i].bytes[d]]

Chosen == SUBSET (1..Len(intervals))

LEMMA BytesOfSums ==
    ASSUME TypeOK, NEW c \in Chosen
    PROVE  /\ IsFiniteSet(c)
           /\ \A d \in Direction : \A i \in 1..Len(intervals) : Volume(d)[i] \in Int
           /\ \A d \in Direction : SumFunctionOnSet(Volume(d), c) \in Int
           /\ BytesOf(c) = SumFunctionOnSet([d \in Direction |-> SumFunctionOnSet(Volume(d), c)],
                                            Direction)
<1>1. IsFiniteSet(c)
    <2>1. Len(intervals) \in Nat
        BY DEF TypeOK
    <2>2. IsFiniteSet(1..Len(intervals))
        BY <2>1, FS_Interval
    <2> QED BY <2>2, FS_Subset DEF Chosen
<1>2. ASSUME NEW d \in Direction, NEW i \in 1..Len(intervals)
      PROVE  Volume(d)[i] = intervals[i].bytes[d] /\ Volume(d)[i] \in Int
    <2>1. intervals[i] \in Interval
        BY DEF TypeOK
    <2>2. intervals[i].bytes \in [Direction -> Nat]
        BY <2>1 DEF Interval, Bytes
    <2> QED BY <2>2 DEF Volume
<1>3. \A d \in Direction : \A i \in 1..Len(intervals) : Volume(d)[i] \in Int
    BY <1>2
<1>4. ASSUME NEW d \in Direction
      PROVE  /\ SumFunctionOnSet(Volume(d), c) \in Int
             /\ SumFunction([i \in c |-> intervals[i].bytes[d]]) = SumFunctionOnSet(Volume(d), c)
    <2> DEFINE g == [i \in c |-> intervals[i].bytes[d]]
    <2>1. DOMAIN g = c /\ \A i \in c : g[i] = Volume(d)[i] /\ Volume(d)[i] \in Int
        BY <1>2 DEF Chosen
    <2>2. SumFunctionOnSet(Volume(d), c) \in Int
        BY <1>1, <2>1, SumSplits
    <2>3. SumFunction(g) = SumFunctionOnSet(g, c)
        BY <2>1 DEF SumFunction
    <2> HIDE DEF g
    <2>4. SumFunctionOnSet(g, c) = SumFunctionOnSet(Volume(d), c)
        BY <1>1, <2>1, SumOfSame
    <2> QED BY <2>2, <2>3, <2>4 DEF g
<1>5. BytesOf(c) = SumFunctionOnSet([d \in Direction |-> SumFunctionOnSet(Volume(d), c)], Direction)
    <2>1. [d \in Direction |-> SumFunction([i \in c |-> intervals[i].bytes[d]])]
             = [d \in Direction |-> SumFunctionOnSet(Volume(d), c)]
        BY <1>4
    <2> QED BY <2>1 DEF BytesOf, SumFunction
<1> QED BY <1>1, <1>3, <1>4, <1>5

(* The usage of disjoint sets of intervals adds up.                        *)
LEMMA BytesOfUnion ==
    ASSUME TypeOK
    PROVE  Additive([c \in Chosen |-> BytesOf(c)], 1..Len(intervals))
<1> DEFINE by(c) == [d \in Direction |-> SumFunctionOnSet(Volume(d), c)]
<1>1. \A c \in Chosen : BytesOf(c) = SumFunctionOnSet(by(c), Direction)
    BY BytesOfSums
<1>2. \A c \in Chosen : \A d \in Direction : by(c)[d] \in Int
    BY BytesOfSums
<1>3. IsFiniteSet(Direction)
    BY DirectionAssumption
<1>4. \A c \in Chosen : BytesOf(c) \in Int
    <2> SUFFICES ASSUME NEW c \in Chosen PROVE SumFunctionOnSet(by(c), Direction) \in Int
        BY <1>1
    <2>1. \A d \in Direction : by(c)[d] \in Int
        BY <1>2
    <2> HIDE DEF by
    <2> QED BY <1>3, <2>1, SumSplits
<1>5. ASSUME NEW a \in Chosen, NEW b \in Chosen, a \cap b = {}
      PROVE  BytesOf(a \union b) = BytesOf(a) + BytesOf(b)
    <2>1. a \union b \in Chosen
        BY DEF Chosen
    <2>2. \A d \in Direction : /\ by(a)[d] \in Int /\ by(b)[d] \in Int
                               /\ by(a \union b)[d] = by(a)[d] + by(b)[d]
        <3> SUFFICES ASSUME NEW d \in Direction
                     PROVE  SumFunctionOnSet(Volume(d), a \union b)
                               = SumFunctionOnSet(Volume(d), a) + SumFunctionOnSet(Volume(d), b)
            BY <1>2
        <3>1. /\ IsFiniteSet(a) /\ IsFiniteSet(b)
              /\ \A i \in 1..Len(intervals) : Volume(d)[i] \in Int
            BY BytesOfSums
        <3>2. \A i \in a \union b : Volume(d)[i] \in Int
            BY <3>1 DEF Chosen
        <3> QED BY <1>5, <3>1, <3>2, SumOfUnion
    <2> DEFINE g == by(a)
               h == by(b)
               k == by(a \union b)
    <2>3. /\ \A d \in Direction : g[d] \in Int /\ h[d] \in Int /\ k[d] = g[d] + h[d]
          /\ BytesOf(a) = SumFunctionOnSet(g, Direction)
          /\ BytesOf(b) = SumFunctionOnSet(h, Direction)
          /\ BytesOf(a \union b) = SumFunctionOnSet(k, Direction)
        BY <1>1, <2>1, <2>2
    <2> HIDE DEF g, h, k
    <2>4. SumFunctionOnSet(k, Direction)
             = SumFunctionOnSet(g, Direction) + SumFunctionOnSet(h, Direction)
        BY <1>3, <2>3, SumOfPairs
    <2> QED BY <2>3, <2>4
<1>6. BytesOf({}) = 0
    <2>1. {} \in Chosen
        BY DEF Chosen
    <2>2. BytesOf({} \union {}) = BytesOf({}) + BytesOf({})
        BY <1>5, <2>1
    <2> QED BY <1>4, <2>1, <2>2
<1> QED BY <1>4, <1>5, <1>6 DEF Additive, Chosen

LEMMA UsageIsWhole ==
    ASSUME TypeOK, NEW from, NEW end
    PROVE  SummarizeUsage(from, end) \in Int
<1> DEFINE F == [c \in Chosen |-> BytesOf(c)]
           chosen == IntervalsIn(from, end)
<1>1. Additive(F, 1..Len(intervals))
    BY BytesOfUnion
<1>2. chosen \in SUBSET (1..Len(intervals)) /\ {} \in SUBSET (1..Len(intervals))
    BY DEF IntervalsIn
<1>3. F[chosen] = BytesOf(chosen)
    BY <1>2 DEF Chosen
<1> HIDE DEF F, chosen
<1>4. chosen \cap {} = {}
    OBVIOUS
<1>5. F[chosen] \in Int
    BY <1>1, <1>2, <1>4 DEF Additive
<1> QED BY <1>3, <1>5 DEF SummarizeUsage, chosen

(* A set of intervals that is divided, be it by the day or the month, has  *)
(* the usage of its parts together.                                        *)
LEMMA BytesOfParts ==
    ASSUME TypeOK, NEW P, IsFiniteSet(P), NEW part \in [P -> Chosen],
           \A p, q \in P : p # q => part[p] \cap part[q] = {},
           NEW all \in Chosen, \A i \in 1..Len(intervals) : i \in all <=> \E p \in P : i \in part[p]
    PROVE  SumFunction([p \in P |-> BytesOf(part[p])]) = BytesOf(all)
<1> DEFINE F == [c \in Chosen |-> BytesOf(c)]
           g == [p \in P |-> BytesOf(part[p])]
<1>1. Additive(F, 1..Len(intervals))
    BY BytesOfUnion
<1>2. \A p \in P : g[p] = F[part[p]]
    OBVIOUS
<1>3. F[all] = BytesOf(all)
    OBVIOUS
<1>4. SumFunction(g) = SumFunctionOnSet(g, P)
    BY DEF SumFunction
<1> HIDE DEF F, g
<1>5. /\ part \in [P -> SUBSET (1..Len(intervals))]
      /\ all \in SUBSET (1..Len(intervals))
    BY DEF Chosen
<1>6. SumFunctionOnSet(g, P) = F[all]
    BY <1>1, <1>2, <1>5, SumOfParts
<1> QED BY <1>3, <1>4, <1>6 DEF g

(* The bars of a chart add up to the usage of its window, whatever they    *)
(* are grouped by.                                                         *)
LEMMA TotalOfPoints ==
    ASSUME TypeOK, NEW granularity, NEW from, NEW end
    PROVE  Total(UsagePoints(granularity, from, end)) = SummarizeUsage(from, end)
<1> DEFINE chosen == IntervalsIn(from, end)
           period == [i \in chosen |-> Truncate(granularity, intervals[i].ended)]
           P == {period[i] : i \in chosen}
           part == [p \in P |-> {i \in chosen : period[i] = p}]
<1>1. chosen \in Chosen
    BY DEF IntervalsIn, Chosen
<1>2. UsagePoints(granularity, from, end) = [p \in P |-> BytesOf(part[p])]
    BY DEF UsagePoints
<1>3. IsFiniteSet(chosen)
    BY <1>1, BytesOfSums
<1> HIDE DEF chosen
<1>4. IsFiniteSet(P)
    <2>1. period \in Surjection(chosen, P)
        BY DEF Surjection
    <2> QED BY <1>3, <2>1, FS_Surjection
<1>5. part \in [P -> Chosen] /\ \A p, q \in P : p # q => part[p] \cap part[q] = {}
    BY <1>1 DEF Chosen
<1>6. \A i \in 1..Len(intervals) : i \in chosen <=> \E p \in P : i \in part[p]
    <2>1. ASSUME NEW i \in chosen PROVE period[i] \in P /\ i \in part[period[i]]
        OBVIOUS
    <2>2. \A p \in P : part[p] \subseteq chosen
        OBVIOUS
    <2> HIDE DEF P, part
    <2> QED BY <2>1, <2>2
<1> HIDE DEF P, part
<1>7. SumFunction([p \in P |-> BytesOf(part[p])]) = BytesOf(chosen)
    BY <1>1, <1>4, <1>5, <1>6, BytesOfParts
<1> QED BY <1>2, <1>7 DEF Total, SummarizeUsage, chosen

(* A window that is cut in two at an instant.                              *)
LEMMA WindowsJoin ==
    ASSUME TypeOK, NEW a \in Int, NEW b \in Int, NEW c \in Int, a <= b, b <= c
    PROVE  SummarizeUsage(a, c) = SummarizeUsage(a, b) + SummarizeUsage(b, c)
<1>1. \A i \in 1..Len(intervals) : intervals[i].ended \in Int
    <2> SUFFICES ASSUME NEW i \in 1..Len(intervals) PROVE intervals[i].ended \in Int
        OBVIOUS
    <2>1. intervals[i] \in Interval
        BY DEF TypeOK
    <2> QED BY <2>1 DEF Interval
<1>2. /\ IntervalsIn(a, b) \in Chosen /\ IntervalsIn(b, c) \in Chosen
      /\ IntervalsIn(a, b) \cap IntervalsIn(b, c) = {}
      /\ IntervalsIn(a, c) = IntervalsIn(a, b) \union IntervalsIn(b, c)
    BY <1>1 DEF IntervalsIn, InWindow, Chosen
<1>3. ASSUME NEW s \in Chosen, NEW t \in Chosen, s \cap t = {}
      PROVE  BytesOf(s \union t) = BytesOf(s) + BytesOf(t)
    <2>1. s \union t \in Chosen
        BY DEF Chosen
    <2>2. s \in SUBSET (1..Len(intervals)) /\ t \in SUBSET (1..Len(intervals))
        BY DEF Chosen
    <2> DEFINE F == [u \in Chosen |-> BytesOf(u)]
    <2>3. Additive(F, 1..Len(intervals))
        BY BytesOfUnion
    <2>4. F[s] = BytesOf(s) /\ F[t] = BytesOf(t) /\ F[s \union t] = BytesOf(s \union t)
        BY <2>1
    <2> HIDE DEF F
    <2>5. F[s \union t] = F[s] + F[t]
        BY <1>3, <2>2, <2>3 DEF Additive
    <2> QED BY <2>4, <2>5
<1>4. BytesOf(IntervalsIn(a, b) \union IntervalsIn(b, c))
         = BytesOf(IntervalsIn(a, b)) + BytesOf(IntervalsIn(b, c))
    BY <1>2, <1>3
<1> QED BY <1>2, <1>4 DEF SummarizeUsage

(* The days of a window of whole days.                                     *)
LEMMA DaysOfWindow ==
    ASSUME TypeOK, NEW a \in Int, NEW b \in Int
    PROVE  SummarizeUsage(a, b) = SumFunction([t \in a..(b - 1) |-> Today(t)])
<1> DEFINE P == a..(b - 1)
           part == [t \in P |-> IntervalsIn(t, t + 1)]
<1>1. \A i \in 1..Len(intervals) : intervals[i].ended \in Int
    <2> SUFFICES ASSUME NEW i \in 1..Len(intervals) PROVE intervals[i].ended \in Int
        OBVIOUS
    <2>1. intervals[i] \in Interval
        BY DEF TypeOK
    <2> QED BY <2>1 DEF Interval
<1>2. \A t \in P : \A i \in 1..Len(intervals) :
          i \in part[t] <=> intervals[i].ended - 1 = t
    <2> SUFFICES ASSUME NEW t \in P, NEW i \in 1..Len(intervals)
                 PROVE  i \in IntervalsIn(t, t + 1) <=> intervals[i].ended - 1 = t
        OBVIOUS
    <2>1. t \in Int /\ intervals[i].ended \in Int
        BY <1>1
    <2>2. i \in IntervalsIn(t, t + 1)
             <=> intervals[i].ended > t /\ intervals[i].ended <= t + 1
        BY DEF IntervalsIn, InWindow
    <2> QED BY <2>1, <2>2
<1>3. part \in [P -> Chosen]
    BY DEF IntervalsIn, Chosen
<1>4. [t \in P |-> Today(t)] = [t \in P |-> BytesOf(part[t])]
    BY DEF Today, SummarizeUsage
<1>5. IsFiniteSet(P)
    BY FS_Interval
<1>6. \A i \in 1..Len(intervals) : i \in IntervalsIn(a, b) <=> intervals[i].ended - 1 \in P
    BY <1>1 DEF IntervalsIn, InWindow
<1> HIDE DEF part, P
<1>7. \A p, q \in P : p # q => part[p] \cap part[q] = {}
    BY <1>2, <1>3 DEF Chosen
<1>8. \A i \in 1..Len(intervals) : i \in IntervalsIn(a, b) <=> \E t \in P : i \in part[t]
    BY <1>2, <1>6
<1>9. IntervalsIn(a, b) \in Chosen
    BY DEF IntervalsIn, Chosen
<1>10. SumFunction([t \in P |-> BytesOf(part[t])]) = BytesOf(IntervalsIn(a, b))
    BY <1>3, <1>5, <1>7, <1>8, <1>9, BytesOfParts
<1> QED BY <1>4, <1>10 DEF SummarizeUsage, P

(* The cards agree with one another: every interval of the month is in one *)
(* of its days and one of its bars, and the two periods of a comparison    *)
(* meet in an instant that neither counts twice (month, daily,             *)
(* usageHistory).                                                          *)
THEOREM CardsAgree == Spec => []CardsAddUp
<1>1. ASSUME TypeOK, DaysInv PROVE CardsAddUp
    <2> DEFINE m == MonthOf(Wall)
               first == MonthStart[m]
               end == MonthStart[m + 1]
               days == first..(end - 1)
    <2>1. Wall \in PastDays /\ Wall \in Int
        BY <1>1, WallInPast
    <2>2. m \in 2..(Last - 1)
        BY <2>1, MonthExists
    <2>3. first \in Int /\ end \in Int
        BY <2>2, CalendarShape
    <2> HIDE DEF m, first, end
    <2>4. SummarizeUsage(first, end) = SumFunction([t \in days |-> Today(t)])
        BY <1>1, <2>3, DaysOfWindow
    <2>5. SummarizeUsage(first, end) = Total(Daily(first, end - 1))
        <3>1. (end - 1) + 1 = end
            BY <2>3
        <3> QED BY <1>1, <3>1, TotalOfPoints DEF Daily
    <2>6. ASSUME NEW from \in {t \in days : t <= Wall}
          PROVE  LET page == UsageHistory("day", from, Wall)
                     monthly == UsagePoints("month", from, Wall + 1)
                 IN  /\ page.total = Total(monthly)
                     /\ page.total + page.previous
                           = SummarizeUsage(from - (Wall + 1 - from), Wall + 1)
        <3> DEFINE before == from - (Wall + 1 - from)
                   to == Wall + 1
        <3>1. /\ from \in Int /\ to \in Int /\ before \in Int
              /\ from <= to /\ before <= from
            BY <2>1, <2>3
        <3>2. /\ UsageHistory("day", from, Wall).total = Total(UsagePoints("day", from, to))
              /\ UsageHistory("day", from, Wall).previous = SummarizeUsage(before, from)
            <4> DEFINE bars == Total(UsagePoints("day", from, to))
                       prior == SummarizeUsage(before, from)
            <4>1. UsageHistory("day", from, Wall) = [total |-> bars, previous |-> prior]
                <5>1. from - ((Wall + 1) - from) = before
                    BY <2>1, <2>3
                <5> HIDE DEF before
                <5> QED BY <5>1, Zenon DEF UsageHistory
            <4> HIDE DEF bars, prior
            <4>2. /\ UsageHistory("day", from, Wall).total = bars
                  /\ UsageHistory("day", from, Wall).previous = prior
                BY <4>1
            <4> QED BY <4>2 DEF bars, prior
        <3> HIDE DEF before, to
        <3>3. /\ Total(UsagePoints("day", from, to)) = SummarizeUsage(from, to)
              /\ Total(UsagePoints("month", from, to)) = SummarizeUsage(from, to)
            BY <1>1, TotalOfPoints
        <3>4. SummarizeUsage(before, to) = SummarizeUsage(before, from) + SummarizeUsage(from, to)
            BY <1>1, <3>1, WindowsJoin
        <3>5. SummarizeUsage(before, from) \in Int /\ SummarizeUsage(from, to) \in Int
            BY <1>1, UsageIsWhole
        <3> QED BY <3>2, <3>3, <3>4, <3>5 DEF before, to
    <2> QED BY <2>4, <2>5, <2>6 DEF CardsAddUp, MonthUsage, m, first, end
<1> QED BY <1>1, AlwaysInPast, PTL

-----------------------------------------------------------------------------
(* What is shown and what was carried. *)

LEMMA SumOfNats ==
    ASSUME NEW g, NEW T, IsFiniteSet(T), \A x \in T : g[x] \in Nat
    PROVE  SumFunctionOnSet(g, T) \in Nat
<1> DEFINE Good == {s \in SUBSET T : SumFunctionOnSet(g, s) \in Nat}
<1>1. ASSUME NEW s \in SUBSET T, \A u \in (SUBSET s) \ {s} : u \in Good
      PROVE  s \in Good
    <2>1. CASE s = {}
        BY <2>1, SumOfNone
    <2>2. CASE s # {}
        <3>1. PICK x \in s : TRUE
            BY <2>2
        <3>2. IsFiniteSet(s) /\ (\A y \in s : g[y] \in Int) /\ g[x] \in Nat
            BY FS_Subset
        <3>3. SumFunctionOnSet(g, s) = g[x] + SumFunctionOnSet(g, s \ {x})
            BY <3>2, SumSplits
        <3>4. SumFunctionOnSet(g, s \ {x}) \in Nat
            BY <1>1
        <3> QED BY <3>2, <3>3, <3>4
    <2> QED BY <2>1, <2>2
<1> HIDE DEF Good
<1>2. T \in Good
    BY <1>1, SubsetInduction
<1> QED BY <1>2 DEF Good

LEMMA SumOfMore ==
    ASSUME NEW g, NEW h, NEW T, IsFiniteSet(T),
           \A x \in T : g[x] \in Int /\ h[x] \in Int /\ g[x] <= h[x]
    PROVE  SumFunctionOnSet(g, T) <= SumFunctionOnSet(h, T)
<1> DEFINE rest == [x \in T |-> h[x] - g[x]]
<1>1. \A x \in T : rest[x] \in Nat /\ rest[x] \in Int /\ h[x] = g[x] + rest[x]
    OBVIOUS
<1> HIDE DEF rest
<1>2. SumFunctionOnSet(h, T) = SumFunctionOnSet(g, T) + SumFunctionOnSet(rest, T)
    BY <1>1, SumOfPairs
<1>3. SumFunctionOnSet(rest, T) \in Nat
    BY <1>1, SumOfNats
<1>4. SumFunctionOnSet(g, T) \in Int
    BY SumSplits
<1> QED BY <1>2, <1>3, <1>4

(* What has been charged is what the table holds.                          *)
TableIsBilled ==
    \A d \in Direction : billed[d] = SumFunctionOnSet(Volume(d), 1..Len(intervals))

LEMMA TableInit == Init => TableIsBilled
<1> SUFFICES ASSUME Init, NEW d \in Direction
             PROVE  billed[d] = SumFunctionOnSet(Volume(d), 1..Len(intervals))
    BY DEF TableIsBilled
<1>1. billed[d] = 0 /\ Len(intervals) = 0
    BY DEF Init, Zero
<1>2. 1..Len(intervals) = {}
    BY <1>1
<1> QED BY <1>1, <1>2, SumOfNone

LEMMA TableRecord ==
    ASSUME TypeOK, TypeOK', TableIsBilled, NEW x,
           intervals' = Append(intervals, x),
           billed' = [d \in Direction |-> billed[d] + x.bytes[d]]
    PROVE  TableIsBilled'
<1> DEFINE n == Len(intervals)
<1>1. /\ n \in Nat /\ Len(intervals') = n + 1 /\ intervals'[n + 1] = x
      /\ \A i \in 1..n : intervals'[i] = intervals[i]
    BY DEF TypeOK
<1> SUFFICES ASSUME NEW d \in Direction
             PROVE  billed'[d] = SumFunctionOnSet(Volume(d)', 1..Len(intervals'))
    BY DEF TableIsBilled
<1> DEFINE g == Volume(d)
           h == Volume(d)'
           all == 1..(n + 1)
           before == 1..n
<1>2. /\ \A i \in before : h[i] = g[i]
      /\ h[n + 1] = x.bytes[d]
    BY <1>1 DEF Volume
<1>3. \A i \in all : h[i] \in Int
    <2> SUFFICES ASSUME NEW i \in 1..Len(intervals') PROVE intervals'[i].bytes[d] \in Int
        BY <1>1 DEF Volume
    <2>1. intervals'[i] \in Interval
        BY DEF TypeOK
    <2>2. intervals'[i].bytes \in [Direction -> Nat]
        BY <2>1 DEF Interval, Bytes
    <2> QED BY <2>2
<1>4. /\ IsFiniteSet(all) /\ IsFiniteSet(before)
      /\ n + 1 \in all /\ all \ {n + 1} = before
    BY <1>1, FS_Interval
<1>5. billed[d] = SumFunctionOnSet(g, before)
    BY DEF TableIsBilled
<1>6. billed'[d] = billed[d] + x.bytes[d] /\ billed[d] \in Nat
    BY DEF TypeOK, Bytes
<1>7. Len(intervals') = n + 1
    BY <1>1
<1> HIDE DEF n, g, h, all, before
<1>8. SumFunctionOnSet(h, all) = h[n + 1] + SumFunctionOnSet(h, before)
    BY <1>3, <1>4, SumSplits
<1>9. SumFunctionOnSet(h, before) = SumFunctionOnSet(g, before)
    BY <1>2, <1>4, SumOfSame
<1>10. h[n + 1] \in Int
    BY <1>3, <1>4
<1>11. billed'[d] = SumFunctionOnSet(h, all)
    BY <1>2, <1>5, <1>6, <1>8, <1>9, <1>10
<1> QED BY <1>7, <1>11 DEF h, all

LEMMA TableStep == TypeOK /\ TypeOK' /\ TableIsBilled /\ [Next]_vars => TableIsBilled'
<1> SUFFICES ASSUME TypeOK, TypeOK', TableIsBilled, [Next]_vars PROVE TableIsBilled'
    OBVIOUS
<1>1. CASE UNCHANGED <<intervals, billed>>
    BY <1>1 DEF TableIsBilled, Volume
<1>2. ASSUME NEW w \in Workers, Record(w) PROVE TableIsBilled'
    <2> DEFINE x == UsageInterval(previous[w], sample[w])
    <2>1. CASE /\ intervals' = Append(intervals, x)
               /\ billed' = [d \in Direction |-> billed[d] + x.bytes[d]]
        <3> HIDE DEF x
        <3> QED BY <2>1, TableRecord
    <2> QED BY <1>1, <1>2, <2>1, Zenon DEF Record
<1>3. CASE \E w \in Workers : \/ Start(w) \/ Stop(w) \/ LoseSession(w) \/ PruneRawData(w)
                              \/ Sample(w) \/ SelectPrevious(w) \/ LockPrevious(w) \/ Rollback(w)
    BY <1>1, <1>3 DEF Start, Stop, LoseSession, PruneRawData, Sample, SelectPrevious,
                      LockPrevious, Rollback, tables
<1>4. CASE Environment
    BY <1>1, <1>4, WanFrame DEF Environment, Traffic, RouterRestart, Tick, AdjustClock, tables
<1>5. CASE UNCHANGED vars
    BY <1>1, <1>5 DEF vars, tables
<1> QED BY <1>2, <1>3, <1>4, <1>5 DEF Next, Worker

LEMMA AlwaysTable == Spec => []TableIsBilled
<1>1. TypeOK /\ TypeOK' /\ TableIsBilled /\ [Next]_vars => TableIsBilled'
    BY TableStep
<1> QED BY <1>1, TableInit, TypeCorrect, PTL DEF Spec

(* No window of any page shows more than the router carried, the two       *)
(* directions together.                                                    *)
ShownIsCarried ==
    \A from, end \in Int : SummarizeUsage(from, end) <= SumFunction(carried)

(* From the counters to the page: whatever window a card, a bar or a plan  *)
(* sums, it shows no more than what went through the router                *)
(* (RecordConnectionReading, SummarizeUsage).                              *)
THEOREM ShownWasCarried ==
    ~SessionMayDrop /\ ~PartialResets => (Spec => []ShownIsCarried)
<1> SUFFICES ASSUME ~SessionMayDrop, ~PartialResets PROVE Spec => []ShownIsCarried
    OBVIOUS
<1>1. ASSUME TypeOK, TableIsBilled, NeverOvercounts PROVE ShownIsCarried
    <2> SUFFICES ASSUME NEW from \in Int, NEW end \in Int
                 PROVE  SummarizeUsage(from, end) <= SumFunction(carried)
        BY DEF ShownIsCarried
    <2> DEFINE c == IntervalsIn(from, end)
               rows == 1..Len(intervals)
               shown == [d \in Direction |-> SumFunctionOnSet(Volume(d), c)]
    <2>1. c \in Chosen /\ rows \in Chosen /\ c \subseteq rows
        BY DEF IntervalsIn, Chosen
    <2>2. SummarizeUsage(from, end) = SumFunctionOnSet(shown, Direction)
        BY <1>1, <2>1, BytesOfSums DEF SummarizeUsage
    <2>3. carried \in [Direction -> Nat]
        BY <1>1 DEF TypeOK, Bytes
    <2>4. SumFunction(carried) = SumFunctionOnSet(carried, Direction)
        BY <2>3 DEF SumFunction
    <2>5. ASSUME NEW d \in Direction
          PROVE  shown[d] \in Int /\ carried[d] \in Int /\ shown[d] <= carried[d]
        <3> DEFINE rest == rows \ c
        <3>1. /\ rest \in Chosen /\ c \cap rest = {} /\ c \union rest = rows
            BY <2>1 DEF Chosen
        <3>2. /\ IsFiniteSet(c) /\ IsFiniteSet(rest)
              /\ SumFunctionOnSet(Volume(d), c) \in Int
            BY <1>1, <2>1, <3>1, BytesOfSums
        <3>3. \A i \in rows : Volume(d)[i] \in Nat
            <4> SUFFICES ASSUME NEW i \in rows PROVE intervals[i].bytes[d] \in Nat
                BY DEF Volume
            <4>1. intervals[i] \in Interval
                BY <1>1 DEF TypeOK
            <4> QED BY <4>1 DEF Interval, Bytes
        <3>4. billed[d] = SumFunctionOnSet(Volume(d), rows) /\ billed[d] <= carried[d]
            BY <1>1 DEF TableIsBilled, NeverOvercounts
        <3> DEFINE g == Volume(d)
        <3> HIDE DEF c, rows, rest, g
        <3>5. SumFunctionOnSet(g, c \union rest) = SumFunctionOnSet(g, c) + SumFunctionOnSet(g, rest)
            <4>1. \A i \in c \union rest : g[i] \in Int
                BY <3>1, <3>3 DEF g
            <4> QED BY <3>1, <3>2, <4>1, SumOfUnion
        <3>6. SumFunctionOnSet(g, rest) \in Nat
            <4>1. \A i \in rest : g[i] \in Nat
                BY <3>1, <3>3 DEF g
            <4> QED BY <3>2, <4>1, SumOfNats
        <3>7. carried[d] \in Nat /\ billed[d] \in Nat
            BY <1>1 DEF TypeOK, Bytes
        <3>8. SumFunctionOnSet(g, c) <= carried[d] /\ SumFunctionOnSet(g, c) \in Int
            BY <3>1, <3>2, <3>4, <3>5, <3>6, <3>7 DEF g
        <3> QED BY <3>7, <3>8 DEF g
    <2>6. IsFiniteSet(Direction)
        BY DirectionAssumption
    <2> HIDE DEF shown
    <2>7. SumFunctionOnSet(shown, Direction) <= SumFunctionOnSet(carried, Direction)
        BY <2>5, <2>6, SumOfMore
    <2> QED BY <2>2, <2>4, <2>7
<1>2. Spec => []NeverOvercounts
    BY NoOvercounting
<1> QED BY <1>1, <1>2, TypeCorrect, AlwaysTable, PTL
=============================================================================
