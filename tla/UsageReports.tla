---------------------------- MODULE UsageReports ----------------------------
(***************************************************************************)
(* What the API reports of the history ingestion writes: sums over windows *)
(* of usage_intervals (store/usage.go, httpapi/usage_handlers.go) and the  *)
(* page of the data plan (httpapi/plan_handlers.go).  A tick of Ingestion  *)
(* is a day here, and a reading is taken exactly at midnight: the boundary *)
(* case is the only case.  The page is read at midnight or some hours      *)
(* later.  Any plan may be in the table at any time, so the plan is a      *)
(* parameter; the API's clock is the worker's, Wall.                       *)
(***************************************************************************)
EXTENDS Ingestion, FiniteSets, Functions

CONSTANTS
    MonthStart,   \* the day on which each month of the calendar starts
    ShortestMonth,\* 28, in the days of that calendar
    LongestMonth, \* 31
    DayHours,     \* 24
    MaxAllowance, \* bound: allowance_bytes
    MaxUsed       \* bound: bytes used in a cycle

Months == 1..(Len(MonthStart) - 1)

ASSUME CalendarAssumption ==
    /\ MonthStart \in Seq(Int)
    /\ ShortestMonth \in Nat \ {0} /\ LongestMonth \in Nat
    /\ \A i \in Months :
          MonthStart[i+1] - MonthStart[i] \in ShortestMonth..LongestMonth
(* It begins a month before the first day and ends after the last.         *)
ASSUME CoverAssumption ==
    Len(MonthStart) > 2 /\ MonthStart[2] <= 0 /\ MaxNow + MaxSkew < MonthStart[Len(MonthStart)]
ASSUME DirectionAssumption == IsFiniteSet(Direction)
ASSUME ReportBounds == DayHours \in Nat \ {0} /\ MaxAllowance \in Nat /\ MaxUsed \in Nat

-----------------------------------------------------------------------------
(* Sums over windows. *)

(* mutant: closed at both ends.                                            *)
InClosedWindow(interval, from, to) == interval.ended >= from /\ interval.ended <= to

(* "ended_at>$2 and ended_at<=$3".                                         *)
InWindow(interval, from, to) == interval.ended > from /\ interval.ended <= to

IntervalsIn(from, to) == {i \in 1..Len(intervals) : InWindow(intervals[i], from, to)}

(* Both directions together, as the pages show them.                       *)
BytesOf(chosen) ==
    SumFunction([d \in Direction |-> SumFunction([i \in chosen |-> intervals[i].bytes[d]])])

SummarizeUsage(from, to) == BytesOf(IntervalsIn(from, to))

Today(t) == SummarizeUsage(t, t + 1)

MonthUsage(i) == SummarizeUsage(MonthStart[i], MonthStart[i+1])

MonthOf(t) == CHOOSE i \in Months : MonthStart[i] <= t /\ t < MonthStart[i+1]

(* date_trunc of ended_at, by the day or the month.                       *)
Truncate(granularity, t) ==
    IF granularity = "day" THEN t ELSE MonthStart[MonthOf(t)]

(* The bars: "group by 1", so there is none without an interval.           *)
UsagePoints(granularity, from, end) ==
    LET chosen == IntervalsIn(from, end)
        period(i) == Truncate(granularity, intervals[i].ended)
    IN  [p \in {period(i) : i \in chosen} |-> BytesOf({i \in chosen : period(i) = p})]

(* The handlers add the bars up.                                           *)
Total(points) == SumFunction(points)

(* The table of the days from..to.                                         *)
Daily(from, to) == UsagePoints("day", from, to + 1)

(* The chart of the days from..to, and the period it is compared with.     *)
UsageHistory(granularity, from, to) ==
    LET end == to + 1
        duration == end - from
        points == UsagePoints(granularity, from, end)
    IN  [total |-> Total(points),
         previous |-> SummarizeUsage(from - duration, from)]

(* The data plan. *)

(* mutant: any day a month can have.                                       *)
AnyDayOfMonth(k) == k \in 1..LongestMonth

ValidBillingDay(k) == k \in 1..ShortestMonth

(* time.Date and AddDate(0, n, 0): a day beyond the end of its month is a  *)
(* day of the next one.                                                    *)
Date(i, k) == MonthStart[i] + k - 1

AddMonths(t, n) == Date(MonthOf(t) + n, t - MonthStart[MonthOf(t)] + 1)

CycleStart(t, k) ==
    LET start == Date(MonthOf(t), k)
    IN  IF t < start THEN AddMonths(start, -1) ELSE start

(* mutant: the day that is running is not counted.                         *)
WholeDays(hours) == IF hours \div DayHours > 1 THEN hours \div DayHours ELSE 1

(* "max(int(end.Sub(now).Hours()/24)+1, 1)".                               *)
RemainingDays(hours) ==
    LET days == (hours \div DayHours) + 1 IN IF days > 1 THEN days ELSE 1

(* mutant: the day the allowance would last to at this rate, as a share of *)
(* the time that is left.                                                  *)
ExhaustionOfRest(start, end, elapsed, allowance, projected) ==
    start + (((end - start) * DayHours - elapsed) * allowance) \div (projected * DayHours)

(* "start.Add(end.Sub(start) * allowance / projected)", as a date.         *)
ExhaustionDate(start, end, elapsed, allowance, projected) ==
    start + ((end - start) * DayHours * allowance) \div (projected * DayHours)

(* The answer of planUsage, h hours into day t.                            *)
PlanPage(t, h, k, allowance, used) ==
    LET start     == CycleStart(t, k)
        end       == AddMonths(start, 1)
        remaining == IF allowance > used THEN allowance - used ELSE 0
        elapsed   == (t - start) * DayHours + h
        projected == IF elapsed > 0 THEN (used * (end - start) * DayHours) \div elapsed ELSE 0
        warned    == allowance > 0 /\ projected > allowance
    IN  [start |-> start, end |-> end, allowance |-> allowance, used |-> used,
         remaining |-> remaining, elapsed |-> elapsed,
         remainingDays |-> RemainingDays((end - t) * DayHours - h),
         dailyBudget |-> IF allowance > 0
                         THEN remaining \div RemainingDays((end - t) * DayHours - h) ELSE 0,
         warned |-> warned,
         exhaustion |-> IF warned
                        THEN ExhaustionDate(start, end, elapsed, allowance, projected) ELSE end]

-----------------------------------------------------------------------------
(* The days on which a page may be read, and the cycles shown on them.      *)
PastDays == 0..(MaxNow + MaxSkew)

Cycles ==
    [k \in 1..LongestMonth |->
        {<<CycleStart(t, k), AddMonths(CycleStart(t, k), 1)>> : t \in PastDays}]

(* Whatever the billing day, the cycles the page shows from day to day     *)
(* contain the day they are shown on and divide the history: every         *)
(* interval counts towards exactly one of them, one that ends on the       *)
(* boundary included (planUsage, SummarizeUsage).                          *)
ChargedInOneCycle ==
    \A k \in 1..LongestMonth : ValidBillingDay(k) =>
        /\ CycleStart(Wall, k) <= Wall /\ Wall < AddMonths(CycleStart(Wall, k), 1)
        /\ \A i \in 1..Len(intervals) :
              Cardinality({c \in Cycles[k] : InWindow(intervals[i], c[1], c[2])}) = 1

(* The cards agree: the month is the sum of its days and of the table of   *)
(* its days, a chart by the day and one by the month show the same total,  *)
(* and with the period it is compared with it adds up to the usage of both *)
(* together (today, month, daily, usageHistory).                           *)
CardsAddUp ==
    LET i == MonthOf(Wall)
        days == MonthStart[i]..(MonthStart[i+1] - 1)
    IN  /\ MonthUsage(i) = SumFunction([t \in days |-> Today(t)])
        /\ MonthUsage(i) = Total(Daily(MonthStart[i], MonthStart[i+1] - 1))
        /\ \A from \in {t \in days : t <= Wall} :
              LET page == UsageHistory("day", from, Wall)
                  monthly == UsagePoints("month", from, Wall + 1)
              IN  /\ page.total = Total(monthly)
                  /\ page.total + page.previous
                        = SummarizeUsage(from - (Wall + 1 - from), Wall + 1)

PagesOn(t) ==
    {PlanPage(t, h, k, a, u) :
        h \in {0, DayHours \div 2}, k \in {d \in 1..LongestMonth : ValidBillingDay(d)},
        a \in 1..MaxAllowance, u \in 0..MaxUsed}

Pages == [t \in PastDays |-> PagesOn(t)]

(* The days all of whose pages give a budget that can be kept, and a date  *)
(* that can be believed: constants, whatever the history.                  *)
SustainableDays ==
    {t \in PastDays :
        \A page \in Pages[t] : page.dailyBudget * (page.end - t) <= page.remaining}

BelievableDays ==
    {t \in PastDays : \A page \in Pages[t] :
        /\ page.warned /\ page.used < page.allowance => page.exhaustion >= t
        /\ page.used > page.allowance /\ page.elapsed > 0 =>
              page.warned /\ page.exhaustion <= t}

(* Whoever uses no more than the daily budget on each remaining day, the   *)
(* one that is running included, stays within the allowance (planUsage).   *)
SustainableBudget == Wall \in SustainableDays

(* The projected exhaustion is never in the past while something is left,  *)
(* and never in the future, nor missing, once the allowance is overdrawn,  *)
(* whatever the truncation of the projection (planUsage).                  *)
BelievableExhaustion == Wall \in BelievableDays
=============================================================================
