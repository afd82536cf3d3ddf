------------------------------ MODULE Periods -------------------------------
(***************************************************************************)
(* The periods the program counts in: the weekly and monthly reports and   *)
(* their deferral out of the quiet hours, and the months and years of the  *)
(* dashboard, whose two sums are dated on different clocks.                *)
(*                                                                         *)
(* Days are numbered from Monday, 1 January 2024 (day 0), times in half    *)
(* hours from its midnight, in local time (UTC+8, no summer time).  The    *)
(* thirds of WinNotify's clock are spans of such times, and its first day  *)
(* may be any day of the calendar.                                         *)
(***************************************************************************)
EXTENDS WinNotify, Integers

Day(t) == t \div 48
HalfHour(t) == t % 48
At(d, h) == 48 * d + h

(* The half hours of a third of a day: from 00:00, 07:00 and 21:30.        *)
HalfHoursOf(third) ==
  LET d == third \div 3 IN
    IF third % 3 = 0 THEN At(d, 0) .. At(d, 13)
    ELSE IF third % 3 = 1 THEN At(d, 14) .. At(d, 42)
    ELSE At(d, 43) .. At(d, 47)

(* date.weekday(): Monday is 0, Sunday 6. *)
Weekday(d) == d % 7

(* The first days of 25 months, of which two years with a leap day.        *)
MonthStart ==
  <<0, 31, 60, 91, 121, 152, 182, 213, 244, 274, 305, 335,
    366, 397, 425, 456, 486, 517, 547, 578, 609, 639, 670, 700, 731>>
Months == 1 .. 24
Days == 0 .. 730

MonthOf == [d \in Days |-> CHOOSE m \in Months :
                             MonthStart[m] <= d /\ d < MonthStart[m + 1]]
Month(d) == MonthOf[d]
Year(d) == IF Month(d) <= 12 THEN 2024 ELSE 2025

-----------------------------------------------------------------------------
(* Quiet hours, of the times the notifier is built with.                   *)

DndStart == 44     \* 22:00
DndEnd   == 14     \* 07:00

(* _in_dnd, on the hour.                                                   *)
InDnd(t) ==
  LET h == 2 * (HalfHour(t) \div 2) IN
    IF DndStart < DndEnd THEN DndStart <= h /\ h < DndEnd
                         ELSE h >= DndStart \/ h < DndEnd

DeferToToday(t) == At(Day(t), 14)      \* mutant: the day is not added

(* _defer_summary: seven o'clock, today or tomorrow.                       *)
DeferredTo(t) ==
  IF t >= At(Day(t), 14) THEN At(Day(t) + 1, 14) ELSE At(Day(t), 14)

(* When a job that comes due at t does its work.                           *)
RunsAt(t) == IF InDnd(t) THEN DeferredTo(t) ELSE t

-----------------------------------------------------------------------------
(* Reports.                                                                *)

(* mutant: without the seven                                               *)
DaysSinceSundayOrNone(d) == (Weekday(d) + 1) % 7

(* (today.weekday() + 1) % 7 or 7.                                         *)
DaysSinceSunday(d) ==
  LET n == (Weekday(d) + 1) % 7 IN IF n = 0 THEN 7 ELSE n

(* _weekly_report, run on day d: Monday to Sunday of the week before.      *)
WeekReported(d) == LET last == d - DaysSinceSunday(d) IN (last - 6) .. last

(* _monthly_report, run on day d: the month before.                        *)
MonthReported(d) ==
  LET last == MonthStart[Month(d)] - 1 IN MonthStart[Month(last)] .. last

(* The days of work of the reports that come due on Sundays and on the      *)
(* first of a month, at nine.                                              *)
Weeklies(S)  == {Day(RunsAt(At(d, 18))) : d \in {x \in S : Weekday(x) = 6}}
Monthlies(S) == {Day(RunsAt(At(MonthStart[m], 18))) : m \in S}

(* Day x is reported by one Sunday, when the night of its draws is over.   *)
InOneWeekly(x) ==
  LET reporting == {d \in Weeklies(x .. (x + 20)) : x \in WeekReported(d)} IN
    /\ \E d \in reporting : d > x
    /\ \A d, e \in reporting : d = e

InOneMonthly(x) ==
  LET reporting == {d \in Monthlies(2 .. 24) : x \in MonthReported(d)} IN
    /\ \E d \in reporting : d > x
    /\ \A d, e \in reporting : d = e

-----------------------------------------------------------------------------
(* Dashboard.                                                              *)

CreatedLocal(t) == t                  \* mutant: local time

(* Comparison.created_at, naive UTC, of a comparison made at t.            *)
Created(t) == t - 16

(* draw_costs.draw_date, of the draw of day x.                             *)
CostDated(x) == At(x, 0)

(* The month and the year that a clock which shows c counts as the current *)
(* one.  (Their ends keep the time of the day.)                            *)
ThisMonth(c) == At(MonthStart[Month(Day(c))], 0) ..
                  (At(MonthStart[Month(Day(c)) + 1], HalfHour(c)) - 1)
YearStart(y) == IF y = 2024 THEN 0 ELSE IF y = 2025 THEN 366 ELSE 731
ThisYear(c) == At(YearStart(Year(Day(c))), 0) ..
                 (At(YearStart(Year(Day(c)) + 1), HalfHour(c)) - 1)

(* _build_time_filter and _build_time_filter_cst, asked at t: UTC for       *)
(* prizes, local time for costs.                                           *)
PrizesOf(t) == [month |-> ThisMonth(t - 16), year |-> ThisYear(t - 16)]
CostsOf(t)  == [month |-> ThisMonth(t), year |-> ThisYear(t)]

(* The days around the end of a month, within the two years.               *)
Edge(m) == (MonthStart[m] - 3) .. (MonthStart[m] + 3)

-----------------------------------------------------------------------------

(* In a report, wherever in the calendar the first day lies.               *)
ReportedDays ==
  {d \in 0 .. 9 : \A first \in 0 .. 690 : InOneWeekly(first + d) /\ InOneMonthly(first + d)}

(* The draw day of every win falls in exactly one weekly and exactly one   *)
(* monthly report, made after its draws are over: no day, the Sundays      *)
(* least of all, slips between two reports or is told twice                *)
(* (_weekly_report, _monthly_report).                                      *)
ReportsTile == \A c \in Wins : Standing(c) => DayOf[c] \in ReportedDays

(* A job held back by the quiet hours, at whatever time the clock shows,   *)
(* runs when they end: later, at a time that is not quiet, and with        *)
(* nothing but quiet hours before it (_in_dnd and _defer_summary agree on  *)
(* their end).                                                             *)
DeferralEndsTheQuiet ==
  \A t \in HalfHoursOf(now) :
    InDnd(t) => /\ DeferredTo(t) > t
                /\ ~ InDnd(DeferredTo(t))
                /\ \A s \in t .. (DeferredTo(t) - 1) : InDnd(s)

(* The prize found at t and the cost of the draw of day x are in one month *)
(* of the chart, and the summary counts both or neither, unless it is      *)
(* asked for before eight o'clock on the first of a month.                 *)
Together(x, t) ==
  /\ Month(Day(Created(t))) = Month(Day(CostDated(x)))
  /\ \A n \in x .. (x + 6), h \in 0 .. 47 :
       At(n, h) >= t /\ (h >= 16 \/ n # MonthStart[Month(n)]) =>
         \A p \in {"month", "year"} :
           Created(t) \in PrizesOf(At(n, h))[p] <=>
             CostDated(x) \in CostsOf(At(n, h))[p]

(* The evening of a draw (0) and the night after it (1), if all is well at  *)
(* every end of a month.                                                   *)
WellDatedThirds ==
  {k \in 0 .. 1 : \A m \in 2 .. 23 : \A x \in Edge(m) :
     \A t \in HalfHoursOf(3 * x + 2 + k) : Together(x, t)}

(* A prize judged in the evening of its draw or in the night after it and  *)
(* the cost of that draw stand in the same month of the chart, although    *)
(* one is dated in UTC and the other in local time; and the summary of the *)
(* month or year counts both or neither, except in the first eight hours   *)
(* of a month (_build_time_filter, _build_time_filter_cst,                 *)
(* dashboard_monthly).                                                     *)
PrizeAndCostTogether ==
  \A c \in Wins :
    LET k == cmp[c].stamp - (3 * DayOf[c] + 2) IN
      Standing(c) /\ k <= 1 => k \in WellDatedThirds
=============================================================================
