---------------------------- MODULE MonthlyRuns ----------------------------
(***************************************************************************)
(* The run dates of a schedule that recurs every so many months            *)
(* (computeNextRunDate of maintenance.service.ts).  In Schedules a period  *)
(* is a number of days; a month is not, and the next run is computed from  *)
(* the last one, not from the start.                                       *)
(*                                                                         *)
(* A date is the number of its month, from a January on, and its day.      *)
(***************************************************************************)
EXTENDS Integers

CONSTANTS
    Intervals,   \* recurrenceInterval, or 12 times that of an annual schedule
    MaxMonths    \* bound: months until the last run

ASSUME MonthsAssumption == Intervals \subseteq Nat \ {0} /\ MaxMonths \in Nat

VARIABLES
    first,      \* the date the schedule starts on
    interval,   \* months between two runs
    run,        \* the date of the last run computed
    runs        \* how many have been computed

monthlyVars == <<first, interval, run, runs>>

\* A leap year is the first of four.
DaysInMonth(m) ==
    CASE m % 12 = 1 -> IF (m \div 12) % 4 = 0 THEN 29 ELSE 28
      [] m % 12 \in {3, 5, 8, 10} -> 30
      [] OTHER -> 31

Lesser(a, b) == IF a < b THEN a ELSE b

\* Mutant of AddMonths: the days that are too many go into the following month.
MutOverflows(date, n) ==
    LET m == date.month + n
    IN  IF date.day <= DaysInMonth(m) THEN [month |-> m, day |-> date.day]
                                      ELSE [month |-> m + 1, day |-> date.day - DaysInMonth(m)]

\* addMonths of date-fns: the last day of a month that is too short.  addYears is the same
\* with 12 months a year.
AddMonths(date, n) ==
    [month |-> date.month + n, day |-> Lesser(date.day, DaysInMonth(date.month + n))]

\* The start of a schedule, in any month of any of four years.
MonthlyInit ==
    /\ interval \in Intervals
    /\ \E month \in 0..47 : \E day \in 1..DaysInMonth(month) : first = [month |-> month, day |-> day]
    /\ run = first
    /\ runs = 0

\* createSchedule computes the first run of the start, advanceRecurringSchedules each
\* further one of the one before.
ComputeMonthly ==
    /\ run.month + interval <= MaxMonths
    /\ run' = AddMonths(run, interval)
    /\ runs' = runs + 1
    /\ UNCHANGED <<first, interval>>

MonthlySpec == MonthlyInit /\ [][ComputeMonthly]_monthlyVars

\* Month of the j-th run.
MonthOf(j) == first.month + j * interval

\* Every period has one run, in its own month, on the day the schedule started on or, from
\* the first month that is too short for it, on the last day of the shortest such month so
\* far: a schedule of the 31st does not come back to the 31st (computeNextRunDate).
MonthlyRunsSlip ==
    /\ run.month = MonthOf(runs)
    /\ run.day <= first.day
    /\ \A j \in 0..runs : run.day <= DaysInMonth(MonthOf(j))
    /\ run.day = first.day \/ \E j \in 0..runs : run.day = DaysInMonth(MonthOf(j))

=============================================================================
