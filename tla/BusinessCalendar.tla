-------------------------- MODULE BusinessCalendar --------------------------
(* The working-time arithmetic of the SLA (add_business_minutes and         *)
(* _next_working_instant, apps/support_desk/services.py), loop by loop. The *)
(* unit of time is half a minute, as the code drops the odd seconds of a    *)
(* day. The calendar is the same every week but for its holidays. Its       *)
(* opening hours are any two times of day: nothing compares them.           *)
EXTENDS Integers, FiniteSets

CONSTANTS
    DayLength,                      \* half-minutes in a day
    WeekLength,                     \* days in a week
    active_weekdays,
    MaxMinutes,                     \* bound: the minutes asked for
    StartDays,                      \* bound: days the request may arrive on
    HolidayDays,                    \* bound: days that may be holidays
    LastDay                         \* bound: the day the loops are followed to

ASSUME CalendarAssumption ==
    /\ DayLength \in Nat \ {0} /\ WeekLength \in Nat \ {0}
    /\ MaxMinutes \in Nat /\ StartDays \in Nat \ {0} /\ HolidayDays \in Nat /\ LastDay \in Nat

VARIABLES
    workday_start, workday_end, holidays,   \* the calendar
    start_at, minutes,
    b_pc, current, remaining

given == <<workday_start, workday_end, holidays, start_at, minutes>>
calendarVars == <<given, b_pc, current, remaining>>

Times == 0..(DayLength - 1)

CalendarInit ==
    /\ workday_start \in Times /\ workday_end \in Times
    /\ holidays \in SUBSET (0..(HolidayDays - 1))
    /\ start_at \in 0..(StartDays * DayLength - 1)
    /\ minutes \in 0..MaxMinutes
    /\ b_pc = IF minutes = 0 THEN "done" ELSE "next"
    /\ current = start_at /\ remaining = minutes

Day(t) == t \div DayLength
Opening(day) == day * DayLength + workday_start
Closing(day) == day * DayLength + workday_end
WorkingDay(day) == day % WeekLength \in active_weekdays /\ day \notin holidays

\* One round of the inner loop. Before the opening it does not look at the closing.
_next_working_instant ==
    LET day == Day(current) IN
    /\ b_pc = "next" /\ day < LastDay
    /\ IF WorkingDay(day) /\ (current < Opening(day) \/ current < Closing(day))
       THEN /\ current' = IF current < Opening(day) THEN Opening(day) ELSE current
            /\ b_pc' = "consume"
       ELSE current' = Opening(day + 1) /\ UNCHANGED b_pc
    /\ UNCHANGED <<given, remaining>>

\* Mutant: the remaining time of the day is rounded up.
RoundsUp ==
    LET day == Day(current)
        available == IF current < Closing(day) THEN (Closing(day) - current + 1) \div 2 ELSE 0 IN
    /\ b_pc = "consume"
    /\ IF available >= remaining
       THEN current' = current + 2 * remaining /\ b_pc' = "done" /\ UNCHANGED remaining
       ELSE /\ remaining' = remaining - available
            /\ current' = Opening(day + 1)
            /\ b_pc' = "next"
    /\ UNCHANGED given

\* One round of the outer loop: the whole minutes left until closing time, if any.
add_business_minutes ==
    LET day == Day(current)
        available == IF current < Closing(day) THEN (Closing(day) - current) \div 2 ELSE 0 IN
    /\ b_pc = "consume"
    /\ IF available >= remaining
       THEN current' = current + 2 * remaining /\ b_pc' = "done" /\ UNCHANGED remaining
       ELSE /\ remaining' = remaining - available
            /\ current' = Opening(day + 1)
            /\ b_pc' = "next"
    /\ UNCHANGED given

CalendarNext == _next_working_instant \/ add_business_minutes

CalendarSpec == CalendarInit /\ [][CalendarNext]_calendarVars

-----------------------------------------------------------------------------
\* Working time between two instants, counted one unit at a time.
Working(t) == WorkingDay(Day(t)) /\ Opening(Day(t)) <= t /\ t < Closing(Day(t))
WorkingTime(from, to) == Cardinality({t \in from..(to - 1) : Working(t)})

CalendarTypeOK ==
    /\ start_at \in 0..(StartDays * DayLength - 1) /\ minutes \in 0..MaxMinutes
    /\ workday_start \in Times /\ workday_end \in Times
    /\ b_pc \in {"next", "consume", "done"} /\ current >= start_at /\ remaining \in 0..minutes
    /\ b_pc = "consume" => WorkingDay(Day(current)) /\ Opening(Day(current)) <= current

\* No half-minute is left over at the end of a full day.
WholeHours == (workday_end - workday_start) % 2 = 0

\* The due time leaves the full number of working minutes after the request, across
\* closing times, days off and holidays; and less than one more if the opening hours
\* are whole minutes, as then only the odd seconds of the first day are lost
\* (services.py, add_business_minutes).
DueAfterTheMinutes ==
    b_pc = "done" =>
        /\ WorkingTime(start_at, current) >= 2 * minutes
        /\ WholeHours => WorkingTime(start_at, current) < 2 * minutes + 2

\* A calendar that closes less than a minute after it opens, or before, never gives a
\* due time: the loops go round for ever (services.py, add_business_minutes).
NoHoursNoEnd == minutes > 0 /\ workday_end - workday_start < 2 => b_pc # "done"
=============================================================================
