------------------------------ MODULE Calendar ------------------------------
(***************************************************************************)
(* The date in a manifest, `resolved_at`: seconds since 1970 to a date of  *)
(* the Gregorian calendar.  The code subtracts the years and months that   *)
(* have passed; here a calendar that is moved on day by day runs next to   *)
(* it.  Of the clock only the day counts: the rest is a remainder.         *)
(***************************************************************************)
EXTENDS Naturals, Sequences

CONSTANTS FirstDay, LastDay  \* bound: the days since 1970 that are looked at

ASSUME DayAssumption == FirstDay \in Nat /\ LastDay \in Nat

\* Mutant: every fourth year.
EveryFourth(y) == y % 4 = 0

is_leap(y) == (y % 4 = 0 /\ y % 100 # 0) \/ y % 400 = 0

DaysIn(y) == IF is_leap(y) THEN 366 ELSE 365
Months(y) == <<31, IF is_leap(y) THEN 29 ELSE 28, 31, 30, 31, 30, 31, 31, 30, 31, 30, 31>>

\* The two loops of days_to_ymd, at a year or a month with so many days left.
AfterYears(left) ==
  LET loop[at \in Nat \X (0 .. left)] ==
        IF at[2] < DaysIn(at[1]) THEN at ELSE loop[<<at[1] + 1, at[2] - DaysIn(at[1])>>]
  IN  loop[<<1970, left>>]

AfterMonths(months, left) ==
  LET loop[at \in (1 .. 13) \X (0 .. left)] ==
        IF at[1] = 13 \/ at[2] < months[at[1]] THEN at
        ELSE loop[<<at[1] + 1, at[2] - months[at[1]]>>]
  IN  loop[<<1, left>>]

days_to_ymd(left) ==
  LET year  == AfterYears(left)
      month == AfterMonths(Months(year[1]), year[2])
  IN  <<year[1], month[1], month[2] + 1>>

-----------------------------------------------------------------------------
VARIABLES days, date  \* the day, and its date by the calendar

\* Twelve months, every fourth year a leap year but for three centuries in four.
Leap(y)   == y % 4 = 0 /\ (y % 100 = 0 => (y \div 100) % 4 = 0)
LastOf(y, m) ==
  CASE m \in {4, 6, 9, 11} -> 30 [] m = 2 -> IF Leap(y) THEN 29 ELSE 28 [] OTHER -> 31

Tomorrow(d) ==
  IF d[3] < LastOf(d[1], d[2]) THEN <<d[1], d[2], d[3] + 1>>
  ELSE IF d[2] < 12 THEN <<d[1], d[2] + 1, 1>> ELSE <<d[1] + 1, 1, 1>>

CalendarInit == days = FirstDay /\ date = days_to_ymd(FirstDay)
NextDay      == days < LastDay /\ days' = days + 1 /\ date' = Tomorrow(date)
CalendarSpec == CalendarInit /\ [][NextDay]_<<days, date>>

\* The date that a manifest gets is the calendar's, over leap days, centuries
\* and the ends of months and years.
DateIsRight == days_to_ymd(days) = date
=============================================================================
