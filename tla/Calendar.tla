------------------------------ MODULE Calendar ------------------------------
(***************************************************************************)
(* The calendar of src/src/date.rs, days and seconds since 1970-01-01 UTC  *)
(* to dates and back, beside the Gregorian calendar as it is kept by hand, *)
(* one day after another from 1970-01-01 into the past and the future.     *)
(***************************************************************************)
EXTENDS Integers, Sequences
-----------------------------------------------------------------------------
(* The arithmetic of the code.  It divides as Rust does, towards zero; the *)
(* eras of 400 years are made to divide downwards by hand.                 *)

\* Rust's / on i64; the divisor is positive.
Quot(a, b) == IF a >= 0 THEN a \div b ELSE -((-a) \div b)

\* The era of a number before the epoch rounded towards zero.
EraTruncated(n, size) == Quot(n, size)

EraOf(n, size) == Quot(IF n >= 0 THEN n ELSE n - (size - 1), size)

DaysInEra == 146097

DaysFromCivil(y0, m, d) ==
  LET y   == IF m <= 2 THEN y0 - 1 ELSE y0
      era == EraOf(y, 400)
      yoe == y - era * 400
      doy == Quot(153 * (IF m > 2 THEN m - 3 ELSE m + 9) + 2, 5) + d - 1
      doe == yoe * 365 + Quot(yoe, 4) - Quot(yoe, 100) + doy
  IN  era * DaysInEra + doe - 719468

CivilFromDays(z0) ==
  LET z   == z0 + 719468
      era == EraOf(z, DaysInEra)
      doe == z - era * DaysInEra
      yoe == Quot(doe - Quot(doe, 1460) + Quot(doe, 36524) - Quot(doe, 146096), 365)
      doy == doe - (365 * yoe + Quot(yoe, 4) - Quot(yoe, 100))
      mp  == Quot(5 * doy + 2, 153)
      m   == IF mp < 10 THEN mp + 3 ELSE mp - 9
      y   == yoe + era * 400
  IN  [year  |-> IF m <= 2 THEN y + 1 ELSE y,
       month |-> m,
       day   |-> doy - Quot(153 * mp + 2, 5) + 1]

\* From Sunday, 0; rem_euclid is never negative.
Weekday(z) == ((z % 7) + 4) % 7

UtcSecs(date, h, mi, s) ==
  DaysFromCivil(date.year, date.month, date.day) * 86400 + h * 3600 + mi * 60 + s

\* div_euclid and rem_euclid divide downwards, as \div and % do here.
UtcFields(secs) ==
  LET days == secs \div 86400
      rem  == secs % 86400
      date == CivilFromDays(days)
  IN  [date |-> date,
       hour |-> Quot(rem, 3600), minute |-> Quot(rem % 3600, 60), second |-> rem % 60,
       yearday |-> days - DaysFromCivil(date.year, 1, 1) + 1,
       weekday |-> Weekday(days)]
-----------------------------------------------------------------------------
(* The calendar kept by hand. *)

CONSTANTS
  FirstDay, LastDay,   \* bounds of the walk
  ClockDays, Seconds     \* the days and seconds of the day that clocks show

ASSUME CalendarBounds ==
  /\ FirstDay \in Int /\ LastDay \in Int
  /\ ClockDays \subseteq Int
  /\ \A t \in Seconds : t \in Nat /\ t < 86400

VARIABLES
  day,       \* days since the epoch
  date,      \* the date of that day
  weekday    \* 0 is Sunday

calendarVars == <<day, date, weekday>>

IsLeap(y) == y % 4 = 0 /\ (y % 100 # 0 \/ y % 400 = 0)

DaysIn(y, m) ==
  IF m = 2 THEN (IF IsLeap(y) THEN 29 ELSE 28)
  ELSE IF m \in {4, 6, 9, 11} THEN 30 ELSE 31

Date(y, m, d) == [year |-> y, month |-> m, day |-> d]

ValidDates == {c \in [year : Int, month : 1..12, day : 1..31] :
            c.day <= DaysIn(c.year, c.month)}

DayAfter(c) ==
  IF c.day < DaysIn(c.year, c.month) THEN Date(c.year, c.month, c.day + 1)
  ELSE IF c.month < 12 THEN Date(c.year, c.month + 1, 1)
  ELSE Date(c.year + 1, 1, 1)

DayBefore(c) ==
  IF c.day > 1 THEN Date(c.year, c.month, c.day - 1)
  ELSE IF c.month > 1
    THEN Date(c.year, c.month - 1, DaysIn(c.year, c.month - 1))
  ELSE Date(c.year - 1, 12, 31)

CalendarInit ==
  /\ day = 0
  /\ date = Date(1970, 1, 1)
  /\ weekday = 4

Tomorrow ==
  /\ day < LastDay
  /\ day' = day + 1
  /\ date' = DayAfter(date)
  /\ weekday' = IF weekday = 6 THEN 0 ELSE weekday + 1

Yesterday ==
  /\ day > FirstDay
  /\ day' = day - 1
  /\ date' = DayBefore(date)
  /\ weekday' = IF weekday = 0 THEN 6 ELSE weekday - 1

CalendarNext == Tomorrow \/ Yesterday

CalendarSpec == CalendarInit /\ [][CalendarNext]_calendarVars
-----------------------------------------------------------------------------
DateOk == /\ CivilFromDays(day) = date
          /\ DaysFromCivil(date.year, date.month, date.day) = day
          /\ Weekday(day) = weekday

\* The clock at a second of the day, which reads back as the same moment.
ClockOk(t) ==
  LET secs == day * 86400 + t
      f    == UtcFields(secs)
  IN  /\ f.date = date /\ f.weekday = weekday
      /\ UtcSecs(f.date, f.hour, f.minute, f.second) = secs

\* Between the calendar kept by hand and the arithmetic: on every day, before
\* the epoch and after it, both name the same date and weekday, and the date
\* and clock read back as the day and second they were made from (date-list,
\* date-value).
CalendarAgrees ==
  /\ DateOk
  /\ day \in ClockDays => \A t \in Seconds : ClockOk(t)
=============================================================================
