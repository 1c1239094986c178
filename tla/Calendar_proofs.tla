-------------------------- MODULE Calendar_proofs ---------------------------
(***************************************************************************)
(* CalendarAgrees is an invariant of the calendar, without bounds on the   *)
(* days: the arithmetic of the code counts a day more for the day after    *)
(* every date, and finds every date again from its count.                  *)
(***************************************************************************)
EXTENDS Calendar, TLAPS

(* Division. *)

LEMMA DivUnique ==
  ASSUME NEW a \in Int, NEW b \in Nat \ {0}, NEW q \in Int,
         b * q <= a, a < b * q + b
  PROVE  a \div b = q
  BY SMTT(30)

LEMMA QuotIsDiv ==
  ASSUME NEW a \in Nat, NEW b \in Nat \ {0}
  PROVE  Quot(a, b) = a \div b
  BY DEF Quot

LEMMA EraIsDiv ==
  ASSUME NEW n \in Int
  PROVE  /\ EraOf(n, 400) = n \div 400
         /\ EraOf(n, DaysInEra) = n \div DaysInEra
  BY SMTT(30) DEF EraOf, Quot, DaysInEra

(* Years begin in March within an era of 400 of them. *)

YearStart(y) == 365 * y + (y \div 4) - (y \div 100)
YearEnd(y) == IF y = 399 THEN 146096 ELSE YearStart(y + 1) - 1
YearOf(doe) == (doe - (doe \div 1460) + (doe \div 36524) - (doe \div 146096)) \div 365
MonthStart(mp) == (153 * mp + 2) \div 5
MonthOf(doy) == (5 * doy + 2) \div 153

LEMMA YearBounds ==
  ASSUME NEW y \in Int, 0 <= y, y <= 399
  PROVE  /\ YearStart(y) \in Int /\ YearEnd(y) \in Int
         /\ 0 <= YearStart(y)
         /\ YearStart(y) + 364 <= YearEnd(y)
         /\ YearEnd(y) <= YearStart(y) + 365
         /\ YearEnd(y) <= 146096
<1>1. /\ YearStart(y) \in Int /\ 0 <= YearStart(y) /\ YearStart(y) <= 145731
  BY SMTT(60) DEF YearStart
<1>2. CASE y = 399
  BY <1>1, <1>2, SMTT(60) DEF YearStart, YearEnd
<1>3. CASE y # 399
  <2>1. YearEnd(y) = YearStart(y + 1) - 1
    BY <1>3 DEF YearEnd
  <2>2. /\ YearStart(y + 1) \in Int /\ YearStart(y + 1) <= 145731
        /\ YearStart(y) + 365 <= YearStart(y + 1)
        /\ YearStart(y + 1) <= YearStart(y) + 366
    BY <1>3, SMTT(60) DEF YearStart
  <2> QED BY <1>1, <2>1, <2>2, SMTT(30)
<1> QED BY <1>2, <1>3

LEMMA YearFound ==
  ASSUME NEW y \in 0..399, NEW doe \in Int, YearStart(y) <= doe, doe <= YearEnd(y)
  PROVE  YearOf(doe) = y
  BY SMTT(60) DEF YearStart, YearEnd, YearOf

LEMMA MonthFound ==
  ASSUME NEW mp \in 0..11, NEW doy \in 0..365,
         MonthStart(mp) <= doy, doy < MonthStart(mp + 1)
  PROVE  MonthOf(doy) = mp
  BY SMTT(60) DEF MonthStart, MonthOf

LEMMA Weeks ==
  ASSUME NEW z \in Int
  PROVE  /\ Weekday(z) \in 0..6
         /\ Weekday(z + 1) = IF Weekday(z) = 6 THEN 0 ELSE Weekday(z) + 1
         /\ Weekday(z - 1) = IF Weekday(z) = 0 THEN 6 ELSE Weekday(z) - 1
  BY SMTT(60) DEF Weekday

DayCount(y) == (y \div 400) * DaysInEra + YearStart(y - 400 * (y \div 400))

LEMMA YearLength ==
  ASSUME NEW y \in Int
  PROVE  DayCount(y) = DayCount(y - 1) + (IF IsLeap(y) THEN 366 ELSE 365)
  BY SMTT(60) DEF DayCount, YearStart, IsLeap, DaysInEra

(* The months count from March, of the year that begins then. *)

MarchYear(c)  == IF c.month <= 2 THEN c.year - 1 ELSE c.year
MarchMonth(c) == IF c.month > 2 THEN c.month - 3 ELSE c.month + 9
DayOfYear(c)  == MonthStart(MarchMonth(c)) + c.day - 1
Count(c)      == DaysFromCivil(c.year, c.month, c.day)

LEMMA DateTypes ==
  ASSUME NEW c \in ValidDates
  PROVE  /\ c.year \in Int /\ c.month \in 1..12 /\ c.day \in 1..31
         /\ c.day <= DaysIn(c.year, c.month)
         /\ c = Date(c.year, c.month, c.day)
  BY DEF ValidDates, Date

LEMMA DayRange ==
  ASSUME NEW s \in 0..337, NEW d \in 1..31, d <= 29 \/ s <= 306
  PROVE  s + d - 1 \in Int /\ 0 <= s + d - 1 /\ s + d - 1 <= 365
  OBVIOUS

LEMMA DayBack ==
  ASSUME NEW s \in Int, NEW d \in Int
  PROVE  (s + d - 1) - s + 1 = d
  OBVIOUS

LEMMA MarchTypes ==
  ASSUME NEW c \in ValidDates
  PROVE  /\ MarchYear(c) \in Int /\ MarchMonth(c) \in 0..11
         /\ MonthStart(MarchMonth(c)) \in 0..337
         /\ DayOfYear(c) \in Int /\ 0 <= DayOfYear(c)
         /\ DayOfYear(c) <= 365
<1>1. c.year \in Int /\ c.month \in 1..12 /\ c.day \in 1..31
      /\ c.day <= DaysIn(c.year, c.month)
  BY DateTypes
<1>2. MarchYear(c) \in Int /\ MarchMonth(c) \in 0..11
  BY <1>1 DEF MarchYear, MarchMonth
<1>3. MonthStart(MarchMonth(c)) \in 0..337
  BY <1>2, SMTT(30) DEF MonthStart
<1>4. c.day <= 29 \/ MarchMonth(c) <= 10
  BY <1>1 DEF MarchMonth, DaysIn
<1>5. MarchMonth(c) <= 10 => MonthStart(MarchMonth(c)) <= 306
  BY <1>2, SMTT(30) DEF MonthStart
<1>6. c.day <= 29 \/ MonthStart(MarchMonth(c)) <= 306
  BY <1>4, <1>5
<1>7. /\ MonthStart(MarchMonth(c)) + c.day - 1 \in Int
      /\ 0 <= MonthStart(MarchMonth(c)) + c.day - 1
      /\ MonthStart(MarchMonth(c)) + c.day - 1 <= 365
  BY <1>1, <1>3, <1>6, DayRange
<1>8. /\ DayOfYear(c) \in Int /\ 0 <= DayOfYear(c)
      /\ DayOfYear(c) <= 365
  BY <1>7 DEF DayOfYear
<1> QED BY <1>2, <1>3, <1>8

LEMMA DateBuilt ==
  ASSUME NEW y \in Int, NEW m \in 1..12, NEW d \in 1..DaysIn(y, m)
  PROVE  Date(y, m, d) \in ValidDates
  BY DEF ValidDates, Date, DaysIn

LEMMA CountForm ==
  ASSUME NEW c \in ValidDates
  PROVE  Count(c) = DayCount(MarchYear(c)) + DayOfYear(c) - 719468
<1> DEFINE y == MarchYear(c)
           mp == MarchMonth(c)
           yoe == y - 400 * (y \div 400)
<1>1. y \in Int /\ mp \in 0..11 /\ c.year \in Int /\ c.month \in 1..12 /\ c.day \in 1..31
  BY DateTypes, MarchTypes
<1>2. EraOf(y, 400) = y \div 400 /\ y \div 400 \in Int
  BY <1>1, EraIsDiv, SMTT(30)
<1>0. yoe \in Int /\ 0 <= yoe /\ yoe <= 399
  <2> HIDE DEF y
  <2> QED BY <1>1, SMTT(30)
<1>3. Quot(153 * mp + 2, 5) = MonthStart(mp) /\ MonthStart(mp) \in Int
  BY <1>1, SMTT(30) DEF Quot, MonthStart
<1>4. Quot(yoe, 4) = yoe \div 4 /\ Quot(yoe, 100) = yoe \div 100
  BY <1>0, SMTT(30) DEF Quot
<1> HIDE DEF yoe
<1>5. Count(c) = (y \div 400) * DaysInEra
                 + (yoe * 365 + (yoe \div 4) - (yoe \div 100) + (MonthStart(mp) + c.day - 1))
                 - 719468
  <2>1. y - EraOf(y, 400) * 400 = yoe
    BY <1>1, <1>2, SMTT(30) DEF yoe
  <2> QED BY <2>1, <1>2, <1>3, <1>4 DEF Count, DaysFromCivil, MarchYear, MarchMonth
<1>6. yoe \div 4 \in Int /\ yoe \div 100 \in Int
  BY <1>0, SMTT(30)
<1>7. DayCount(y) = (y \div 400) * 146097 + (365 * yoe + (yoe \div 4) - (yoe \div 100))
  BY DEF DayCount, YearStart, yoe, DaysInEra
<1>8. DayOfYear(c) = MonthStart(mp) + c.day - 1
  BY DEF DayOfYear
<1> HIDE DEF y, mp
<1>9. Count(c) = DayCount(y) + DayOfYear(c) - 719468
  BY <1>0, <1>1, <1>2, <1>3, <1>5, <1>6, <1>7, <1>8, SMTT(30) DEF DaysInEra
<1> QED BY <1>9 DEF y

\* What the reading of a day finds again: the March year it is in...
LEMMA LastOfYear ==
  ASSUME NEW y \in Int, NEW doy \in Int, 0 <= doy, doy <= 365,
         doy = 365 => IsLeap(y + 1)
  PROVE  LET yoe == y - 400 * (y \div 400)
         IN  YearStart(yoe) + doy <= YearEnd(yoe)
<1> DEFINE yoe == y - 400 * (y \div 400)
<1>1. yoe \in Int /\ 0 <= yoe /\ yoe <= 399
  BY SMTT(30)
<1>2. CASE doy <= 364
  <2> HIDE DEF yoe
  <2>1. /\ YearStart(yoe) \in Int /\ YearEnd(yoe) \in Int
        /\ YearStart(yoe) + 364 <= YearEnd(yoe)
    BY <1>1, YearBounds
  <2>2. YearStart(yoe) + doy <= YearEnd(yoe)
    BY <1>2, <2>1, SMTT(30)
  <2> QED BY <2>2 DEF yoe
<1>3. CASE doy = 365
  <2>1. yoe = 399 \/ ((yoe + 1) % 4 = 0 /\ (yoe + 1) % 100 # 0)
    BY <1>3, <1>1, SMTT(60) DEF IsLeap
  <2> HIDE DEF yoe
  <2>2. YearStart(yoe) + 365 <= YearEnd(yoe)
    BY <2>1, <1>1, SMTT(60) DEF YearStart, YearEnd
  <2> QED BY <1>3, <2>2 DEF yoe
<1> QED BY <1>2, <1>3

\* ... and the month.
LEMMA InMonth ==
  ASSUME NEW c \in ValidDates
  PROVE  DayOfYear(c) < MonthStart(MarchMonth(c) + 1)
<1>1. c.year \in Int /\ c.month \in 1..12 /\ c.day \in 1..31
      /\ c.day <= DaysIn(c.year, c.month)
  BY DateTypes
<1>2. \A m \in 1..12 :
        LET mp == IF m > 2 THEN m - 3 ELSE m + 9
        IN  /\ MonthStart(mp) \in Int /\ MonthStart(mp + 1) \in Int
            /\ m = 2 => MonthStart(mp + 1) >= MonthStart(mp) + 29
            /\ m \in {4, 6, 9, 11} => MonthStart(mp + 1) = MonthStart(mp) + 30
            /\ m \notin {2, 4, 6, 9, 11} => MonthStart(mp + 1) = MonthStart(mp) + 31
  BY SMTT(60) DEF MonthStart
<1>3. MonthStart(MarchMonth(c) + 1) >= MonthStart(MarchMonth(c)) + c.day
  BY <1>1, <1>2, SMTT(30) DEF MarchMonth, DaysIn
<1>4. MonthStart(MarchMonth(c)) \in Int /\ MonthStart(MarchMonth(c) + 1) \in Int
  BY <1>1, <1>2 DEF MarchMonth
<1> QED BY <1>1, <1>3, <1>4, SMTT(30) DEF DayOfYear

\* A date is read back from its count.
LEMMA Decoded ==
  ASSUME NEW c \in ValidDates
  PROVE  CivilFromDays(Count(c)) = c
<1> DEFINE y   == MarchYear(c)
           era == y \div 400
           yoe == y - 400 * era
           mp  == MarchMonth(c)
           doy == DayOfYear(c)
           doe == YearStart(yoe) + doy
           z   == Count(c) + 719468
<1>1. /\ y \in Int /\ mp \in 0..11 /\ doy \in Int /\ 0 <= doy /\ doy <= 365
      /\ MonthStart(mp) \in 0..337
      /\ c.year \in Int /\ c.month \in 1..12 /\ c.day \in 1..31
      /\ c.day <= DaysIn(c.year, c.month)
      /\ c = Date(c.year, c.month, c.day)
  BY DateTypes, MarchTypes
<1>2. era \in Int /\ yoe \in Int /\ 0 <= yoe /\ yoe <= 399
  <2> HIDE DEF y
  <2> QED BY <1>1, SMTT(30)
<1>3. doy = 365 => IsLeap(y + 1)
  <2>1. \A m \in 1..12, d \in 1..31 :
          LET n == IF m > 2 THEN m - 3 ELSE m + 9
          IN  MonthStart(n) + d - 1 = 365 => (m = 2 /\ d = 29)
    BY SMTT(60) DEF MonthStart
  <2>2. doy = 365 => c.month = 2 /\ c.day = 29
    BY <1>1, <2>1 DEF DayOfYear, MarchMonth
  <2>3. doy = 365 => IsLeap(c.year) /\ y + 1 = c.year
    BY <1>1, <2>2, SMTT(30) DEF DaysIn, MarchYear
  <2> QED BY <2>3
<1>4. YearStart(yoe) + doy <= YearEnd(yoe)
  BY <1>1, <1>3, LastOfYear
<1>5. /\ YearStart(yoe) \in Int /\ YearEnd(yoe) \in Int
      /\ 0 <= YearStart(yoe) /\ YearEnd(yoe) <= 146096
  <2> HIDE DEF yoe
  <2> QED BY <1>2, YearBounds
<1>6. doe \in Int /\ 0 <= doe /\ doe <= 146096 /\ YearStart(yoe) <= doe /\ doe <= YearEnd(yoe)
  <2> HIDE DEF yoe, doy
  <2> QED BY <1>1, <1>4, <1>5, SMTT(30)
<1>7. z = era * 146097 + doe /\ z \in Int
  <2>1. Count(c) = DayCount(y) + doy - 719468
    BY CountForm
  <2>2. DayCount(y) = era * 146097 + YearStart(yoe)
    BY DEF DayCount, DaysInEra
  <2> HIDE DEF y, yoe, doy, era
  <2> QED BY <2>1, <2>2, <1>1, <1>2, <1>5, SMTT(30)
<1>8. EraOf(z, DaysInEra) = era /\ z - EraOf(z, DaysInEra) * DaysInEra = doe
  <2> HIDE DEF z, doe, era
  <2>1. 146097 * era <= z /\ z < 146097 * era + 146097
    BY <1>2, <1>6, <1>7, SMTT(30)
  <2>2. z \div 146097 = era
    BY <2>1, <1>2, <1>7, DivUnique
  <2>3. EraOf(z, DaysInEra) = era
    BY <2>2, <1>7, EraIsDiv DEF DaysInEra
  <2> QED BY <2>3, <1>2, <1>6, <1>7, SMTT(30) DEF DaysInEra
<1>9. Quot(doe - Quot(doe, 1460) + Quot(doe, 36524) - Quot(doe, 146096), 365) = yoe
  <2> HIDE DEF doe, yoe
  <2>1. YearOf(doe) = yoe
    <3>1. yoe \in 0..399
      BY <1>2
    <3>2. doe \in Int /\ YearStart(yoe) <= doe /\ doe <= YearEnd(yoe)
      BY <1>6
    <3> HIDE DEF y, era, mp, doy, z
    <3> QED BY <3>1, <3>2, YearFound, Zenon
  <2>2. /\ Quot(doe, 1460) = doe \div 1460
        /\ Quot(doe, 36524) = doe \div 36524
        /\ Quot(doe, 146096) = doe \div 146096
    BY <1>6, SMTT(30) DEF Quot
  <2>3. doe - (doe \div 1460) + (doe \div 36524) - (doe \div 146096) >= 0
    BY <1>6, SMTT(30)
  <2> QED BY <2>1, <2>2, <2>3 DEF YearOf, Quot
<1>10. doe - (365 * yoe + Quot(yoe, 4) - Quot(yoe, 100)) = doy
  <2> HIDE DEF yoe, doy
  <2>1. Quot(yoe, 4) = yoe \div 4 /\ Quot(yoe, 100) = yoe \div 100
    BY <1>2, SMTT(30) DEF Quot
  <2>2. 365 * yoe + Quot(yoe, 4) - Quot(yoe, 100) = YearStart(yoe)
    BY <2>1 DEF YearStart
  <2> QED BY <1>1, <1>5, <2>2, SMTT(30)
<1>11. Quot(5 * doy + 2, 153) = mp
  <2> HIDE DEF doy, mp
  <2>1. MonthStart(mp) <= doy
    <3> USE DEF doy, mp
    <3> HIDE DEF MonthStart, MarchMonth
    <3> QED BY <1>1, SMTT(30) DEF DayOfYear
  <2>2. doy < MonthStart(mp + 1)
    BY InMonth DEF doy, mp
  <2>3. MonthOf(doy) = mp
    <3>1. doy \in 0..365
      BY <1>1
    <3> QED BY <1>1, <2>1, <2>2, <3>1, MonthFound
  <2> QED BY <2>3, <1>1 DEF MonthOf, Quot
<1>12. Quot(153 * mp + 2, 5) = MonthStart(mp)
  <2> HIDE DEF mp
  <2> QED BY <1>1, SMTT(30) DEF Quot, MonthStart
<1>13. CivilFromDays(Count(c)) =
         LET m == IF mp < 10 THEN mp + 3 ELSE mp - 9
             w == yoe + era * 400
         IN  [year |-> IF m <= 2 THEN w + 1 ELSE w, month |-> m,
              day |-> doy - MonthStart(mp) + 1]
  <2> HIDE DEF doe, doy, yoe, era, mp
  <2> QED BY <1>8, <1>9, <1>10, <1>11, <1>12 DEF CivilFromDays, z
<1>14. doy - MonthStart(mp) + 1 = c.day
  <2>1. doy = MonthStart(mp) + c.day - 1
    BY DEF DayOfYear
  <2>2. MonthStart(mp) \in Int /\ c.day \in Int
    BY <1>1
  <2> HIDE DEF doy, mp
  <2>3. (MonthStart(mp) + c.day - 1) - MonthStart(mp) + 1 = c.day
    BY <2>2, DayBack
  <2> QED BY <2>1, <2>3
<1>15. yoe + era * 400 = y
  <2> HIDE DEF y, era
  <2> QED BY <1>1, <1>2, SMTT(30)
<1>16. c.month = IF mp < 10 THEN mp + 3 ELSE mp - 9
  BY <1>1, SMTT(30) DEF MarchMonth
<1>17. c.year = IF c.month <= 2 THEN y + 1 ELSE y
  BY <1>1, SMTT(30) DEF MarchYear
<1>18. CivilFromDays(Count(c)) = Date(c.year, c.month, c.day)
  <2> HIDE DEF y, doy, yoe, era, mp
  <2> QED BY <1>13, <1>14, <1>15, <1>16, <1>17 DEF Date
<1> QED BY <1>1, <1>18

\* The day after a date counts one more...
LEMMA NextCounts ==
  ASSUME NEW c \in ValidDates
  PROVE  DayAfter(c) \in ValidDates /\ Count(DayAfter(c)) = Count(c) + 1
<1> DEFINE n == DayAfter(c)
<1>1. /\ c.year \in Int /\ c.month \in 1..12 /\ c.day \in 1..31
      /\ c.day <= DaysIn(c.year, c.month)
  BY DateTypes
<1>2. n \in ValidDates
  <2>1. CASE c.day < DaysIn(c.year, c.month)
    <3>1. c.day + 1 \in 1..DaysIn(c.year, c.month)
      BY <1>1, <2>1 DEF DaysIn
    <3> QED BY <1>1, <2>1, <3>1, DateBuilt DEF DayAfter
  <2>2. CASE ~(c.day < DaysIn(c.year, c.month)) /\ c.month < 12
    <3>1. c.month + 1 \in 1..12 /\ 1 \in 1..DaysIn(c.year, c.month + 1)
      BY <1>1, <2>2 DEF DaysIn
    <3> QED BY <1>1, <2>2, <3>1, DateBuilt DEF DayAfter
  <2>3. CASE ~(c.day < DaysIn(c.year, c.month)) /\ ~(c.month < 12)
    <3>1. c.year + 1 \in Int /\ 1 \in 1..12 /\ 1 \in 1..DaysIn(c.year + 1, 1)
      BY <1>1 DEF DaysIn
    <3> QED BY <1>1, <2>3, <3>1, DateBuilt DEF DayAfter
  <2> QED BY <2>1, <2>2, <2>3
<1>3. /\ MarchYear(c) \in Int /\ MarchMonth(c) \in 0..11 /\ DayOfYear(c) \in Int
      /\ MarchYear(n) \in Int /\ MarchMonth(n) \in 0..11 /\ DayOfYear(n) \in Int
      /\ MonthStart(MarchMonth(c)) \in Int /\ MonthStart(MarchMonth(n)) \in Int
  BY <1>2, MarchTypes
<1>4. /\ DayOfYear(c) = MonthStart(MarchMonth(c)) + c.day - 1
      /\ DayOfYear(n) = MonthStart(MarchMonth(n)) + n.day - 1
  BY DEF DayOfYear
<1>5. \A y \in Int : DayCount(y) \in Int
  <2> TAKE y \in Int
  <2>1. y \div 400 \in Int /\ 0 <= y - 400 * (y \div 400) /\ y - 400 * (y \div 400) <= 399
    BY SMTT(30)
  <2>2. YearStart(y - 400 * (y \div 400)) \in Int
    BY <2>1, YearBounds
  <2> HIDE DEF YearStart
  <2> QED BY <2>1, <2>2 DEF DayCount, DaysInEra
<1>6. DayCount(MarchYear(n)) + DayOfYear(n) = DayCount(MarchYear(c)) + DayOfYear(c) + 1
  <2>1. CASE c.day < DaysIn(c.year, c.month)
    <3>1. n.year = c.year /\ n.month = c.month /\ n.day = c.day + 1
      BY <2>1 DEF DayAfter, Date
    <3>2. MarchYear(n) = MarchYear(c) /\ MarchMonth(n) = MarchMonth(c)
      BY <3>1 DEF MarchYear, MarchMonth
    <3>3. DayCount(MarchYear(c)) \in Int
      BY <1>3, <1>5
    <3> HIDE DEF n
    <3> QED BY <1>1, <1>3, <1>4, <3>1, <3>2, <3>3, SMTT(30)
  <2>2. CASE c.day = DaysIn(c.year, c.month) /\ c.month = 2
    <3>1. n.year = c.year /\ n.month = 3 /\ n.day = 1
      BY <1>1, <2>2 DEF DayAfter, Date
    <3>2. /\ MarchYear(n) = c.year /\ MarchMonth(n) = 0
          /\ MarchYear(c) = c.year - 1 /\ MarchMonth(c) = 11
      BY <1>1, <2>2, <3>1 DEF MarchYear, MarchMonth
    <3>3. MonthStart(0) = 0 /\ MonthStart(11) = 337
      BY SMTT(30) DEF MonthStart
    <3>4. DayCount(c.year) = DayCount(c.year - 1) + (IF IsLeap(c.year) THEN 366 ELSE 365)
      BY <1>1, YearLength
    <3>5. c.day = IF IsLeap(c.year) THEN 29 ELSE 28
      BY <2>2 DEF DaysIn
    <3>6. DayCount(c.year - 1) \in Int
      BY <1>1, <1>5
    <3> HIDE DEF n, MarchYear, MarchMonth, MonthStart, DayOfYear, DayCount, IsLeap
    <3> QED BY <1>1, <1>4, <3>1, <3>2, <3>3, <3>4, <3>5, <3>6, SMTT(30)
  <2>3. CASE c.day = DaysIn(c.year, c.month) /\ c.month # 2
    <3>1. /\ c.month < 12 => n.year = c.year /\ n.month = c.month + 1
          /\ c.month = 12 => n.year = c.year + 1 /\ n.month = 1
          /\ n.day = 1
      BY <1>1, <2>3 DEF DayAfter, Date
    <3>2. /\ MarchYear(n) = MarchYear(c)
          /\ MarchMonth(n) = MarchMonth(c) + 1
      BY <1>1, <2>3, <3>1, SMTT(30) DEF MarchYear, MarchMonth
    <3>3. MonthStart(MarchMonth(c) + 1) = MonthStart(MarchMonth(c)) + c.day
      <4>1. \A m \in 1..12 :
              LET mp == IF m > 2 THEN m - 3 ELSE m + 9
              IN  /\ m \in {4, 6, 9, 11} => MonthStart(mp + 1) = MonthStart(mp) + 30
                  /\ m \notin {2, 4, 6, 9, 11} => MonthStart(mp + 1) = MonthStart(mp) + 31
        BY SMTT(60) DEF MonthStart
      <4> QED BY <1>1, <2>3, <4>1 DEF MarchMonth, DaysIn
    <3>4. DayCount(MarchYear(c)) \in Int
      BY <1>3, <1>5
    <3> HIDE DEF n, MarchYear, MarchMonth, MonthStart, DayOfYear, DayCount
    <3> QED BY <1>1, <1>3, <1>4, <3>1, <3>2, <3>3, <3>4, SMTT(30)
  <2>4. DaysIn(c.year, c.month) \in 28..31
    BY DEF DaysIn
  <2> QED BY <1>1, <2>1, <2>2, <2>3, <2>4
<1>7. /\ Count(c) = DayCount(MarchYear(c)) + DayOfYear(c) - 719468
      /\ Count(n) = DayCount(MarchYear(n)) + DayOfYear(n) - 719468
  BY <1>2, CountForm
<1>8. DayCount(MarchYear(c)) \in Int /\ DayCount(MarchYear(n)) \in Int
  BY <1>3, <1>5
<1>9. Count(n) = Count(c) + 1
  <2> HIDE DEF n, Count, MarchYear, DayOfYear, DayCount
  <2> QED BY <1>3, <1>6, <1>7, <1>8, SMTT(30)
<1> QED BY <1>2, <1>9

\* ... and it is the day after the day before.
LEMMA AfterBefore ==
  ASSUME NEW c \in ValidDates
  PROVE  DayBefore(c) \in ValidDates /\ DayAfter(DayBefore(c)) = c
<1>1. /\ c.year \in Int /\ c.month \in 1..12 /\ c.day \in 1..31
      /\ c.day <= DaysIn(c.year, c.month)
      /\ c = Date(c.year, c.month, c.day)
  BY DateTypes
<1>2. CASE c.day > 1
  <2>1. c.day - 1 \in 1..DaysIn(c.year, c.month)
    BY <1>1, <1>2 DEF DaysIn
  <2>2. DayBefore(c) = Date(c.year, c.month, c.day - 1)
    BY <1>2 DEF DayBefore
  <2>3. DayAfter(DayBefore(c)) = Date(c.year, c.month, c.day - 1 + 1)
    <3> DEFINE b == Date(c.year, c.month, c.day - 1)
    <3>1. b.year = c.year /\ b.month = c.month /\ b.day = c.day - 1
      BY DEF Date
    <3>2. c.day - 1 < DaysIn(c.year, c.month)
      BY <1>1 DEF DaysIn
    <3>3. b.day < DaysIn(b.year, b.month)
      BY <3>1, <3>2
    <3>4. DayAfter(b) = Date(b.year, b.month, b.day + 1)
      BY <3>3 DEF DayAfter
    <3> QED BY <2>2, <3>1, <3>4
  <2>4. c.day - 1 + 1 = c.day
    BY <1>1
  <2> QED BY <1>1, <2>1, <2>2, <2>3, <2>4, DateBuilt
<1>3. CASE ~(c.day > 1) /\ c.month > 1
  <2>1. c.month - 1 \in 1..12 /\ DaysIn(c.year, c.month - 1) \in 1..DaysIn(c.year, c.month - 1)
    BY <1>1, <1>3 DEF DaysIn
  <2>2. DayBefore(c) = Date(c.year, c.month - 1, DaysIn(c.year, c.month - 1))
    BY <1>3 DEF DayBefore
  <2>3. DayAfter(DayBefore(c)) = Date(c.year, c.month - 1 + 1, 1)
    BY <1>1, <1>3, <2>1, <2>2 DEF DayAfter, Date
  <2>4. c.month - 1 + 1 = c.month /\ c.day = 1
    BY <1>1, <1>3
  <2> QED BY <1>1, <2>1, <2>2, <2>3, <2>4, DateBuilt
<1>4. CASE ~(c.day > 1) /\ ~(c.month > 1)
  <2>1. c.year - 1 \in Int /\ 31 \in 1..DaysIn(c.year - 1, 12)
    BY <1>1 DEF DaysIn
  <2>2. DayBefore(c) = Date(c.year - 1, 12, 31)
    BY <1>4 DEF DayBefore
  <2>3. DayAfter(DayBefore(c)) = Date(c.year - 1 + 1, 1, 1)
    BY <2>2 DEF DayAfter, Date, DaysIn
  <2>4. c.year - 1 + 1 = c.year /\ c.day = 1 /\ c.month = 1
    BY <1>1, <1>4
  <2> QED BY <1>1, <2>1, <2>2, <2>3, <2>4, DateBuilt
<1> QED BY <1>2, <1>3, <1>4
-----------------------------------------------------------------------------
\* The inductive invariant: the date kept by hand is a date of the calendar,
\* and its count and the weekday are those of the day.
CalendarInv ==
  /\ day \in Int
  /\ date \in ValidDates
  /\ Count(date) = day
  /\ weekday = Weekday(day)

LEMMA CalendarInvInit == CalendarInit => CalendarInv
<1> SUFFICES ASSUME CalendarInit PROVE CalendarInv
  OBVIOUS
<1>1. day = 0 /\ date = Date(1970, 1, 1) /\ weekday = 4
  BY DEF CalendarInit
<1>2. date \in ValidDates
  BY <1>1 DEF ValidDates, Date, DaysIn
<1>3. Count(date) = 0
  BY <1>1, SMTT(30) DEF Count, DaysFromCivil, Date, EraOf, Quot, DaysInEra
<1>4. Weekday(0) = 4
  BY SMTT(30) DEF Weekday
<1> QED BY <1>1, <1>2, <1>3, <1>4 DEF CalendarInv

LEMMA CalendarInvNext == CalendarInv /\ [CalendarNext]_calendarVars => CalendarInv'
<1> SUFFICES ASSUME CalendarInv, [CalendarNext]_calendarVars PROVE CalendarInv'
  OBVIOUS
<1> USE DEF CalendarInv
<1>1. CASE Tomorrow
  <2>1. /\ day' = day + 1 /\ date' = DayAfter(date)
        /\ weekday' = IF weekday = 6 THEN 0 ELSE weekday + 1
    BY <1>1 DEF Tomorrow
  <2>2. date' \in ValidDates /\ Count(date') = Count(date) + 1
    BY <2>1, NextCounts
  <2>3. weekday' = Weekday(day')
    BY <2>1, Weeks
  <2> QED BY <2>1, <2>2, <2>3
<1>2. CASE Yesterday
  <2>1. /\ day' = day - 1 /\ date' = DayBefore(date)
        /\ weekday' = IF weekday = 0 THEN 6 ELSE weekday - 1
    BY <1>2 DEF Yesterday
  <2>2. date' \in ValidDates /\ DayAfter(date') = date
    BY <2>1, AfterBefore
  <2>3. Count(date) = Count(date') + 1
    BY <2>2, NextCounts
  <2>4. Count(date') \in Int
    <3>1. \A a \in ValidDates : Count(a) \in Int
      <4> TAKE a \in ValidDates
      <4>1. /\ MarchYear(a) \in Int /\ DayOfYear(a) \in Int
        BY MarchTypes
      <4>2. Count(a) = DayCount(MarchYear(a)) + DayOfYear(a) - 719468
        BY CountForm
      <4>3. DayCount(MarchYear(a)) \in Int
        <5>1. \A y \in Int : DayCount(y) \in Int
          BY SMTT(30) DEF DayCount, YearStart, DaysInEra
        <5> QED BY <4>1, <5>1
      <4> HIDE DEF Count, MarchYear, DayOfYear, DayCount
      <4> QED BY <4>1, <4>2, <4>3
    <3> QED BY <2>2, <3>1
  <2>5. weekday' = Weekday(day')
    BY <2>1, Weeks
  <2>6. Count(date') = day'
    <3> HIDE DEF Count
    <3> QED BY <2>1, <2>3, <2>4
  <2> QED BY <2>1, <2>2, <2>5, <2>6
<1>3. CASE UNCHANGED calendarVars
  BY <1>3 DEF calendarVars
<1> QED BY <1>1, <1>2, <1>3 DEF CalendarNext

\* A moment is the day and the second of the day it was made from.
LEMMA ClockReads ==
  ASSUME CalendarInv, NEW t \in Nat, t < 86400
  PROVE  ClockOk(t)
<1> DEFINE secs == day * 86400 + t
           f    == UtcFields(secs)
<1>1. day \in Int /\ date \in ValidDates /\ Count(date) = day /\ weekday = Weekday(day)
  BY DEF CalendarInv
<1>2. secs \div 86400 = day /\ secs % 86400 = t
  <2>1. secs \in Int /\ 86400 * day <= secs /\ secs < 86400 * day + 86400
    BY <1>1
  <2> HIDE DEF secs
  <2>2. secs \div 86400 = day
    BY <1>1, <2>1, DivUnique
  <2>3. secs = 86400 * (secs \div 86400) + (secs % 86400)
    BY <2>1, SMTT(30)
  <2>4. secs % 86400 \in Int
    BY <2>1, SMTT(30)
  <2>5. secs = 86400 * day + t
    BY <1>1 DEF secs
  <2> QED BY <1>1, <2>2, <2>3, <2>4, <2>5
<1>3. CivilFromDays(day) = date
  BY <1>1, Decoded
<1>4. /\ f.date = date /\ f.weekday = weekday
      /\ f.hour = Quot(t, 3600) /\ f.minute = Quot(t % 3600, 60) /\ f.second = t % 60
  <2> HIDE DEF secs
  <2> QED BY <1>1, <1>2, <1>3 DEF UtcFields
<1>5. Quot(t, 3600) * 3600 + Quot(t % 3600, 60) * 60 + (t % 60) = t
  BY SMTT(30) DEF Quot
<1>6. Quot(t, 3600) \in Int /\ Quot(t % 3600, 60) \in Int /\ t % 60 \in Int
  BY SMTT(30) DEF Quot
<1>7. UtcSecs(f.date, f.hour, f.minute, f.second) = secs
  <2>1. UtcSecs(f.date, f.hour, f.minute, f.second)
          = day * 86400 + Quot(t, 3600) * 3600 + Quot(t % 3600, 60) * 60 + (t % 60)
    BY <1>1, <1>4 DEF UtcSecs, Count
  <2> DEFINE h == Quot(t, 3600)
             m == Quot(t % 3600, 60)
             s == t % 60
  <2>2. h * 3600 + m * 60 + s = t /\ h \in Int /\ m \in Int /\ s \in Int
    BY <1>5, <1>6
  <2>3. day * 86400 + h * 3600 + m * 60 + s = day * 86400 + t
    <3> HIDE DEF h, m, s
    <3> QED BY <1>1, <2>2
  <2> QED BY <2>1, <2>3
<1> QED BY <1>4, <1>7 DEF ClockOk

\* On every day of the past and the future, and at every second of it, the
\* arithmetic of date.rs names the date and weekday that counting the days
\* one by one gives, and reads them back as that day and second.
THEOREM CalendarCorrect == CalendarSpec => []CalendarAgrees
<1>1. CalendarInv => CalendarAgrees
  <2> SUFFICES ASSUME CalendarInv PROVE CalendarAgrees
    OBVIOUS
  <2>1. DateOk
    BY Decoded DEF CalendarInv, DateOk, Count
  <2>2. \A t \in Seconds : ClockOk(t)
    <3> TAKE t \in Seconds
    <3>1. t \in Nat /\ t < 86400
      BY CalendarBounds
    <3> QED BY <3>1, ClockReads
  <2> QED BY <2>1, <2>2 DEF CalendarAgrees
<1> QED BY CalendarInvInit, CalendarInvNext, <1>1, PTL DEF CalendarSpec
=============================================================================
