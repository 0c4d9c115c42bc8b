-------------------------- MODULE AccountingProofs --------------------------
(***************************************************************************)
(* Proofs about the accounting: the day and the month of a stamp, for      *)
(* every day there is, every offset and every moment; the readings of the  *)
(* counters, for any ticks and any capacity of the curves; and the totals, *)
(* for any files and days, with what IngestProofs shows.                   *)
(***************************************************************************)
EXTENDS MCAccounting, IngestProofs, WellFoundedInduction, TLAPS

-----------------------------------------------------------------------------
(***************************************************************************)
(* The number of a day.                                                    *)
(***************************************************************************)

\* The days of the years up to and with y.
YearDays(y) == 365 * y + y \div 4 - y \div 100 + y \div 400

\* A year has 365 days, and one more if it is a leap year.
LEMMA YearStep ==
  ASSUME NEW y \in Int
  PROVE  YearDays(y) = YearDays(y - 1) + 365 + (IF Civil!Leap(y) THEN 1 ELSE 0)
BY SMTT(60) DEF YearDays, Civil!Leap

\* 400 years have 146097 days.
LEMMA EraStep ==
  ASSUME NEW r \in Int, NEW era \in Int
  PROVE  /\ YearDays(r + 400 * era) = YearDays(r) + 146097 * era
         /\ Civil!Leap(r + 400 * era) = Civil!Leap(r)
<1>1. /\ (r + 400 * era) \div 4 = r \div 4 + 100 * era
      /\ (r + 400 * era) \div 100 = r \div 100 + 4 * era
      /\ (r + 400 * era) \div 400 = r \div 400 + era
  BY SMTT(60)
<1>2. /\ (r + 400 * era) % 4 = r % 4 /\ (r + 400 * era) % 100 = r % 100
      /\ (r + 400 * era) % 400 = r % 400
  BY SMTT(60)
<1> QED BY <1>1, <1>2, SMTT(60) DEF YearDays, Civil!Leap

\* The years of days: more days for more years.
LEMMA YearsGrow ==
  ASSUME NEW y \in Int, NEW z \in Int, y <= z
  PROVE  YearDays(y) <= YearDays(z)
BY SMTT(60) DEF YearDays

\* The number of days of the years before one is a number.
LEMMA YearDaysInt ==
  ASSUME NEW y \in Int
  PROVE  YearDays(y) \in Int
BY SMTT(60) DEF YearDays

\* The year of a day of an era of 400 years, which begins in March, and the day
\* of that year, which has 366 days only if the year it ends in is a leap year.
LEMMA YearInEra ==
  ASSUME NEW doe \in Int, 0 <= doe, doe <= 146096
  PROVE  LET yoe == Civil!YearOfEra(doe)
             doy == Civil!DayOfYear(doe, yoe)
         IN  /\ yoe \in Int /\ doy \in Int /\ 0 <= doy /\ doy <= 365
             /\ doy = 365 => Civil!Leap(yoe + 1)
             /\ YearDays(yoe) = doe - doy
<1>1. PICK a \in Int, b \in Int, c \in Int :
         a = doe \div 1460 /\ b = doe \div 36524 /\ c = doe \div 146096
  BY SMTT(60)
<1>2. PICK yoe \in Int : yoe = (doe - a + b - c) \div 365
  BY <1>1, SMTT(60)
<1>3. PICK e \in Int, f \in Int : e = yoe \div 4 /\ f = yoe \div 100
  BY <1>2, SMTT(60)
<1>4. PICK doy \in Int : doy = doe - (365 * yoe + e - f)
  BY <1>2, <1>3, SMTT(60)
<1>5. 0 <= yoe /\ yoe <= 399 /\ 0 <= doy /\ doy <= 365
  BY <1>1, <1>2, <1>3, <1>4, SMTT(60)
<1>6. doy = 365 => Civil!Leap(yoe + 1)
  BY <1>1, <1>2, <1>3, <1>4, SMTT(60) DEF Civil!Leap
<1>7. YearDays(yoe) = doe - doy
  BY <1>2, <1>3, <1>4, <1>5, SMTT(60) DEF YearDays
<1>8. Civil!YearOfEra(doe) = yoe
  BY <1>1, <1>2, SMTT(60) DEF Civil!YearOfEra
<1>9. Civil!DayOfYear(doe, yoe) = doy
  BY <1>3, <1>4, SMTT(60) DEF Civil!DayOfYear
<1> QED BY <1>2, <1>4, <1>5, <1>6, <1>7, <1>8, <1>9

\* The number of a date from the days of the years before.
LEMMA NumberOf ==
  ASSUME NEW date, IsDate(date)
  PROVE  /\ date[1] \in Int /\ date[2] \in 1..12 /\ date[3] \in Nat
         /\ date = <<date[1], date[2], date[3]>>
         /\ DayNumber(date) = YearDays(date[1] - 1) - 719162 + MonthsBefore[date[2]]
                + (IF Civil!Leap(date[1]) /\ date[2] > 2 THEN 1 ELSE 0) + date[3] - 1
         /\ DayNumber(date) \in Int
BY SMTT(60) DEF IsDate, DayNumber, YearDays, MonthsBefore

\* The length of a month and the days before it, month by month.
LEMMA MonthTable ==
  ASSUME NEW y \in Int, NEW m \in 1..12
  PROVE  /\ MonthsBefore[m] \in 0..334 /\ Civil!Length(y, m) \in 28..31
         /\ m < 12 => MonthsBefore[m + 1] + (IF Civil!Leap(y) /\ m + 1 > 2 THEN 1 ELSE 0)
                         = MonthsBefore[m] + (IF Civil!Leap(y) /\ m > 2 THEN 1 ELSE 0)
                              + Civil!Length(y, m)
         /\ MonthsBefore[1] = 0 /\ MonthsBefore[12] = 334 /\ Civil!Length(y, 12) = 31
<1>1. m \in {1, 2, 3, 4, 5, 6, 7, 8, 9, 10, 11, 12}
  OBVIOUS
<1> QED BY <1>1, SMTT(60) DEF MonthsBefore, Civil!Length

\* The month of a day of the year that begins in March, and its day.
March(doy) == IF Civil!MonthOfYear(doy) < 10 THEN Civil!MonthOfYear(doy) + 3
              ELSE Civil!MonthOfYear(doy) - 9
DayOfMonth(doy) == doy - (153 * Civil!MonthOfYear(doy) + 2) \div 5 + 1

\* A day of the year, counted from March, is a day of a month in that month's length.
LEMMA MonthDay ==
  ASSUME NEW doy \in Int, 0 <= doy, doy <= 365, NEW y \in Int,
         doy = 365 => Civil!Leap(y)
  PROVE  /\ March(doy) \in 1..12 /\ DayOfMonth(doy) \in 1..Civil!Length(y, March(doy))
         /\ DayOfMonth(doy) \in Int
         /\ doy = 365 => March(doy) = 2
         /\ March(doy) <= 2 => MonthsBefore[March(doy)] + DayOfMonth(doy) = doy - 305
         /\ March(doy) > 2 => MonthsBefore[March(doy)] + DayOfMonth(doy) = doy + 60
<1>1. PICK mp \in Int : mp = (5 * doy + 2) \div 153
  BY SMTT(60)
<1>2. PICK m \in Int : m = IF mp < 10 THEN mp + 3 ELSE mp - 9
  BY <1>1, SMTT(60)
<1>3. PICK d \in Int : d = doy - (153 * mp + 2) \div 5 + 1
  BY <1>1, SMTT(60)
<1>4. Civil!MonthOfYear(doy) = mp
  BY <1>1, SMTT(60) DEF Civil!MonthOfYear
<1>5. March(doy) = m
  BY <1>2, <1>4, SMTT(60) DEF March
<1>6. DayOfMonth(doy) = d
  BY <1>3, <1>4, SMTT(60) DEF DayOfMonth
<1>7. mp \in {0, 1, 2, 3, 4, 5, 6, 7, 8, 9, 10, 11}
  BY <1>1, SMTT(60)
<1> DEFINE Goal == /\ m \in 1..12 /\ d \in 1..Civil!Length(y, m)
                   /\ doy = 365 => m = 2
                   /\ m <= 2 => MonthsBefore[m] + d = doy - 305
                   /\ m > 2 => MonthsBefore[m] + d = doy + 60
<1>8. Goal
  <2>1. CASE mp = 11
    <3>1. m = 2 /\ d = doy - 336 /\ doy >= 337
      BY <2>1, <1>1, <1>2, <1>3, SMTT(60)
    <3> QED BY <3>1, SMTT(60) DEF Civil!Length, MonthsBefore
  <2>2. CASE mp \in {0, 5, 10}
    BY <2>2, <1>1, <1>2, <1>3, SMTT(60) DEF Civil!Length, MonthsBefore
  <2>3. CASE mp \in {1, 2, 3, 4}
    BY <2>3, <1>1, <1>2, <1>3, SMTT(60) DEF Civil!Length, MonthsBefore
  <2>4. CASE mp \in {6, 7, 8, 9}
    BY <2>4, <1>1, <1>2, <1>3, SMTT(60) DEF Civil!Length, MonthsBefore
  <2> QED BY <1>7, <2>1, <2>2, <2>3, <2>4
<1> QED BY <1>3, <1>5, <1>6, <1>8

\* The days up to a date, from those of the year that begins in March.
LEMMA DaysTo ==
  ASSUME NEW yoe \in Int, NEW era \in Int, NEW doy \in Int, NEW m \in 1..12, NEW d \in Int,
         m <= 2 => MonthsBefore[m] + d = doy - 305,
         m > 2 => MonthsBefore[m] + d = doy + 60
  PROVE  LET y == yoe + era * 400 + (IF m <= 2 THEN 1 ELSE 0)
         IN  YearDays(y - 1) + MonthsBefore[m] + (IF Civil!Leap(y) /\ m > 2 THEN 1 ELSE 0) + d
                = YearDays(yoe) + 146097 * era + doy - 305
<1>1. YearDays(yoe + 400 * era) = YearDays(yoe) + 146097 * era
  BY EraStep
<1>2. YearDays(yoe) \in Int
  BY YearDaysInt
<1>3. PICK before \in Int : before = MonthsBefore[m]
  <2>1. MonthsBefore[m] \in 0..334
    BY MonthTable
  <2> QED BY <2>1
<1>4. CASE m <= 2
  <2>1. yoe + era * 400 + (IF m <= 2 THEN 1 ELSE 0) - 1 = yoe + 400 * era
    BY <1>4, SMTT(60)
  <2>2. before + d = doy - 305
    BY <1>3, <1>4
  <2>3. ~(m > 2)
    BY <1>4
  <2> QED BY <2>1, <2>2, <2>3, <1>1, <1>2, <1>3, SMTT(60)
<1>5. CASE m > 2
  <2>1. yoe + era * 400 + (IF m <= 2 THEN 1 ELSE 0) = yoe + 400 * era
    BY <1>5, SMTT(60)
  <2>2. before + d = doy + 60
    BY <1>3, <1>5
  <2>3. PICK y \in Int : y = yoe + 400 * era
    BY SMTT(60)
  <2>4. YearDays(y) = YearDays(y - 1) + 365 + (IF Civil!Leap(y) THEN 1 ELSE 0)
    BY YearStep
  <2>5. YearDays(y - 1) \in Int
    BY YearDaysInt
  <2>6. YearDays(y) = YearDays(yoe) + 146097 * era
    BY <2>3, <1>1
  <2>7. YearDays(y - 1) + before + (IF Civil!Leap(y) /\ m > 2 THEN 1 ELSE 0) + d
                = YearDays(yoe) + 146097 * era + doy - 305
    BY <2>2, <2>4, <2>5, <2>6, <1>2, <1>5, SMTT(60)
  <2> QED BY <2>1, <2>3, <2>7, <1>3
<1>6. m <= 2 \/ m > 2
  OBVIOUS
<1> QED BY <1>4, <1>5, <1>6

\* days_to_ymd gives the date of that number.
LEMMA DaysToDate ==
  ASSUME NEW n \in Int
  PROVE  IsDate(Civil!days_to_ymd(n)) /\ DayNumber(Civil!days_to_ymd(n)) = n
<1>1. PICK z \in Int : z = n + 719468
  OBVIOUS
<1>2. PICK era \in Int : era = z \div 146097
  BY <1>1, SMTT(60)
<1>3. PICK doe \in Int : doe = z - era * 146097 /\ 0 <= doe /\ doe <= 146096
  BY <1>2, SMTT(60)
<1>4. Civil!DayOfEra(z) = doe
  BY <1>2, <1>3, SMTT(60) DEF Civil!DayOfEra
<1>5. PICK yoe, doy : yoe = Civil!YearOfEra(doe) /\ doy = Civil!DayOfYear(doe, yoe)
  OBVIOUS
<1>6. /\ yoe \in Int /\ doy \in Int /\ 0 <= doy /\ doy <= 365
      /\ doy = 365 => Civil!Leap(yoe + 1)
      /\ YearDays(yoe) = doe - doy
  BY <1>3, <1>5, YearInEra
<1>7. PICK m, d : m = March(doy) /\ d = DayOfMonth(doy)
  OBVIOUS
<1>8. PICK y : y = yoe + era * 400 + (IF m <= 2 THEN 1 ELSE 0)
  OBVIOUS
<1>9. y \in Int
  BY <1>2, <1>6, <1>8
<1>10. Civil!days_to_ymd(n) = <<y, m, d>>
  <2>1. March(doy) = IF Civil!MonthOfYear(doy) < 10 THEN Civil!MonthOfYear(doy) + 3
                     ELSE Civil!MonthOfYear(doy) - 9
    BY DEF March
  <2>2. DayOfMonth(doy) = doy - (153 * Civil!MonthOfYear(doy) + 2) \div 5 + 1
    BY DEF DayOfMonth
  <2>3. Civil!Civil(z) = <<y, m, d>>
    BY <1>2, <1>4, <1>5, <1>7, <1>8, <2>1, <2>2 DEF Civil!Civil
  <2> QED BY <1>1, <2>3 DEF Civil!days_to_ymd
<1>11. doy = 365 => Civil!Leap(y)
  <2> SUFFICES ASSUME doy = 365 PROVE Civil!Leap(y)
    OBVIOUS
  <2>1. m = 2
    BY <1>6, <1>7, MonthDay
  <2>2. y = yoe + era * 400 + 1
    BY <2>1, <1>8
  <2>3. Civil!Leap(yoe + 1) /\ yoe \in Int
    BY <1>6
  <2>4. Civil!Leap(yoe + era * 400 + 1)
    BY <1>2, <2>3, SMTT(30) DEF Civil!Leap
  <2> QED BY <2>2, <2>4
<1>12. /\ m \in 1..12 /\ d \in 1..Civil!Length(y, m) /\ d \in Int
       /\ m <= 2 => MonthsBefore[m] + d = doy - 305
       /\ m > 2 => MonthsBefore[m] + d = doy + 60
  BY <1>6, <1>7, <1>9, <1>11, MonthDay
<1>13. IsDate(<<y, m, d>>)
  <2>1. Civil!Length(y, m) \in 28..31
    BY <1>9, <1>12, MonthTable
  <2>2. d \in Nat
    BY <2>1, <1>12
  <2> QED BY <2>2, <1>9, <1>12 DEF IsDate
<1>14. DayNumber(<<y, m, d>>) = YearDays(y - 1) - 719162 + MonthsBefore[m]
                                  + (IF Civil!Leap(y) /\ m > 2 THEN 1 ELSE 0) + d - 1
  BY <1>13, NumberOf
<1>15. YearDays(y - 1) + MonthsBefore[m] + (IF Civil!Leap(y) /\ m > 2 THEN 1 ELSE 0) + d
          = YearDays(yoe) + 146097 * era + doy - 305
  BY <1>2, <1>6, <1>8, <1>12, DaysTo
<1>16. YearDays(y - 1) \in Int
  BY <1>9, YearDaysInt
<1>17. MonthsBefore[m] \in Int
  <2>1. MonthsBefore[m] \in 0..334
    BY <1>9, <1>12, MonthTable
  <2> QED BY <2>1
<1>18. DayNumber(<<y, m, d>>) = n
  <2>1. n = 146097 * era + doe - 719468
    BY <1>1, <1>2, <1>3
  <2>2. PICK leap \in Int : leap = IF Civil!Leap(y) /\ m > 2 THEN 1 ELSE 0
    OBVIOUS
  <2> QED BY <2>1, <2>2, <1>2, <1>3, <1>6, <1>12, <1>14, <1>15, <1>16, <1>17
<1> QED BY <1>10, <1>13, <1>18

\* The day after has the next number.
LEMMA NextNumber ==
  ASSUME NEW date, IsDate(date)
  PROVE  IsDate(Civil!After(date)) /\ DayNumber(Civil!After(date)) = DayNumber(date) + 1
<1>1. PICK y \in Int, m \in 1..12, d \in Nat : date = <<y, m, d>>
  BY DEF IsDate
<1>2. PICK length \in 28..31 : length = Civil!Length(y, m)
  BY MonthTable
<1>3. 1 <= d /\ d <= length
  BY <1>1, <1>2 DEF IsDate
<1>4. PICK days \in Int : days = YearDays(y - 1)
  BY YearDaysInt
<1>5. PICK before \in 0..334 : before = MonthsBefore[m]
  BY MonthTable
<1>6. PICK leap \in 0..1 : leap = IF Civil!Leap(y) /\ m > 2 THEN 1 ELSE 0
  OBVIOUS
<1>7. DayNumber(date) = days - 719162 + before + leap + d - 1
  BY <1>1, <1>4, <1>5, <1>6, NumberOf, SMTT(30)
<1>8. CASE d < length
  <2>1. Civil!After(date) = <<y, m, d + 1>>
    BY <1>1, <1>2, <1>8 DEF Civil!After
  <2>2. IsDate(<<y, m, d + 1>>)
    BY <1>1, <1>2, <1>3, <1>8 DEF IsDate
  <2>3. DayNumber(<<y, m, d + 1>>) = days - 719162 + before + leap + (d + 1) - 1
    BY <2>2, <1>4, <1>5, <1>6, NumberOf
  <2> QED BY <2>1, <2>2, <2>3, <1>7
<1>9. CASE ~(d < length) /\ m < 12
  <2>1. Civil!After(date) = <<y, m + 1, 1>>
    BY <1>1, <1>2, <1>9 DEF Civil!After
  <2>2. IsDate(<<y, m + 1, 1>>)
    <3>1. Civil!Length(y, m + 1) \in 28..31
      BY <1>9, MonthTable
    <3> QED BY <3>1, <1>9 DEF IsDate
  <2>3. DayNumber(<<y, m + 1, 1>>) = days - 719162 + MonthsBefore[m + 1]
            + (IF Civil!Leap(y) /\ m + 1 > 2 THEN 1 ELSE 0) + 1 - 1
    BY <2>2, <1>4, NumberOf
  <2>4. MonthsBefore[m + 1] + (IF Civil!Leap(y) /\ m + 1 > 2 THEN 1 ELSE 0)
          = before + leap + length
    BY <1>2, <1>5, <1>6, <1>9, MonthTable
  <2>5. MonthsBefore[m + 1] \in 0..334
    BY <1>9, MonthTable
  <2> QED BY <2>1, <2>2, <2>3, <2>4, <2>5, <1>3, <1>7, <1>9
<1>10. CASE ~(d < length) /\ m = 12
  <2>1. Civil!After(date) = <<y + 1, 1, 1>>
    BY <1>1, <1>2, <1>10 DEF Civil!After
  <2>2. IsDate(<<y + 1, 1, 1>>)
    <3>1. Civil!Length(y + 1, 1) \in 28..31
      BY MonthTable
    <3> QED BY <3>1 DEF IsDate
  <2>3. MonthsBefore[1] = 0 /\ before = 334 /\ length = 31
    BY <1>2, <1>5, <1>10, MonthTable
  <2>4. DayNumber(<<y + 1, 1, 1>>) = YearDays(y) - 719162
    <3>1. DayNumber(<<y + 1, 1, 1>>) = YearDays((y + 1) - 1) - 719162 + MonthsBefore[1]
            + (IF Civil!Leap(y + 1) /\ 1 > 2 THEN 1 ELSE 0) + 1 - 1
      BY <2>2, NumberOf
    <3>2. (y + 1) - 1 = y /\ YearDays(y) \in Int
      BY YearDaysInt
    <3> QED BY <3>1, <3>2, <2>3
  <2>5. YearDays(y) = days + 365 + (IF Civil!Leap(y) THEN 1 ELSE 0)
    BY <1>4, YearStep
  <2> QED BY <2>1, <2>2, <2>3, <2>4, <2>5, <1>3, <1>6, <1>7, <1>10
<1> QED BY <1>8, <1>9, <1>10

\* The months of a year follow each other, and the year ends with the twelfth.
LEMMA MonthsFollow ==
  ASSUME NEW y \in Int, NEW m \in 1..12, NEW mm \in 1..12, m < mm
  PROVE  MonthsBefore[m] + (IF Civil!Leap(y) /\ m > 2 THEN 1 ELSE 0) + Civil!Length(y, m)
            <= MonthsBefore[mm] + (IF Civil!Leap(y) /\ mm > 2 THEN 1 ELSE 0)
<1>1. /\ m \in {1, 2, 3, 4, 5, 6, 7, 8, 9, 10, 11, 12}
      /\ mm \in {1, 2, 3, 4, 5, 6, 7, 8, 9, 10, 11, 12}
  OBVIOUS
<1> QED BY <1>1, SMTT(60) DEF MonthsBefore, Civil!Length

\* The days of a year are those of its months.
LEMMA DayOfTheYear ==
  ASSUME NEW y \in Int, NEW m \in 1..12, NEW d \in Int, 1 <= d, d <= Civil!Length(y, m)
  PROVE  LET nth == MonthsBefore[m] + (IF Civil!Leap(y) /\ m > 2 THEN 1 ELSE 0) + d
         IN  1 <= nth /\ nth <= 365 + (IF Civil!Leap(y) THEN 1 ELSE 0)
<1>1. m \in {1, 2, 3, 4, 5, 6, 7, 8, 9, 10, 11, 12}
  OBVIOUS
<1> QED BY <1>1, SMTT(60) DEF MonthsBefore, Civil!Length

\* The number of a date of an earlier year is smaller.
LEMMA EarlierYear ==
  ASSUME NEW y \in Int, NEW yy \in Int, y < yy,
         NEW nth \in Int, nth <= 365 + (IF Civil!Leap(y) THEN 1 ELSE 0),
         NEW other \in Int, 1 <= other
  PROVE  YearDays(y - 1) + nth < YearDays(yy - 1) + other
<1>1. YearDays(y) = YearDays(y - 1) + 365 + (IF Civil!Leap(y) THEN 1 ELSE 0)
  BY YearStep
<1>2. YearDays(y) <= YearDays(yy - 1)
  BY YearsGrow
<1>3. YearDays(y) \in Int /\ YearDays(y - 1) \in Int /\ YearDays(yy - 1) \in Int
  BY YearDaysInt
<1> QED BY <1>1, <1>2, <1>3

\* No two dates have the same number.
LEMMA NumberTells ==
  ASSUME NEW date, IsDate(date), NEW other, IsDate(other),
         DayNumber(date) = DayNumber(other)
  PROVE  date = other
<1>1. PICK y \in Int, m \in 1..12, d \in Nat : date = <<y, m, d>>
  BY DEF IsDate
<1>2. PICK yy \in Int, mm \in 1..12, dd \in Nat : other = <<yy, mm, dd>>
  BY DEF IsDate
<1>3. 1 <= d /\ d <= Civil!Length(y, m) /\ 1 <= dd /\ dd <= Civil!Length(yy, mm)
  <2>1. Civil!Length(y, m) \in 28..31 /\ Civil!Length(yy, mm) \in 28..31
    BY MonthTable
  <2> QED BY <2>1, <1>1, <1>2 DEF IsDate
<1>4. PICK days \in Int, ddays \in Int : days = YearDays(y - 1) /\ ddays = YearDays(yy - 1)
  BY YearDaysInt
<1>5. PICK before \in 0..334, bbefore \in 0..334 :
         before = MonthsBefore[m] /\ bbefore = MonthsBefore[mm]
  <2>1. MonthsBefore[m] \in 0..334 /\ MonthsBefore[mm] \in 0..334
    BY MonthTable
  <2> QED BY <2>1
<1>6. PICK leap \in 0..1, lleap \in 0..1 :
         /\ leap = IF Civil!Leap(y) /\ m > 2 THEN 1 ELSE 0
         /\ lleap = IF Civil!Leap(yy) /\ mm > 2 THEN 1 ELSE 0
  OBVIOUS
<1>7. DayNumber(date) = days - 719162 + before + leap + d - 1
  BY <1>1, <1>4, <1>5, <1>6, NumberOf, SMTT(30)
<1>8. DayNumber(other) = ddays - 719162 + bbefore + lleap + dd - 1
  BY <1>2, <1>4, <1>5, <1>6, NumberOf, SMTT(30)
<1>9. days + (before + leap + d) = ddays + (bbefore + lleap + dd)
  <2>1. /\ days \in Int /\ before \in Int /\ leap \in Int
        /\ ddays \in Int /\ bbefore \in Int /\ lleap \in Int
    BY <1>4, <1>5, <1>6
  <2>2. PICK n : n = DayNumber(date) /\ n = DayNumber(other)
    OBVIOUS
  <2>3. n = days - 719162 + before + leap + d - 1
    BY <1>7, <2>2
  <2>4. n = ddays - 719162 + bbefore + lleap + dd - 1
    BY <1>8, <2>2
  <2>5. days - 719162 + before + leap + d - 1 = ddays - 719162 + bbefore + lleap + dd - 1
    BY <2>3, <2>4, SMTT(30)
  <2> QED BY <2>1, <2>5, SMTT(30)
<1>10. /\ 1 <= before + leap + d
       /\ before + leap + d <= 365 + (IF Civil!Leap(y) THEN 1 ELSE 0)
  BY <1>3, <1>5, <1>6, DayOfTheYear
<1>11. /\ 1 <= bbefore + lleap + dd
       /\ bbefore + lleap + dd <= 365 + (IF Civil!Leap(yy) THEN 1 ELSE 0)
  BY <1>3, <1>5, <1>6, DayOfTheYear
<1>12. before + leap + d \in Int /\ bbefore + lleap + dd \in Int
  BY <1>5, <1>6
<1>13. y = yy
  <2>1. CASE y < yy
    BY <2>1, <1>4, <1>9, <1>10, <1>11, <1>12, EarlierYear
  <2>2. CASE yy < y
    BY <2>2, <1>4, <1>9, <1>10, <1>11, <1>12, EarlierYear
  <2> QED BY <2>1, <2>2
<1>14. before + leap + d = bbefore + lleap + dd
  BY <1>4, <1>9, <1>12, <1>13
<1>15. m = mm
  <2>1. ASSUME m < mm PROVE FALSE
    <3>1. before + leap + Civil!Length(y, m) <= bbefore + lleap
      BY <2>1, <1>5, <1>6, <1>13, MonthsFollow
    <3>2. Civil!Length(y, m) \in 28..31
      BY MonthTable
    <3> QED BY <3>1, <3>2, <1>3, <1>14
  <2>2. ASSUME mm < m PROVE FALSE
    <3>1. bbefore + lleap + Civil!Length(y, mm) <= before + leap
      BY <2>2, <1>5, <1>6, <1>13, MonthsFollow
    <3>2. Civil!Length(y, mm) \in 28..31
      BY MonthTable
    <3> QED BY <3>1, <3>2, <1>3, <1>13, <1>14
  <2> QED BY <2>1, <2>2
<1>16. before = bbefore /\ leap = lleap
  BY <1>5, <1>6, <1>13, <1>15
<1> QED BY <1>1, <1>2, <1>13, <1>14, <1>15, <1>16

\* ymd_to_epoch_days gives the number of a date, if it is not before 1970.
LEMMA DateToDays ==
  ASSUME NEW date, IsDate(date)
  PROVE  Civil!ymd_to_epoch_days(date[1], date[2], date[3])
            = IF DayNumber(date) < 0 THEN None ELSE DayNumber(date)
<1>1. PICK y \in Int, m \in 1..12, d \in Nat : date = <<y, m, d>>
  BY DEF IsDate
<1>2. d # 0
  <2>1. Civil!Length(y, m) \in 28..31
    BY MonthTable
  <2> QED BY <2>1, <1>1 DEF IsDate
<1>3. PICK yy \in Int, mm \in Int : /\ yy = (IF m <= 2 THEN y - 1 ELSE y)
                                    /\ mm = (IF m <= 2 THEN m + 9 ELSE m - 3)
  OBVIOUS
<1>4. PICK era \in Int : era = yy \div 400
  BY <1>3, SMTT(30)
<1>5. PICK yoe \in Int : yoe = yy - era * 400 /\ 0 <= yoe /\ yoe < 400
  BY <1>3, <1>4, SMTT(30)
<1>6. PICK e \in Int, f \in Int : e = yoe \div 4 /\ f = yoe \div 100
  BY <1>5, SMTT(30)
<1>7. PICK doy \in Int : doy = (153 * mm + 2) \div 5 + d - 1
  BY <1>3, SMTT(30)
<1>8. PICK all \in Int : all = era * 146097 + yoe * 365 + e - f + doy - 719468
  BY <1>4, <1>5, <1>6, <1>7, SMTT(30)
<1>9. Civil!ymd_to_epoch_days(y, m, d) = IF all < 0 THEN None ELSE all
  BY <1>2, <1>3, <1>4, <1>5, <1>6, <1>7, <1>8, SMTT(30) DEF Civil!ymd_to_epoch_days
<1>10. /\ m <= 2 => MonthsBefore[m] + d = doy - 305
       /\ m > 2 => MonthsBefore[m] + d = doy + 60
  <2>1. m \in {1, 2, 3, 4, 5, 6, 7, 8, 9, 10, 11, 12}
    OBVIOUS
  <2> QED BY <2>1, <1>3, <1>7, SMTT(30) DEF MonthsBefore
<1>11. y = yoe + era * 400 + (IF m <= 2 THEN 1 ELSE 0)
  BY <1>3, <1>4, <1>5, SMTT(30)
<1>12. YearDays(y - 1) + MonthsBefore[m] + (IF Civil!Leap(y) /\ m > 2 THEN 1 ELSE 0) + d
          = YearDays(yoe) + 146097 * era + doy - 305
  <2>1. PICK z : z = yoe + era * 400 + (IF m <= 2 THEN 1 ELSE 0)
    OBVIOUS
  <2>2. YearDays(z - 1) + MonthsBefore[m] + (IF Civil!Leap(z) /\ m > 2 THEN 1 ELSE 0) + d
           = YearDays(yoe) + 146097 * era + doy - 305
    <3>1. era \in Int /\ yoe \in Int /\ doy \in Int /\ d \in Int
      BY <1>4, <1>5, <1>7
    <3> QED BY <3>1, <1>10, <2>1, DaysTo, SMTT(30)
  <2>3. y = z
    BY <1>11, <2>1
  <2> QED BY <2>2, <2>3
<1>13. YearDays(yoe) = yoe * 365 + e - f
  BY <1>5, <1>6, SMTT(30) DEF YearDays
<1>14. DayNumber(date) = all
  <2>1. PICK days \in Int : days = YearDays(y - 1)
    BY YearDaysInt
  <2>2. PICK before \in 0..334 : before = MonthsBefore[m]
    BY MonthTable
  <2>3. PICK leap \in 0..1 : leap = IF Civil!Leap(y) /\ m > 2 THEN 1 ELSE 0
    OBVIOUS
  <2>4. DayNumber(date) = days - 719162 + before + leap + d - 1
    BY <1>1, <2>1, <2>2, <2>3, NumberOf, SMTT(30)
  <2>5. days + before + leap + d = YearDays(yoe) + 146097 * era + doy - 305
    BY <1>12, <2>1, <2>2, <2>3, SMTT(30)
  <2>6. days + before + leap + d = yoe * 365 + e - f + 146097 * era + doy - 305
    BY <1>13, <2>5, SMTT(30)
  <2>7. days \in Int /\ before \in Int /\ leap \in Int
    BY <2>1, <2>2, <2>3
  <2> HIDE <2>1, <2>2, <2>3
  <2> QED BY <2>4, <2>6, <2>7, <1>4, <1>5, <1>6, <1>7, <1>8, SMTT(30)
<1> QED BY <1>1, <1>9, <1>14

-----------------------------------------------------------------------------
(***************************************************************************)
(* The pages.                                                              *)
(***************************************************************************)

\* The pages are dates that follow each other, with the number of the day.
PagesTrue ==
    /\ number \in Int
    /\ \A i \in 1..3 : IsDate(pages[i]) /\ DayNumber(pages[i]) = number + i - 2
    /\ pages[2] = Civil!After(pages[1]) /\ pages[3] = Civil!After(pages[2])

\* The first pages are those of a date with its number.
LEMMA PagesBegin == Civil!Init => PagesTrue
<1> SUFFICES ASSUME Civil!Init PROVE PagesTrue
  OBVIOUS
<1>1. PICK s \in Starts : /\ number = s[1] + 1
                          /\ pages = <<s[2], Civil!After(s[2]), Civil!After(Civil!After(s[2]))>>
  BY DEF Civil!Init
<1>2. IsDate(s[2]) /\ s[1] = DayNumber(s[2])
  BY CalendarAssumption
<1>3. DayNumber(s[2]) \in Int
  BY <1>2, NumberOf
<1>4. /\ IsDate(Civil!After(s[2]))
      /\ DayNumber(Civil!After(s[2])) = s[1] + 1
  BY <1>2, NextNumber
<1>5. /\ IsDate(Civil!After(Civil!After(s[2])))
      /\ DayNumber(Civil!After(Civil!After(s[2]))) = s[1] + 1 + 1
  BY <1>4, NextNumber
<1>6. pages[1] = s[2] /\ pages[2] = Civil!After(s[2]) /\ pages[3] = Civil!After(Civil!After(s[2]))
  BY <1>1
<1> QED BY <1>1, <1>2, <1>3, <1>4, <1>5, <1>6 DEF PagesTrue

\* Turning a page adds a day to the date and one to its number.
LEMMA PagesTurn == PagesTrue /\ Civil!Next => PagesTrue'
<1> SUFFICES ASSUME PagesTrue, Civil!Next PROVE PagesTrue'
  OBVIOUS
<1>1. number' = number + 1 /\ number \in Int
  BY DEF Civil!Next, PagesTrue
<1>2. pages' = <<pages[2], pages[3], Civil!After(pages[3])>>
  BY DEF Civil!Next
<1>3. pages'[1] = pages[2] /\ pages'[2] = pages[3] /\ pages'[3] = Civil!After(pages[3])
  BY <1>2
<1>4. /\ IsDate(pages[2]) /\ DayNumber(pages[2]) = number
      /\ IsDate(pages[3]) /\ DayNumber(pages[3]) = number + 1
  BY <1>1 DEF PagesTrue
<1>5. /\ IsDate(Civil!After(pages[3]))
      /\ DayNumber(Civil!After(pages[3])) = number + 1 + 1
  BY <1>4, NextNumber
<1>6. pages[3] = Civil!After(pages[2])
  BY DEF PagesTrue
<1>7. \A i \in 1..3 : IsDate(pages'[i]) /\ DayNumber(pages'[i]) = number' + i - 2
  BY <1>1, <1>3, <1>4, <1>5
<1> QED BY <1>1, <1>3, <1>6, <1>7 DEF PagesTrue, IsDate, DayNumber

-----------------------------------------------------------------------------
(***************************************************************************)
(* The stamp of a record.                                                  *)
(***************************************************************************)

\* days_to_ymd gives the page of that day.
LEMMA PageOf ==
  ASSUME PagesTrue, NEW i \in 1..3
  PROVE  Civil!days_to_ymd(number + i - 2) = pages[i]
<1>1. number + i - 2 \in Int
  BY DEF PagesTrue
<1>2. IsDate(pages[i]) /\ DayNumber(pages[i]) = number + i - 2
  BY DEF PagesTrue
<1>3. /\ IsDate(Civil!days_to_ymd(number + i - 2))
      /\ DayNumber(Civil!days_to_ymd(number + i - 2)) = number + i - 2
  BY <1>1, DaysToDate
<1> QED BY <1>2, <1>3, NumberTells

\* The minutes of an instant, before and after the day it is of.
LEMMA Minutes ==
  ASSUME NEW n \in Int, NEW r \in Int
  PROVE  /\ (n * 1440 + r) \div 1440 = n + r \div 1440
         /\ (n * 1440 + r) % 1440 = r % 1440
BY SMTT(30)

\* What parse_rfc3339 makes of a stamp of this day.
LEMMA Parsed ==
  ASSUME PagesTrue, NEW o \in Offsets, NEW t \in Moments
  PROVE  LET utc == number * 1440 + t - o
         IN  Civil!parse_rfc3339(Civil!Today, t, o)
                = IF number < 0 THEN None ELSE IF utc < 0 THEN None ELSE utc
<1>1. o \in -840..840 /\ t \in 0..1439 /\ None \notin Int
  BY CalendarAssumption
<1>2. IsDate(pages[2]) /\ DayNumber(pages[2]) = number /\ number \in Int
  BY DEF PagesTrue
<1>3. Civil!ymd_to_epoch_days(Civil!Today[1], Civil!Today[2], Civil!Today[3])
         = IF number < 0 THEN None ELSE number
  BY <1>2, DateToDays DEF Civil!Today
<1>4. o \in -1439..1439
  BY <1>1
<1>5. CASE number < 0
  BY <1>3, <1>5 DEF Civil!parse_rfc3339
<1>6. CASE ~(number < 0)
  <2>1. Civil!ymd_to_epoch_days(Civil!Today[1], Civil!Today[2], Civil!Today[3]) = number
    BY <1>3, <1>6
  <2>2. number # None
    BY <1>1, <1>2
  <2> QED BY <2>1, <2>2, <1>4, <1>6 DEF Civil!parse_rfc3339, Civil!DayMinutes
<1> QED BY <1>5, <1>6

\* A stamp is read as its day and its moment, if its instant is not before 1970.
LEMMA StampRead ==
  ASSUME PagesTrue, NEW o \in Offsets, NEW t \in Moments,
         NEW instant, instant = Civil!parse_rfc3339(Civil!Today, t, o)
  PROVE  /\ instant # None =>
               /\ Civil!local_ymd(instant, -o) = Civil!Today
               /\ Civil!local_minute(instant, -o) = t
               /\ instant = number * Civil!DayMinutes + t - o
         /\ number >= 0 /\ number * Civil!DayMinutes + t - o >= 0 => instant # None
<1>1. o \in -840..840 /\ t \in 0..1439 /\ None \notin Int /\ number \in Int
  BY CalendarAssumption DEF PagesTrue
<1>2. PICK utc \in Int : utc = number * 1440 + t - o
  BY <1>1
<1>3. instant = IF number < 0 THEN None ELSE IF utc < 0 THEN None ELSE utc
  BY <1>2, Parsed
<1>4. instant # None => instant = utc
  BY <1>3
<1>5. number >= 0 /\ utc >= 0 => instant # None
  BY <1>1, <1>2, <1>3
<1>6. utc - (-o) = number * 1440 + t
  BY <1>1, <1>2
<1>7. (number * 1440 + t) \div 1440 = number /\ (number * 1440 + t) % 1440 = t
  BY <1>1, SMTT(30)
<1>8. Civil!local_ymd(utc, -o) = Civil!Today
  <2>1. Civil!days_to_ymd(number + 2 - 2) = pages[2]
    BY PageOf
  <2>2. number + 2 - 2 = number
    BY <1>1
  <2> QED BY <2>1, <2>2, <1>6, <1>7 DEF Civil!local_ymd, Civil!DayMinutes, Civil!Today
<1>9. Civil!local_minute(utc, -o) = t
  BY <1>6, <1>7 DEF Civil!local_minute, Civil!DayMinutes
<1> QED BY <1>2, <1>4, <1>5, <1>8, <1>9 DEF Civil!DayMinutes

\* A window begins with the first of its month, and tells its year and month.
LEMMA StartOf ==
  ASSUME NEW instant, NEW bias, NEW y \in Int, NEW m \in 1..12, NEW d \in Int,
         Civil!local_date_in_zone(instant, bias) = <<y, m, d>>
  PROVE  LET start == Civil!day_window(instant, bias).monthStart
         IN  /\ start = y * 10000 + m * 100 + 1
             /\ start \div 10000 = y /\ (start \div 100) % 100 = m
<1>1. Civil!day_window(instant, bias).monthStart = y * 10000 + m * 100 + 1
  BY DEF Civil!day_window, Civil!ymd_key
<1>2. PICK start \in Int : start = y * 10000 + m * 100 + 1
  OBVIOUS
<1>3. start \div 10000 = y
  BY <1>2, SMTT(30)
<1>4. start \div 100 = y * 100 + m
  BY <1>2, SMTT(30)
<1>5. (y * 100 + m) % 100 = m
  BY SMTT(30)
<1> QED BY <1>1, <1>2, <1>3, <1>4, <1>5

\* The window of a day: its month begins with the first of that month, and a day
\* is in it exactly if it shares the month.
LEMMA MonthOfWindow ==
  ASSUME NEW instant, NEW bias, IsDate(Civil!local_date_in_zone(instant, bias)),
         NEW date, IsDate(date)
  PROVE  LET here == Civil!local_date_in_zone(instant, bias)
         IN  Civil!contains_month_day(Civil!day_window(instant, bias), Civil!ymd_key(date))
                <=> <<date[1], date[2]>> = <<here[1], here[2]>>
<1>1. PICK y0 \in Int, m0 \in 1..12, d0 \in Nat :
         Civil!local_date_in_zone(instant, bias) = <<y0, m0, d0>>
  BY DEF IsDate
<1>2. PICK y \in Int, m \in 1..12, d \in Nat : date = <<y, m, d>>
  BY DEF IsDate
<1>3. d \in 1..31
  <2>1. Civil!Length(y, m) \in 28..31
    BY MonthTable
  <2> QED BY <2>1, <1>2 DEF IsDate
<1>4. PICK start \in Int : start = y0 * 10000 + m0 * 100 + 1
  OBVIOUS
<1>5. Civil!day_window(instant, bias).monthStart = start
  BY <1>4, <1>1, StartOf
<1>6. start \div 10000 = y0 /\ (start \div 100) % 100 = m0
  <2>1. LET first == Civil!day_window(instant, bias).monthStart
        IN  first \div 10000 = y0 /\ (first \div 100) % 100 = m0
    BY <1>1, StartOf
  <2> QED BY <2>1, <1>5
<1>7. PICK next \in Int :
         next = IF m0 = 12 THEN (y0 + 1) * 10000 + 101 ELSE y0 * 10000 + (m0 + 1) * 100 + 1
  OBVIOUS
<1>8. PICK given \in Int : given = y * 10000 + m * 100 + d
  OBVIOUS
<1>9. Civil!ymd_key(<<y, m, d>>) = given
  BY <1>8 DEF Civil!ymd_key
<1>10. (IF m0 = 12 THEN Civil!ymd_key(<<y0 + 1, 1, 1>>) ELSE Civil!ymd_key(<<y0, m0 + 1, 1>>))
         = next
  BY <1>7 DEF Civil!ymd_key
<1>11. Civil!contains_month_day(Civil!day_window(instant, bias), given)
         <=> start <= given /\ given < next
  BY <1>5, <1>6, <1>10 DEF Civil!contains_month_day
<1>12. start <= given /\ given < next <=> y = y0 /\ m = m0
  BY <1>4, <1>7, <1>8, <1>3, SMTT(30)
<1> QED BY <1>1, <1>2, <1>9, <1>11, <1>12

\* The biases are whole minutes, of less than a day.
LEMMA BiasIs ==
  ASSUME NEW b \in Civil!Biases
  PROVE  b \in -900..840
<1>1. PICK o \in Offsets, id \in 0..2 : b = Civil!windows_tz_bias_minutes(-o, 0, -60, id)
  BY DEF Civil!Biases
<1>2. o \in -840..840
  BY CalendarAssumption
<1>3. b = -o \/ b = -o - 60
  BY <1>1, <1>2 DEF Civil!windows_tz_bias_minutes
<1> QED BY <1>2, <1>3

\* An instant falls on the page of its local day, in the window of that page's month.
LEMMA WindowRight ==
  ASSUME PagesTrue, NEW b \in Civil!Biases, NEW t \in Moments
  PROVE  LET instant == number * Civil!DayMinutes + t
             place   == 2 + (t - b) \div Civil!DayMinutes
             seen    == Civil!day_window(instant, b)
             monthOf(date) == <<date[1], date[2]>>
         IN  /\ Civil!local_date_in_zone(instant, b) = pages[place]
             /\ seen.today = Civil!ymd_key(pages[place])
             /\ \A i \in 1..3 : Civil!contains_month_day(seen, Civil!ymd_key(pages[i]))
                                   <=> monthOf(pages[i]) = monthOf(pages[place])
             /\ pages[place][3] = 1 /\ place > 1 =>
                   Civil!previous_month_start(seen)
                      = Civil!ymd_key(<<pages[place - 1][1], pages[place - 1][2], 1>>)
<1>1. b \in -900..840 /\ t \in 0..1439 /\ number \in Int
  BY BiasIs, CalendarAssumption DEF PagesTrue
<1>2. PICK instant : instant = number * Civil!DayMinutes + t
  OBVIOUS
<1>3. PICK place : place = 2 + (t - b) \div Civil!DayMinutes
  OBVIOUS
<1>4. PICK seen : seen = Civil!day_window(instant, b)
  OBVIOUS
<1>5. place = 2 + (t - b) \div 1440 /\ instant = number * 1440 + t
  BY <1>2, <1>3 DEF Civil!DayMinutes
<1>6. place \in 1..3 /\ (instant - b) \div 1440 = number + place - 2
  <2>1. PICK r \in Int : r = t - b
    BY <1>1
  <2>2. -840 <= r /\ r <= 2339
    BY <1>1, <2>1
  <2>3. PICK k \in Int : k = r \div 1440 /\ -1 <= k /\ k <= 1
    BY <2>2, SMTT(30)
  <2>4. instant - b = number * 1440 + r
    BY <1>1, <1>5, <2>1
  <2>5. (number * 1440 + r) \div 1440 = number + r \div 1440
    BY <1>1, <2>1, Minutes
  <2>6. place = 2 + k
    BY <1>5, <2>1, <2>3
  <2> QED BY <1>1, <2>3, <2>4, <2>5, <2>6
<1>7. Civil!local_date_in_zone(instant, b) = pages[place]
  <2>1. Civil!days_to_ymd(number + place - 2) = pages[place]
    BY <1>6, PageOf
  <2> QED BY <2>1, <1>6 DEF Civil!local_date_in_zone, Civil!local_ymd, Civil!DayMinutes
<1>8. IsDate(pages[place])
  BY <1>6 DEF PagesTrue
<1>9. PICK y0 \in Int, m0 \in 1..12, d0 \in Nat : pages[place] = <<y0, m0, d0>>
  BY <1>8 DEF IsDate
<1>10. seen.today = Civil!ymd_key(pages[place])
  BY <1>4, <1>7 DEF Civil!day_window
<1>11. ASSUME NEW i \in 1..3
       PROVE  Civil!contains_month_day(seen, Civil!ymd_key(pages[i]))
                 <=> <<pages[i][1], pages[i][2]>> = <<pages[place][1], pages[place][2]>>
  <2>1. IsDate(pages[i])
    BY DEF PagesTrue
  <2> QED BY <2>1, <1>4, <1>7, <1>8, MonthOfWindow
<1>12. ASSUME pages[place][3] = 1, place > 1
       PROVE  Civil!previous_month_start(seen)
                 = Civil!ymd_key(<<pages[place - 1][1], pages[place - 1][2], 1>>)
  <2>1. place - 1 \in 1..2 /\ pages[place] = Civil!After(pages[place - 1])
    BY <1>6, <1>12 DEF PagesTrue
  <2>2. IsDate(pages[place - 1])
    BY <2>1 DEF PagesTrue
  <2>3. PICK y \in Int, m \in 1..12, d \in Nat : pages[place - 1] = <<y, m, d>> /\ 1 <= d
    <3>1. PICK y \in Int, m \in 1..12, d \in Nat : pages[place - 1] = <<y, m, d>>
      BY <2>2 DEF IsDate
    <3>2. Civil!Length(y, m) \in 28..31
      BY MonthTable
    <3>3. 1 <= d
      BY <2>2, <3>1, <3>2 DEF IsDate
    <3> QED BY <3>1, <3>3
  <2>4. y0 = (IF m < 12 THEN y ELSE y + 1) /\ m0 = (IF m < 12 THEN m + 1 ELSE 1)
    <3>1. <<y0, m0, d0>> = Civil!After(<<y, m, d>>) /\ d0 = 1
      BY <2>1, <2>3, <1>9, <1>12
    <3>2. ~(d < Civil!Length(y, m))
      BY <2>3, <3>1 DEF Civil!After
    <3> QED BY <3>1, <3>2 DEF Civil!After
  <2>5. seen.monthStart \div 10000 = y0 /\ (seen.monthStart \div 100) % 100 = m0
    <3>1. d0 \in Int /\ Civil!local_date_in_zone(instant, b) = <<y0, m0, d0>>
      BY <1>7, <1>9
    <3> QED BY <3>1, <1>4, StartOf
  <2>6. Civil!previous_month_start(seen)
          = Civil!ymd_key(IF m0 = 1 THEN <<y0 - 1, 12, 1>> ELSE <<y0, m0 - 1, 1>>)
    BY <2>5 DEF Civil!previous_month_start
  <2>7. (IF m0 = 1 THEN <<y0 - 1, 12, 1>> ELSE <<y0, m0 - 1, 1>>) = <<y, m, 1>>
    BY <2>4
  <2> QED BY <2>3, <2>6, <2>7
<1> QED BY <1>2, <1>3, <1>4, <1>7, <1>10, <1>11, <1>12

\* What the code makes of a stamp and of an instant follows from the pages' numbers.
LEMMA PagesStamp == PagesTrue => Civil!StampIsDay
<1> SUFFICES ASSUME PagesTrue PROVE Civil!StampIsDay
  OBVIOUS
<1> QED BY StampRead, WindowRight DEF Civil!StampIsDay

-----------------------------------------------------------------------------
\* Only the calendar's own steps touch its pages.
LEMMA PagesStep == PagesTrue /\ [AccountingNext]_accountingVars => PagesTrue'
<1> SUFFICES ASSUME PagesTrue, [AccountingNext]_accountingVars PROVE PagesTrue'
  OBVIOUS
<1>1. CASE OfCalendar(Civil!Next)
  BY <1>1, PagesTurn DEF OfCalendar
<1>2. CASE UNCHANGED calendarVars
  BY <1>2 DEF calendarVars, PagesTrue, IsDate, DayNumber
<1>3. OfCalendar(Civil!Next) \/ UNCHANGED calendarVars
  BY DEF AccountingNext, OfIngest, OfMonths, OfState, OfPrices, OfReadings, accountingVars,
         calendarVars
<1> QED BY <1>1, <1>2, <1>3

\* A record falls on the day and in the month of its stamp, whatever day that is
\* and from whatever zone it came (parse_rfc3339_ms, days_to_ymd, day_window).
THEOREM StampRight == AccountingSpec => []StampIsDay
<1>1. AccountingInit => PagesTrue
  BY PagesBegin DEF AccountingInit
<1>2. PagesTrue /\ [AccountingNext]_accountingVars => PagesTrue'
  BY PagesStep
<1>3. PagesTrue => StampIsDay
  BY PagesStamp DEF StampIsDay
<1> QED BY <1>1, <1>2, <1>3, PTL DEF AccountingSpec

-----------------------------------------------------------------------------
(***************************************************************************)
(* The readings.  A reading of the counters is held against what the       *)
(* machine did since the one before it.                                    *)
(***************************************************************************)

\* The most that any counter counts in an interval.
Most ==
    CHOOSE most \in 0..Uptime :
        /\ MaxSamples * most < Uptime
        /\ \A t \in Ticks : t.idle + t.system <= most /\ t.user <= most

\* Such a most there is.
LEMMA MostIs ==
  /\ Most \in Nat /\ MaxSamples * Most < Uptime
  /\ \A t \in Ticks : t \in Done /\ t.idle + t.system <= Most /\ t.user <= Most
<1>1. /\ Most \in 0..Uptime /\ MaxSamples * Most < Uptime
      /\ \A t \in Ticks : t.idle + t.system <= Most /\ t.user <= Most
  BY ReadingsAssumption, Zenon DEF Most
<1> QED BY <1>1, ReadingsAssumption

\* Only the counters that were never reset stand above those of the start.
CountersTrue ==
    /\ times \in Counted /\ own \in Nat
    /\ samples \in 0..MaxSamples /\ resets \in 0..MaxResets
    /\ resets = 0 => times.idle >= Uptime
    /\ resets # 0 => times.idle <= samples * Most

\* now and then are readings and done what the machine did since; done is None when the
\* counters started again in between.
Since(now, again, then, done) ==
    /\ then \in Counted \cup {None} /\ done \in Done \cup {None}
    /\ then = None => done = None
    /\ then # None /\ again = 0 => done # None /\ then.idle >= Uptime
    /\ then # None /\ done = None => then.idle >= Uptime
    /\ done # None => /\ now.idle = then.idle + done.idle
                      /\ now.kernel = then.kernel + done.idle + done.system
                      /\ now.user = then.user + done.user

\* What the code takes for the interval since a reading.
Passed(then) == IF then = None THEN None ELSE Counters!Interval(then, times)

\* The code measures an interval exactly when one can be told, and then it is
\* what the machine did.
LEMMA PassedIs ==
  ASSUME CountersTrue, NEW then, NEW done, Since(times, resets, then, done)
  PROVE  /\ Passed(then) # None <=> done # None /\ Counters!Total(done) > 0
         /\ Passed(then) # None =>
                Passed(then) = [idle |-> done.idle, kernel |-> done.idle + done.system,
                                user |-> done.user]
<1> DEFINE d == [c \in DOMAIN times |-> times[c] - then[c]]
<1>1. CASE then = None
  BY <1>1 DEF Passed, Since
<1>2. ASSUME then # None
      PROVE  /\ then \in Counted /\ times \in Counted
             /\ Passed(then) = IF (\E c \in DOMAIN d : d[c] < 0) \/ d.kernel + d.user = 0
                                  \/ d.idle > d.kernel THEN None ELSE d
             /\ DOMAIN d = {"idle", "kernel", "user"}
             /\ d = [idle |-> times.idle - then.idle, kernel |-> times.kernel - then.kernel,
                     user |-> times.user - then.user]
  <2>1. then \in Counted /\ times \in Counted
    BY <1>2 DEF Since, CountersTrue
  <2>2. DOMAIN times = {"idle", "kernel", "user"}
    BY <2>1 DEF Counted
  <2>3. d = [idle |-> times.idle - then.idle, kernel |-> times.kernel - then.kernel,
             user |-> times.user - then.user]
    BY <2>2
  <2> QED BY <1>2, <2>1, <2>2, <2>3 DEF Passed, Counters!Interval
<1>3. CASE then # None /\ done = None
  <2>1. times.idle < then.idle
    <3>1. resets # 0 /\ then.idle >= Uptime /\ times.idle <= samples * Most
      BY <1>3 DEF Since, CountersTrue
    <3>2. samples * Most <= MaxSamples * Most
      BY MostIs, ReadingsAssumption DEF CountersTrue
    <3> QED BY <1>2, <1>3, <3>1, <3>2, MostIs, ReadingsAssumption DEF Counted, CountersTrue
  <2>2. d["idle"] < 0
    BY <1>2, <1>3, <2>1 DEF Counted
  <2> QED BY <1>2, <1>3, <2>2
<1>4. CASE then # None /\ done # None
  <2>1. /\ done \in Done
        /\ times.idle = then.idle + done.idle
        /\ times.kernel = then.kernel + done.idle + done.system
        /\ times.user = then.user + done.user
    BY <1>4 DEF Since
  <2>2. /\ done.idle \in Nat /\ done.system \in Nat /\ done.user \in Nat
        /\ then.idle \in Nat /\ then.kernel \in Nat /\ then.user \in Nat
    BY <1>2, <1>4, <2>1 DEF Done, Counted
  <2>3. d = [idle |-> done.idle, kernel |-> done.idle + done.system, user |-> done.user]
    BY <1>2, <1>4, <2>1, <2>2
  <2> HIDE DEF d
  <2>4. d \in Counted
    BY <2>2, <2>3 DEF Counted
  <2>5. d # None
    BY <2>4, ReadingsAssumption
  <2>6. ~(\E c \in DOMAIN d : d[c] < 0) /\ ~(d.idle > d.kernel)
    BY <1>2, <1>4, <2>2, <2>3
  <2>7. d.kernel + d.user = Counters!Total(done) /\ Counters!Total(done) \in Nat
    BY <2>2, <2>3 DEF Counters!Total
  <2>8. Passed(then) = IF Counters!Total(done) = 0 THEN None ELSE d
    BY <1>2, <1>4, <2>6, <2>7
  <2> QED BY <1>4, <2>3, <2>5, <2>7, <2>8
<1> QED BY <1>1, <1>3, <1>4

-----------------------------------------------------------------------------
(* Ratios.                                                                 *)

\* A percentage in hundredths.
\* A hundredth of a percent is a number from 0 to 10000.
LEMMA PercentIs ==
  /\ \A n \in Counters!Percent : n \in Int /\ 0 <= n /\ n <= 10000
  /\ \A n \in Int : 0 <= n /\ n <= 10000 => n \in Counters!Percent
  /\ None \notin Counters!Percent
<1>1. \A n \in Counters!Percent : n \in Int
  BY DEF Counters!Percent
<1>2. None \notin Int
  BY CalendarAssumption
<1>3. None \notin Counters!Percent
  BY <1>1, <1>2
<1>4. /\ \A n \in Counters!Percent : n \in Int /\ 0 <= n /\ n <= 10000
      /\ \A n \in Int : 0 <= n /\ n <= 10000 => n \in Counters!Percent
  BY DEF Counters!Percent
<1> QED BY <1>3, <1>4

\* A part is between nothing and the whole.
LEMMA RatioIs ==
  ASSUME NEW part \in Int, NEW total \in Int, 0 <= part, part <= total, 0 < total
  PROVE  Counters!Ratio(part, total) \in Counters!Percent
<1> DEFINE q == (10000 * part) \div total
<1>1. q \in Int /\ q * total <= 10000 * part /\ 10000 * part < q * total + total
  OBVIOUS
<1> HIDE DEF q
<1>2. q <= 10000
  BY <1>1
<1>3. 0 <= q
  BY <1>1
<1> QED BY <1>1, <1>2, <1>3 DEF Counters!Ratio, q, Counters!Percent

\* Two parts make a whole but for what is cut from them.
LEMMA RatioSum ==
  ASSUME NEW a \in Int, NEW b \in Int, NEW total \in Int, 0 <= a, 0 <= b, 0 < total
  PROVE  Counters!Ratio(a + b, total) - Counters!Ratio(a, total) - Counters!Ratio(b, total) \in 0..1
<1> DEFINE q == (10000 * a) \div total
           r == (10000 * b) \div total
           s == (10000 * (a + b)) \div total
<1>1. /\ q \in Int /\ q * total <= 10000 * a /\ 10000 * a < q * total + total
      /\ r \in Int /\ r * total <= 10000 * b /\ 10000 * b < r * total + total
      /\ s \in Int /\ s * total <= 10000 * (a + b) /\ 10000 * (a + b) < s * total + total
  OBVIOUS
<1>2. Counters!Ratio(a + b, total) = s /\ Counters!Ratio(a, total) = q /\ Counters!Ratio(b, total) = r
  BY DEF Counters!Ratio
<1> HIDE DEF q, r, s
<1> DEFINE k == s - q - r
<1>3. k \in Int /\ k * total = s * total - q * total - r * total
  BY <1>1
<1> HIDE DEF k
<1>4. k * total < 2 * total /\ 0 - total < k * total
  BY <1>1, <1>3
<1>5. k < 2 /\ 0 - 1 < k
  BY <1>3, <1>4
<1> QED BY <1>1, <1>2, <1>3, <1>5 DEF k

\* A smoothed load lies between the old one and the new one.
LEMMA SmoothedIs ==
  ASSUME NEW old \in Counters!Percent, NEW load \in Counters!Percent
  PROVE  /\ Counters!Smoothed(old, load) \in Counters!Percent
         /\ old <= load => /\ old <= Counters!Smoothed(old, load)
                           /\ Counters!Smoothed(old, load) <= load
         /\ load <= old => /\ load <= Counters!Smoothed(old, load)
                           /\ Counters!Smoothed(old, load) <= old
<1>0. /\ old \in Int /\ 0 <= old /\ old <= 10000
      /\ load \in Int /\ 0 <= load /\ load <= 10000
  BY PercentIs
<1> DEFINE q == (35 * (load - old)) \div 100
           new == old + q
<1>1. Counters!Smoothed(old, load) = new
  BY PercentIs DEF Counters!Smoothed
<1>2. q \in Int /\ q * 100 <= 35 * (load - old) /\ 35 * (load - old) < q * 100 + 100
  BY <1>0
<1> HIDE DEF q
<1>3. new \in Int /\ new = old + q
  BY <1>0, <1>2
<1>6. new \in Int
  BY <1>0, <1>2
<1> HIDE DEF new
<1>4. CASE old <= load
  <2>1. old <= new /\ new <= load
    BY <1>0, <1>2, <1>3, <1>4
  <2>2. new \in Counters!Percent
    <3>1. old \in Int /\ load \in Int /\ 0 <= old /\ load <= 10000
      BY <1>0
    <3>2. 0 <= new /\ new <= 10000
      BY <1>3, <2>1, <3>1
    <3> QED BY <1>6, <3>2, PercentIs
  <2>3. load <= old => load <= new /\ new <= old
    BY <1>0, <1>3, <1>4, <2>1
  <2> QED BY <1>1, <2>1, <2>2, <2>3
<1>5. CASE load < old
  <2>1. load <= new /\ new <= old
    BY <1>0, <1>2, <1>3, <1>5
  <2>2. new \in Counters!Percent
    <3>1. old \in Int /\ load \in Int /\ 0 <= load /\ old <= 10000
      BY <1>0
    <3>2. 0 <= new /\ new <= 10000
      BY <1>3, <2>1, <3>1
    <3> QED BY <1>6, <3>2, PercentIs
  <2>3. ~(old <= load)
    BY <1>0, <1>5
  <2> QED BY <1>1, <2>1, <2>2, <2>3
<1> QED BY <1>0, <1>4, <1>5

-----------------------------------------------------------------------------
(* The ring of a curve.                                                    *)

Rings == [values: [0..Capacity - 1 -> Int], len: 0..Capacity, start: 0..Capacity - 1]

Wrap(i) == i % Capacity

\* The ring holds the end of the list, as much as there is room for.
RingOf(ring, list) ==
    /\ ring \in Rings /\ list \in Seq(Counters!Percent)
    /\ ring.len = IF Len(list) < Capacity THEN Len(list) ELSE Capacity
    /\ ring.len < Capacity => ring.start = 0
    /\ \A i \in 1..ring.len :
          ring.values[Wrap(ring.start + i - 1)] = (list[Len(list) - ring.len + i] + 50) \div 100

\* An index into the ring wraps once at most.
LEMMA WrapIs ==
  ASSUME NEW i \in Int, 0 <= i, i < 2 * Capacity
  PROVE  Wrap(i) = IF i < Capacity THEN i ELSE i - Capacity
<1>1. Capacity \in Nat /\ Capacity > 0
  BY ReadingsAssumption
<1>2. CASE i < Capacity
  BY <1>1, <1>2 DEF Wrap
<1>3. CASE i >= Capacity
  <2> DEFINE q == i \div Capacity
             r == i % Capacity
  <2>1. /\ q \in Int /\ r \in Int /\ i = q * Capacity + r /\ 0 <= r /\ r < Capacity
    BY <1>1
  <2> HIDE DEF q, r
  <2>2. q = 1
    BY <1>1, <1>3, <2>1
  <2> QED BY <1>1, <1>3, <2>1, <2>2 DEF r, Wrap
<1> QED BY <1>1, <1>2, <1>3

\* A point that is drawn goes to the end of the list.
LEMMA DrawnIs ==
  ASSUME NEW ring, NEW list, RingOf(ring, list), NEW percent \in Counters!Percent
  PROVE  RingOf(Counters!Drawn(ring, percent), Append(list, percent))
<1> DEFINE new == Append(list, percent)
           value == (percent + 50) \div 100
           drawn == Counters!Drawn(ring, percent)
<1>0. value \in Int
  BY DEF Counters!Percent
<1> HIDE DEF value
<1>1. /\ Capacity \in Nat /\ Capacity > 0
      /\ ring.values \in [0..Capacity - 1 -> Int] /\ ring.len \in Nat /\ ring.start \in Nat
      /\ ring.len <= Capacity /\ ring.start < Capacity /\ value \in Int
      /\ ring \in Rings
  <2>1. ring \in Rings /\ Capacity \in Nat /\ Capacity > 0
    BY ReadingsAssumption DEF RingOf
  <2> QED BY <1>0, <2>1 DEF Rings
<1>2. /\ new \in Seq(Counters!Percent) /\ Len(new) = Len(list) + 1 /\ Len(list) \in Nat
      /\ \A i \in 1..Len(list) : new[i] = list[i]
      /\ new[Len(list) + 1] = percent
  BY DEF RingOf
<1> HIDE DEF new
<1>3. \A i \in 1..ring.len :
          ring.values[Wrap(ring.start + i - 1)] = (list[Len(list) - ring.len + i] + 50) \div 100
  BY DEF RingOf
<1>9. drawn = Counters!Drawn(ring, percent)
  OBVIOUS
<1> HIDE DEF drawn
<1>4. ASSUME ring.len < Capacity PROVE RingOf(drawn, new)
  <2>1. ring.start = 0 /\ ring.len = Len(list)
    BY <1>1, <1>2, <1>4 DEF RingOf
  <2>2. drawn = [ring EXCEPT !.values[ring.len] = value, !.len = ring.len + 1]
    BY <1>4, <1>9 DEF Counters!Drawn, value
  <2>3. /\ drawn \in Rings /\ drawn.len = ring.len + 1 /\ drawn.start = 0
        /\ drawn.values = [ring.values EXCEPT ![ring.len] = value]
    <3>1. [ring.values EXCEPT ![ring.len] = value] \in [0..Capacity - 1 -> Int]
      BY <1>0, <1>1
    <3>2. ring.len + 1 \in 0..Capacity /\ 0 \in 0..Capacity - 1
      BY <1>1, <1>4
    <3>3. /\ drawn = [values |-> [ring.values EXCEPT ![ring.len] = value], len |-> ring.len + 1,
                       start |-> ring.start]
      BY <1>1, <2>2 DEF Rings
    <3> QED BY <2>1, <3>1, <3>2, <3>3 DEF Rings
  <2>4. ASSUME NEW i \in 1..drawn.len
        PROVE  drawn.values[Wrap(drawn.start + i - 1)]
                   = (new[Len(new) - drawn.len + i] + 50) \div 100
    <3>1. i \in Nat /\ i >= 1 /\ i <= ring.len + 1
      BY <1>1, <2>3
    <3>2. Wrap(drawn.start + i - 1) = i - 1
      BY <1>1, <1>4, <2>3, <3>1, WrapIs
    <3>3. Len(new) - drawn.len + i = i
      BY <1>2, <2>1, <2>3, <3>1
    <3>4. CASE i = ring.len + 1
      <4>1. drawn.values[ring.len] = value
        BY <1>1, <1>4, <2>3
      <4> QED BY <1>2, <2>1, <3>2, <3>3, <3>4, <4>1 DEF value
    <3>5. CASE i <= ring.len
      <4>1. Wrap(ring.start + i - 1) = i - 1
        BY <2>1, <2>3, <3>2
      <4>2. ring.values[i - 1] = (list[i] + 50) \div 100
        <5>1. Len(list) - ring.len + i = i
          BY <1>2, <2>1, <3>1
        <5> QED BY <1>3, <3>1, <3>5, <4>1, <5>1
      <4>3. drawn.values[i - 1] = ring.values[i - 1]
        BY <1>1, <1>4, <2>3, <3>1, <3>5
      <4>4. new[i] = list[i]
        BY <1>2, <2>1, <3>1, <3>5
      <4> QED BY <3>2, <3>3, <4>2, <4>3, <4>4
    <3> QED BY <1>1, <3>1, <3>4, <3>5
  <2>5. drawn.len = IF Len(new) < Capacity THEN Len(new) ELSE Capacity
    BY <1>1, <1>2, <1>4, <2>1, <2>3
  <2> QED BY <1>2, <2>3, <2>4, <2>5 DEF RingOf
<1>5. ASSUME ring.len = Capacity PROVE RingOf(drawn, new)
  <2>1. drawn = [ring EXCEPT !.values[ring.start] = value, !.start = Wrap(ring.start + 1)]
    BY <1>1, <1>5, <1>9 DEF Counters!Drawn, value, Wrap
  <2>2. Wrap(ring.start + 1) = IF ring.start + 1 < Capacity THEN ring.start + 1 ELSE 0
    BY <1>1, WrapIs
  <2>3. /\ drawn \in Rings /\ drawn.len = Capacity
        /\ drawn.start = IF ring.start + 1 < Capacity THEN ring.start + 1 ELSE 0
        /\ drawn.values = [ring.values EXCEPT ![ring.start] = value]
    <3>1. [ring.values EXCEPT ![ring.start] = value] \in [0..Capacity - 1 -> Int]
      BY <1>0, <1>1
    <3>2. Wrap(ring.start + 1) \in 0..Capacity - 1 /\ Capacity \in 0..Capacity
      BY <1>1, <2>2
    <3>3. /\ drawn = [values |-> [ring.values EXCEPT ![ring.start] = value], len |-> Capacity,
                       start |-> Wrap(ring.start + 1)]
      BY <1>1, <1>5, <2>1 DEF Rings
    <3> QED BY <2>2, <3>1, <3>2, <3>3 DEF Rings
  <2>4. Len(list) >= Capacity
    BY <1>1, <1>2, <1>5 DEF RingOf
  <2>5. ASSUME NEW i \in 1..drawn.len
        PROVE  drawn.values[Wrap(drawn.start + i - 1)]
                   = (new[Len(new) - drawn.len + i] + 50) \div 100
    <3>1. i \in Nat /\ i >= 1 /\ i <= Capacity
      BY <1>1, <2>3
    <3>2. Wrap(drawn.start + i - 1)
              = IF drawn.start + i - 1 < Capacity THEN drawn.start + i - 1
                ELSE drawn.start + i - 1 - Capacity
      <4>1. /\ drawn.start \in Int /\ 0 <= drawn.start /\ drawn.start < Capacity
        BY <1>1, <2>3
      <4> QED BY <1>1, <3>1, <4>1, WrapIs
    <3>3. CASE i = Capacity
      <4>1. Wrap(drawn.start + i - 1) = ring.start
        BY <1>1, <2>3, <3>2, <3>3
      <4>2. Len(new) - drawn.len + i = Len(list) + 1
        BY <1>1, <1>2, <2>3, <3>3
      <4>3. drawn.values[ring.start] = value
        BY <1>1, <2>3
      <4> QED BY <1>2, <4>1, <4>2, <4>3 DEF value
    <3>4. CASE i < Capacity
      <4>1. Wrap(ring.start + (i + 1) - 1)
                = IF ring.start + i < Capacity THEN ring.start + i ELSE ring.start + i - Capacity
        <5>1. ring.start + (i + 1) - 1 = ring.start + i
          BY <1>1, <3>1
        <5> QED BY <1>1, <3>1, <3>4, <5>1, WrapIs
      <4>2. Wrap(drawn.start + i - 1) = Wrap(ring.start + (i + 1) - 1)
        <5>1. CASE ring.start + 1 < Capacity
          <6>1. drawn.start + i - 1 = ring.start + i
            BY <1>1, <2>3, <3>1, <5>1
          <6> QED BY <3>2, <4>1, <6>1
        <5>2. CASE ring.start + 1 >= Capacity
          <6>1. ring.start = Capacity - 1 /\ drawn.start = 0
            BY <1>1, <2>3, <5>2
          <6>2. Wrap(drawn.start + i - 1) = i - 1
            BY <1>1, <3>1, <3>2, <3>4, <6>1
          <6>3. Wrap(ring.start + (i + 1) - 1) = i - 1
            BY <1>1, <3>1, <3>4, <4>1, <6>1
          <6> QED BY <6>2, <6>3
        <5> QED BY <1>1, <5>1, <5>2
      <4>3. /\ Wrap(drawn.start + i - 1) \in 0..Capacity - 1
            /\ Wrap(drawn.start + i - 1) # ring.start
        BY <1>1, <3>1, <3>4, <4>1, <4>2
      <4>4. drawn.values[Wrap(drawn.start + i - 1)]
                = ring.values[Wrap(drawn.start + i - 1)]
        BY <1>1, <2>3, <4>3
      <4>5. ring.values[Wrap(ring.start + (i + 1) - 1)]
                = (list[Len(list) - ring.len + (i + 1)] + 50) \div 100
        <5>1. i + 1 \in 1..ring.len
          BY <1>1, <1>5, <3>1, <3>4
        <5> QED BY <1>3, <5>1
      <4>6. /\ Len(new) - drawn.len + i = Len(list) - ring.len + (i + 1)
            /\ Len(list) - ring.len + (i + 1) \in 1..Len(list)
        BY <1>1, <1>2, <1>5, <2>3, <2>4, <3>1, <3>4
      <4>7. new[Len(new) - drawn.len + i] = list[Len(list) - ring.len + (i + 1)]
        BY <1>2, <4>6
      <4> QED BY <4>2, <4>4, <4>5, <4>7
    <3> QED BY <1>1, <3>1, <3>3, <3>4
  <2>6. drawn.len = IF Len(new) < Capacity THEN Len(new) ELSE Capacity
    BY <1>1, <1>2, <2>3, <2>4
  <2>7. ~(drawn.len < Capacity)
    BY <1>1, <2>3
  <2> QED BY <1>2, <2>3, <2>5, <2>6, <2>7 DEF RingOf
<1>6. RingOf(drawn, new)
  BY <1>1, <1>4, <1>5
<1> QED BY <1>6 DEF new, drawn

\* So the points of the curve are the last of the list.
LEMMA PointsAre ==
  ASSUME NEW ring, NEW list, RingOf(ring, list)
  PROVE  Counters!Points(ring) = Counters!Percents(Counters!Last(list))
<1> DEFINE from == IF Len(list) > Capacity THEN Len(list) - Capacity + 1 ELSE 1
           last == SubSeq(list, from, Len(list))
<1>1. /\ Capacity \in Nat /\ Capacity > 0 /\ Len(list) \in Nat /\ list \in Seq(Counters!Percent)
      /\ ring.len = IF Len(list) < Capacity THEN Len(list) ELSE Capacity
  BY ReadingsAssumption DEF RingOf
<1>9. /\ Len(list) > Capacity => from = Len(list) - Capacity + 1
      /\ ~(Len(list) > Capacity) => from = 1
  OBVIOUS
<1> HIDE DEF from
<1>2. from \in Nat /\ from >= 1 /\ Len(list) - from + 1 = ring.len /\ ring.len \in Nat
      /\ from \in Int
  <2>1. CASE Len(list) > Capacity
    <3>1. from = Len(list) - Capacity + 1 /\ ring.len = Capacity
      BY <1>1, <1>9, <2>1
    <3> QED BY <1>1, <2>1, <3>1
  <2>2. CASE ~(Len(list) > Capacity)
    <3>1. from = 1 /\ ring.len = Len(list)
      BY <1>1, <1>9, <2>2
    <3> QED BY <1>1, <3>1
  <2> QED BY <2>1, <2>2
<1>3. /\ DOMAIN last = 1..ring.len
      /\ \A i \in 1..ring.len : last[i] = list[from + i - 1]
  BY <1>1, <1>2
<1>4. ASSUME NEW i \in 1..ring.len PROVE from + i - 1 = Len(list) - ring.len + i
  <2>1. \A n, l, f, k \in Int : n - f + 1 = l => f + k - 1 = n - l + k
    OBVIOUS
  <2>2. /\ Len(list) \in Int /\ ring.len \in Int /\ i \in Int /\ from \in Int
        /\ Len(list) - from + 1 = ring.len
    BY <1>1, <1>2
  <2> QED BY <2>1, <2>2
<1>5. ASSUME NEW i \in 1..ring.len
      PROVE  ring.values[Wrap(ring.start + i - 1)] = (last[i] + 50) \div 100
  <2>1. last[i] = list[Len(list) - ring.len + i]
    BY <1>3, <1>4
  <2>2. ring.values[Wrap(ring.start + i - 1)] = (list[Len(list) - ring.len + i] + 50) \div 100
    BY DEF RingOf
  <2> QED BY <2>1, <2>2
<1>6. Counters!Last(list) = last
  BY DEF Counters!Last, from
<1> HIDE DEF last
<1>7. Counters!Percents(last) = [i \in 1..ring.len |-> (last[i] + 50) \div 100]
  BY <1>3 DEF Counters!Percents
<1>8. Counters!Points(ring) = [i \in 1..ring.len |-> ring.values[Wrap(ring.start + i - 1)]]
  BY DEF Counters!Points, Wrap
<1> QED BY <1>5, <1>6, <1>7, <1>8

-----------------------------------------------------------------------------
(* The steps.                                                              *)

Parts == [total: Int, system: Int, user: Int, idle: Int]

\* The smoothed load lies between two of the loads, the raw one is the last.
SamplerTrue ==
    /\ sampler \in [previous: Counted \cup {None}, smoothed: Counters!Percent \cup {None},
                    raw: Parts \cup {None}]
    /\ Since(times, resets, sampler.previous, spent)
    /\ loads \in Seq(Counters!Percent)
    /\ sampler.smoothed = None <=> loads = <<>>
    /\ loads # <<>> =>
          /\ \E i, j \in DOMAIN loads : loads[i] <= sampler.smoothed /\ sampler.smoothed <= loads[j]
          /\ sampler.raw.total = loads[Len(loads)]
          /\ sampler.raw.total - sampler.raw.system - sampler.raw.user \in 0..1

\* RunDog's ticks are counted from the same reading as the machine's, and are
\* never more than those.
OwnSince ==
    /\ ownSpent \in [ticks: Nat, of: Done] \cup {None}
    /\ Since(times, resets, process.previous, IF ownSpent = None THEN None ELSE ownSpent.of)
    /\ ownSpent # None => /\ own = process.own + ownSpent.ticks
                          /\ ownSpent.ticks <= ownSpent.of.user
ShareKept ==
    /\ process \in [previous: Counted \cup {None}, own: Nat, share: Counters!Percent \cup {None}]
    /\ process.share = ownShare

CurvesKept ==
    /\ DOMAIN curves = {"cpu", "memory"}
    /\ RingOf(curves["cpu"], loads) /\ RingOf(curves["memory"], remembered)
    /\ memory \in Counters!Percent \cup {None}

ReadingsInv == CountersTrue /\ SamplerTrue /\ OwnSince /\ ShareKept /\ CurvesKept

\* The ticks of an interval are a number, and no part is more than all.
LEMMA TotalIs ==
  ASSUME NEW done \in Done
  PROVE  /\ Counters!Total(done) = done.idle + done.system + done.user
         /\ Counters!Total(done) \in Nat
         /\ done.idle \in Nat /\ done.system \in Nat /\ done.user \in Nat
BY DEF Counters!Total, Done

\* Nothing has been read when RunDog starts.
LEMMA ReadingsBegin == Counters!Init => ReadingsInv
<1> SUFFICES ASSUME Counters!Init PROVE ReadingsInv
  OBVIOUS
<1>1. CountersTrue
  <2>1. times = [idle |-> Uptime, kernel |-> Uptime, user |-> Uptime]
    BY DEF Counters!Init, Counters!Idle
  <2>2. own = 0 /\ samples = 0 /\ resets = 0
    BY DEF Counters!Init
  <2> QED BY <2>1, <2>2, ReadingsAssumption DEF CountersTrue, Counted
<1>2. SamplerTrue
  <2>1. /\ sampler = [previous |-> None, smoothed |-> None, raw |-> None]
        /\ spent = None /\ loads = <<>>
    BY DEF Counters!Init
  <2> QED BY <2>1 DEF SamplerTrue, Since
<1>3. OwnSince /\ ShareKept
  <2>1. /\ process = [previous |-> None, own |-> 0, share |-> None]
        /\ ownSpent = None /\ ownShare = None
    BY DEF Counters!Init
  <2> QED BY <2>1 DEF OwnSince, ShareKept, Since
<1>4. CurvesKept
  <2>1. /\ curves = [c \in {"cpu", "memory"} |-> Counters!NoPoints]
        /\ memory = None /\ loads = <<>> /\ remembered = <<>>
    BY DEF Counters!Init
  <2>2. RingOf(Counters!NoPoints, <<>>)
    <3>1. 0 \in 0..Capacity /\ 0 \in 0..Capacity - 1 /\ 0 < Capacity
      BY ReadingsAssumption
    <3>2. Counters!NoPoints \in Rings /\ Counters!NoPoints.len = 0 /\ Counters!NoPoints.start = 0
      BY <3>1 DEF Counters!NoPoints, Rings
    <3>3. Len(<<>>) = 0 /\ <<>> \in Seq(Counters!Percent)
      OBVIOUS
    <3> QED BY <3>1, <3>2, <3>3 DEF RingOf
  <2> QED BY <2>1, <2>2 DEF CurvesKept
<1> QED BY <1>1, <1>2, <1>3, <1>4 DEF ReadingsInv

\* Time that passes is added to what was done since either reading.
LEMMA SinceGrows ==
  ASSUME NEW now \in Counted, NEW again, NEW then, NEW done, Since(now, again, then, done),
         NEW t \in Done,
         NEW later, later = [idle |-> now.idle + t.idle,
                             kernel |-> now.kernel + t.idle + t.system,
                             user |-> now.user + t.user]
  PROVE  /\ Since(later, again, then, IF done = None THEN None ELSE Counters!Added(done, t))
         /\ done # None => /\ Counters!Added(done, t) \in Done
                           /\ Counters!Added(done, t).user = done.user + t.user
<1>1. CASE done = None
  BY <1>1 DEF Since
<1>2. CASE done # None
  <2>1. /\ done \in Done /\ then # None /\ then \in Counted
        /\ now.idle = then.idle + done.idle
        /\ now.kernel = then.kernel + done.idle + done.system
        /\ now.user = then.user + done.user
    BY <1>2 DEF Since
  <2>2. Counters!Added(done, t) = [idle |-> done.idle + t.idle, system |-> done.system + t.system,
                                   user |-> done.user + t.user]
    BY <2>1 DEF Counters!Added, Done
  <2>3. Counters!Added(done, t) \in Done
    BY <2>1, <2>2 DEF Done
  <2>4. Counters!Added(done, t) # None
    BY <2>3, ReadingsAssumption
  <2>5. /\ now.idle \in Nat /\ now.kernel \in Nat /\ now.user \in Nat
        /\ then.idle \in Nat /\ then.kernel \in Nat /\ then.user \in Nat
        /\ done.idle \in Nat /\ done.system \in Nat /\ done.user \in Nat
        /\ t.idle \in Nat /\ t.system \in Nat /\ t.user \in Nat
    BY <2>1 DEF Counted, Done
  <2>6. /\ later.idle = then.idle + (done.idle + t.idle)
        /\ later.kernel = then.kernel + (done.idle + t.idle) + (done.system + t.system)
        /\ later.user = then.user + (done.user + t.user)
    BY <2>1, <2>5
  <2> QED BY <1>2, <2>1, <2>2, <2>3, <2>4, <2>6 DEF Since
<1> QED BY <1>1, <1>2

\* From a reading that has just been made nothing has passed.
LEMMA SinceNow ==
  ASSUME NEW now \in Counted, NEW again, again = 0 => now.idle >= Uptime
  PROVE  Since(now, again, now, Counters!NoTicks)
<1>1. Counters!NoTicks \in Done
  BY DEF Counters!NoTicks, Done
<1>2. Counters!NoTicks # None /\ now # None
  BY <1>1, ReadingsAssumption
<1>3. now.idle \in Nat /\ now.kernel \in Nat /\ now.user \in Nat
  BY DEF Counted
<1> QED BY <1>1, <1>2, <1>3 DEF Since, Counters!NoTicks

\* After a start of the counters every earlier reading stands above them.
LEMMA SinceReset ==
  ASSUME NEW now, NEW then, NEW done, Since(now, 0, then, done), NEW zero, NEW again, again # 0
  PROVE  Since(zero, again, then, None)
BY DEF Since

\* Time passes: the ticks are added to what was done since either reading.
LEMMA ElapseKeeps == ReadingsInv /\ Counters!Elapse => ReadingsInv'
<1> SUFFICES ASSUME ReadingsInv, Counters!Elapse PROVE ReadingsInv'
  OBVIOUS
<1> USE DEF ReadingsInv
<1>1. PICK t \in Ticks, part \in 0..1 :
          /\ part <= t.user
          /\ times' = [idle |-> times.idle + t.idle,
                       kernel |-> times.kernel + t.idle + t.system, user |-> times.user + t.user]
          /\ own' = own + part
          /\ spent' = IF spent = None THEN None ELSE Counters!Added(spent, t)
          /\ ownSpent' = IF ownSpent = None THEN None
                         ELSE [ticks |-> ownSpent.ticks + part,
                               of |-> Counters!Added(ownSpent.of, t)]
  BY DEF Counters!Elapse
<1>2. /\ samples < MaxSamples /\ samples' = samples + 1 /\ resets' = resets
      /\ sampler' = sampler /\ process' = process /\ curves' = curves /\ memory' = memory
      /\ ownShare' = ownShare /\ loads' = loads /\ remembered' = remembered
  BY DEF Counters!Elapse, Counters!state
<1>3. t \in Done /\ t.idle + t.system <= Most /\ Most \in Nat
      /\ t.idle \in Nat /\ t.system \in Nat /\ t.user \in Nat
  BY MostIs DEF Done
<1>4. /\ times \in Counted /\ times.idle \in Nat /\ times.kernel \in Nat /\ times.user \in Nat
      /\ samples \in Nat
  BY DEF CountersTrue, Counted
<1>5. CountersTrue'
  <2>1. times' \in Counted
    BY <1>1, <1>3, <1>4 DEF Counted
  <2>2. own' \in Nat
    BY <1>1 DEF CountersTrue
  <2>3. times'.idle = times.idle + t.idle
    BY <1>1
  <2>4. resets' = 0 => times'.idle >= Uptime
    BY <1>2, <1>3, <1>4, <2>3, ReadingsAssumption DEF CountersTrue
  <2>5. resets' # 0 => times'.idle <= samples' * Most
    <3>1. (samples + 1) * Most = samples * Most + Most
      BY <1>3, <1>4
    <3> QED BY <1>2, <1>3, <1>4, <2>3, <3>1 DEF CountersTrue
  <2>6. samples' \in 0..MaxSamples /\ resets' \in 0..MaxResets
    BY <1>2, <1>4, ReadingsAssumption DEF CountersTrue
  <2> QED BY <2>1, <2>2, <2>4, <2>5, <2>6 DEF CountersTrue
<1>6. SamplerTrue'
  <2>1. Since(times', resets, sampler.previous, spent')
    BY <1>1, <1>3, <1>4, SinceGrows DEF SamplerTrue
  <2> QED BY <1>2, <2>1 DEF SamplerTrue
<1>7. OwnSince'
  <2>1. CASE ownSpent = None
    <3>1. Since(times', resets, process.previous, IF None = None THEN None ELSE Counters!Added(None, t))
      BY <1>1, <1>3, <1>4, <2>1, SinceGrows DEF OwnSince
    <3>2. ownSpent' = None
      BY <1>1, <2>1
    <3> QED BY <1>2, <3>1, <3>2 DEF OwnSince
  <2>2. CASE ownSpent # None
    <3>1. /\ ownSpent \in [ticks: Nat, of: Done] /\ ownSpent.of \in Done /\ ownSpent.of # None
          /\ ownSpent.ticks \in Nat /\ ownSpent.of.user \in Nat
          /\ Since(times, resets, process.previous, ownSpent.of)
      BY <2>2, ReadingsAssumption DEF OwnSince, Done
    <3>2. /\ Since(times', resets, process.previous,
                   IF ownSpent.of = None THEN None ELSE Counters!Added(ownSpent.of, t))
          /\ Counters!Added(ownSpent.of, t) \in Done
          /\ Counters!Added(ownSpent.of, t).user = ownSpent.of.user + t.user
      BY <1>1, <1>3, <1>4, <3>1, SinceGrows
    <3>3. ownSpent' = [ticks |-> ownSpent.ticks + part, of |-> Counters!Added(ownSpent.of, t)]
      BY <1>1, <2>2
    <3>4. ownSpent' \in [ticks: Nat, of: Done] /\ ownSpent' # None
      BY <3>1, <3>2, <3>3, ReadingsAssumption
    <3>5. Since(times', resets, process.previous, ownSpent'.of)
      BY <3>1, <3>2, <3>3
    <3>6. own' = process.own + ownSpent'.ticks /\ ownSpent'.ticks <= ownSpent'.of.user
      <4>1. own = process.own + ownSpent.ticks /\ ownSpent.ticks <= ownSpent.of.user
            /\ process.own \in Nat
        BY <2>2 DEF OwnSince, ShareKept
      <4>2. own' = own + part /\ part \in Int /\ part <= t.user
        BY <1>1
      <4>3. ownSpent'.ticks = ownSpent.ticks + part /\ ownSpent'.of.user = ownSpent.of.user + t.user
        BY <3>2, <3>3
      <4>4. \A a, b, c, d, e \in Int : b <= c /\ d <= e =>
                /\ (a + b) + d = a + (b + d)
                /\ b + d <= c + e
        OBVIOUS
      <4> QED BY <1>3, <3>1, <4>1, <4>2, <4>3, <4>4
    <3> QED BY <1>2, <3>4, <3>5, <3>6 DEF OwnSince
  <2> QED BY <2>1, <2>2
<1>8. ShareKept' /\ CurvesKept'
  BY <1>2 DEF ShareKept, CurvesKept
<1> QED BY <1>5, <1>6, <1>7, <1>8

\* The counters start again: they stand below every earlier reading.
LEMMA ResetKeeps == ReadingsInv /\ Counters!Reset => ReadingsInv'
<1> SUFFICES ASSUME ReadingsInv, Counters!Reset PROVE ReadingsInv'
  OBVIOUS
<1> USE DEF ReadingsInv
<1>1. /\ resets < MaxResets /\ resets' = resets + 1
      /\ times' = [idle |-> 0, kernel |-> 0, user |-> 0]
      /\ spent' = None /\ ownSpent' = None
      /\ own' = own /\ samples' = samples
      /\ sampler' = sampler /\ process' = process /\ curves' = curves /\ memory' = memory
      /\ ownShare' = ownShare /\ loads' = loads /\ remembered' = remembered
  BY DEF Counters!Reset, Counters!state, Counters!Idle
<1>2. resets = 0 /\ resets' = 1 /\ MaxResets = 1
  BY <1>1, ReadingsAssumption DEF CountersTrue
<1>3. CountersTrue'
  <2>1. 0 <= samples * Most
    BY MostIs DEF CountersTrue
  <2>2. times' \in Counted /\ times'.idle = 0
    BY <1>1 DEF Counted
  <2> QED BY <1>1, <1>2, <2>1, <2>2 DEF CountersTrue
<1>4. SamplerTrue'
  <2>1. Since(times', 1, sampler.previous, None)
    BY <1>2, SinceReset DEF SamplerTrue
  <2> QED BY <1>1, <1>2, <2>1 DEF SamplerTrue
<1>5. OwnSince'
  <2>1. Since(times', 1, process.previous, None)
    BY <1>2, SinceReset DEF OwnSince
  <2> QED BY <1>1, <1>2, <2>1 DEF OwnSince
<1>6. ShareKept' /\ CurvesKept'
  BY <1>1 DEF ShareKept, CurvesKept
<1> QED BY <1>3, <1>4, <1>5, <1>6

\* The share of RunDog is that of the interval since its last good reading.
LEMMA ProcessKeeps ==
  ASSUME ReadingsInv, UNCHANGED <<times, own, resets>>,
         NEW succeeds \in BOOLEAN, Counters!SampleProcess(succeeds)
  PROVE  OwnSince' /\ ShareKept'
<1> USE DEF ReadingsInv
<1>1. CASE ~succeeds
  BY <1>1 DEF Counters!SampleProcess, OwnSince, ShareKept
<1>2. CASE succeeds
  <2> DEFINE done == IF ownSpent = None THEN None ELSE ownSpent.of
             d == Passed(process.previous)
  <2>1. /\ process' = [previous |-> times, own |-> own,
                       share |-> IF d = None THEN None ELSE Counters!Share(d, own - process.own)]
        /\ ownSpent' = [ticks |-> 0, of |-> Counters!NoTicks]
        /\ ownShare' = IF ownSpent = None \/ Counters!Total(ownSpent.of) = 0 THEN None
                       ELSE Counters!Ratio(ownSpent.ticks, Counters!Total(ownSpent.of))
    BY <1>2 DEF Counters!SampleProcess, Counters!Measured, Passed
  <2>2. /\ d # None <=> done # None /\ Counters!Total(done) > 0
        /\ d # None => d = [idle |-> done.idle, kernel |-> done.idle + done.system,
                            user |-> done.user]
    BY PassedIs DEF OwnSince
  <2>3. times \in Counted /\ own \in Nat /\ (resets = 0 => times.idle >= Uptime)
    BY DEF CountersTrue
  <2> HIDE DEF d
  <2>4. OwnSince'
    <3>1. Counters!NoTicks \in Done /\ Counters!NoTicks.user = 0
      BY DEF Counters!NoTicks, Done
    <3>2. ownSpent' \in [ticks: Nat, of: Done] /\ ownSpent'.ticks = 0 /\ ownSpent'.of = Counters!NoTicks
      BY <2>1, <3>1
    <3>3. ownSpent' # None
      BY <3>2, ReadingsAssumption
    <3>4. process'.previous = times /\ process'.own = own
      BY <2>1
    <3>5. Since(times, resets, times, Counters!NoTicks)
      BY <2>3, SinceNow
    <3>6. own' = process'.own + ownSpent'.ticks /\ ownSpent'.ticks <= ownSpent'.of.user
      BY <2>3, <3>1, <3>2, <3>4
    <3> QED BY <3>2, <3>3, <3>4, <3>5, <3>6 DEF OwnSince
  <2>5. process'.share = ownShare' /\ process'.share \in Counters!Percent \cup {None}
    <3>1. CASE ownSpent = None
      BY <2>1, <2>2, <3>1
    <3>2. CASE ownSpent # None
      <4>1. /\ ownSpent.of \in Done /\ done = ownSpent.of /\ done # None
            /\ ownSpent.ticks \in Nat /\ ownSpent.ticks <= ownSpent.of.user
            /\ own - process.own = ownSpent.ticks
        <5>1. ownSpent \in [ticks: Nat, of: Done] /\ own = process.own + ownSpent.ticks
              /\ ownSpent.ticks <= ownSpent.of.user /\ process.own \in Nat
          BY <3>2 DEF OwnSince, ShareKept
        <5>2. ownSpent.of \in Done /\ ownSpent.ticks \in Nat
          BY <5>1
        <5> QED BY <3>2, <5>1, <5>2, ReadingsAssumption
      <4> DEFINE total == Counters!Total(done)
      <4>2. /\ total = done.idle + done.system + done.user /\ total \in Nat
            /\ done.idle \in Nat /\ done.system \in Nat /\ done.user \in Nat
        BY <4>1, TotalIs
      <4>3. CASE total = 0
        BY <2>1, <2>2, <4>1, <4>2, <4>3
      <4>4. CASE total > 0
        <5>1. /\ d # None
              /\ d = [idle |-> done.idle, kernel |-> done.idle + done.system, user |-> done.user]
          BY <2>2, <4>1, <4>4
        <5>2. d.kernel + d.user = total
          BY <4>2, <5>1
        <5> HIDE DEF done, total
        <5>3. ownSpent.ticks <= total
          BY <4>1, <4>2
        <5>4. Counters!Share(d, own - process.own) = Counters!Ratio(ownSpent.ticks, total)
          <6>1. (IF ownSpent.ticks < total THEN ownSpent.ticks ELSE total) = ownSpent.ticks
            BY <4>1, <4>2, <5>3
          <6> QED BY <4>1, <5>2, <6>1 DEF Counters!Share
        <5>5. Counters!Ratio(ownSpent.ticks, total) \in Counters!Percent
          BY <4>1, <4>2, <4>4, <5>3, RatioIs
        <5>6. total = Counters!Total(ownSpent.of)
          BY <4>1 DEF total
        <5> QED BY <2>1, <3>2, <4>2, <4>4, <5>1, <5>4, <5>5, <5>6
      <4> QED BY <4>2, <4>3, <4>4
    <3> QED BY <3>1, <3>2
  <2>6. process' \in [previous: Counted \cup {None}, own: Nat, share: Counters!Percent \cup {None}]
    BY <2>1, <2>3, <2>5
  <2> QED BY <2>4, <2>5, <2>6 DEF ShareKept
<1> QED BY <1>1, <1>2

\* What the sample makes of the interval, if it could be told.
LEMMA MeasuredIs ==
  ASSUME ReadingsInv
  PROVE  LET d == Passed(sampler.previous)
             load == Counters!Breakdown(d).total
         IN  /\ d # None <=> spent # None /\ Counters!Total(spent) > 0
             /\ d # None => /\ Counters!Breakdown(d) \in Parts
                            /\ load \in Counters!Percent
                            /\ load = Counters!Ratio(Counters!Total(spent) - spent.idle,
                                                     Counters!Total(spent))
                            /\ load - Counters!Breakdown(d).system - Counters!Breakdown(d).user \in 0..1
<1> DEFINE d == Passed(sampler.previous)
           total == Counters!Total(spent)
<1>1. /\ d # None <=> spent # None /\ Counters!Total(spent) > 0
      /\ d # None => d = [idle |-> spent.idle, kernel |-> spent.idle + spent.system,
                          user |-> spent.user]
  BY PassedIs DEF ReadingsInv, SamplerTrue
<1> SUFFICES ASSUME d # None
             PROVE  /\ Counters!Breakdown(d) \in Parts
                    /\ Counters!Breakdown(d).total \in Counters!Percent
                    /\ Counters!Breakdown(d).total
                           = Counters!Ratio(Counters!Total(spent) - spent.idle, Counters!Total(spent))
                    /\ Counters!Breakdown(d).total - Counters!Breakdown(d).system
                           - Counters!Breakdown(d).user \in 0..1
  BY <1>1, Zenon
<1>2. spent \in Done
  BY <1>1 DEF ReadingsInv, SamplerTrue, Since
<1>3. /\ total = spent.idle + spent.system + spent.user /\ total \in Nat /\ total > 0
      /\ spent.idle \in Nat /\ spent.system \in Nat /\ spent.user \in Nat
  BY <1>1, <1>2, TotalIs
<1>4. /\ d.kernel + d.user = total /\ d.idle = spent.idle
      /\ total - d.idle = spent.system + spent.user /\ d.kernel - d.idle = spent.system
      /\ d.user = spent.user
  BY <1>1, <1>3
<1> HIDE DEF d, total
<1>5. Counters!Breakdown(d)
          = [total |-> Counters!Ratio(spent.system + spent.user, total),
             system |-> Counters!Ratio(spent.system, total),
             user |-> Counters!Ratio(spent.user, total), idle |-> Counters!Ratio(spent.idle, total)]
  BY <1>4 DEF Counters!Breakdown
<1>6. /\ Counters!Ratio(spent.system + spent.user, total) \in Counters!Percent
      /\ Counters!Ratio(spent.system, total) \in Counters!Percent
      /\ Counters!Ratio(spent.user, total) \in Counters!Percent
      /\ Counters!Ratio(spent.idle, total) \in Counters!Percent
  <2>1. /\ spent.system + spent.user \in Int /\ 0 <= spent.system + spent.user
        /\ spent.system + spent.user <= total
        /\ spent.system \in Int /\ 0 <= spent.system /\ spent.system <= total
        /\ spent.user \in Int /\ 0 <= spent.user /\ spent.user <= total
        /\ spent.idle \in Int /\ 0 <= spent.idle /\ spent.idle <= total
        /\ total \in Int /\ 0 < total
    BY <1>3
  <2> QED BY <2>1, RatioIs
<1>7. Counters!Ratio(spent.system + spent.user, total) - Counters!Ratio(spent.system, total)
          - Counters!Ratio(spent.user, total) \in 0..1
  BY <1>3, RatioSum
<1>8. Counters!Total(spent) - spent.idle = spent.system + spent.user /\ total = Counters!Total(spent)
  BY <1>3, <1>4 DEF total
<1>9. \A n \in Counters!Percent : n \in Int
  BY DEF Counters!Percent
<1> QED BY <1>5, <1>6, <1>7, <1>8, <1>9 DEF Parts

\* A load that is measured enters the sampler and the list alike.
LEMMA LoadEnters ==
  ASSUME ReadingsInv, NEW raw \in Parts, raw.total \in Counters!Percent,
         raw.total - raw.system - raw.user \in 0..1,
         loads' = Append(loads, raw.total),
         sampler' = [previous |-> times, raw |-> raw,
                     smoothed |-> Counters!Smoothed(sampler.smoothed, raw.total)]
  PROVE  /\ sampler'.smoothed \in Counters!Percent /\ loads' \in Seq(Counters!Percent) /\ loads' # <<>>
         /\ \E i, j \in DOMAIN loads' :
               loads'[i] <= sampler'.smoothed /\ sampler'.smoothed <= loads'[j]
         /\ sampler'.raw.total = loads'[Len(loads')]
         /\ sampler'.raw.total - sampler'.raw.system - sampler'.raw.user \in 0..1
<1> DEFINE load == raw.total
           old == sampler.smoothed
           new == Counters!Smoothed(old, load)
<1>1. /\ loads \in Seq(Counters!Percent) /\ old \in Counters!Percent \cup {None}
      /\ old = None <=> loads = <<>>
      /\ loads # <<>> => \E i, j \in DOMAIN loads : loads[i] <= old /\ old <= loads[j]
  BY DEF ReadingsInv, SamplerTrue
<1>2. /\ loads' \in Seq(Counters!Percent) /\ Len(loads') = Len(loads) + 1 /\ Len(loads) \in Nat
      /\ DOMAIN loads' = 1..Len(loads) + 1 /\ DOMAIN loads = 1..Len(loads)
      /\ \A i \in DOMAIN loads : loads'[i] = loads[i]
      /\ loads'[Len(loads) + 1] = load
  BY <1>1
<1>3. sampler'.smoothed = new /\ sampler'.raw = raw
  OBVIOUS
<1>4. CASE old = None
  <2>1. new = load
    BY <1>4 DEF Counters!Smoothed
  <2>2. \A n \in Counters!Percent : n <= n
    BY DEF Counters!Percent
  <2>3. Len(loads) + 1 \in DOMAIN loads'
    BY <1>2
  <2>4. loads'[Len(loads) + 1] <= new /\ new <= loads'[Len(loads) + 1]
    BY <1>2, <2>1, <2>2
  <2>5. \E i, j \in DOMAIN loads' : loads'[i] <= new /\ new <= loads'[j]
    BY <2>3, <2>4
  <2>6. loads' # <<>>
    BY <1>2
  <2> QED BY <1>2, <1>3, <2>1, <2>5, <2>6
<1>5. CASE old # None
  <2>1. old \in Counters!Percent /\ loads # <<>>
    BY <1>1, <1>5
  <2>2. PICK i \in DOMAIN loads, j \in DOMAIN loads : loads[i] <= old /\ old <= loads[j]
    BY <1>1, <2>1
  <2>3. /\ new \in Counters!Percent
        /\ old <= load => old <= new /\ new <= load
        /\ load <= old => load <= new /\ new <= old
    <3>1. old \in Counters!Percent /\ load \in Counters!Percent
      BY <2>1
    <3> HIDE DEF old, load
    <3> QED BY <3>1, SmoothedIs
  <2>4. loads[i] \in Counters!Percent /\ loads[j] \in Counters!Percent
    BY <1>1, <2>2
  <2>5. i \in DOMAIN loads' /\ j \in DOMAIN loads' /\ Len(loads) + 1 \in DOMAIN loads'
        /\ loads'[i] = loads[i] /\ loads'[j] = loads[j]
    BY <1>2, <2>2
  <2> HIDE DEF new, old, load
  <2>6. \E k, l \in DOMAIN loads' : loads'[k] <= new /\ new <= loads'[l]
    <3>1. old \in Int /\ load \in Int /\ new \in Int /\ loads[i] \in Int /\ loads[j] \in Int
      <4>1. load \in Counters!Percent
        BY DEF load
      <4> QED BY <2>1, <2>3, <2>4, <4>1, PercentIs
    <3>2. CASE old <= load
      <4>1. loads'[i] <= new /\ new <= loads'[Len(loads) + 1]
        <5>1. \A a, b, c \in Int : a <= b /\ b <= c => a <= c
          OBVIOUS
        <5> QED BY <1>2, <2>2, <2>3, <2>5, <3>1, <3>2, <5>1
      <4> QED BY <2>5, <4>1
    <3>3. CASE ~(old <= load)
      <4>1. load <= old
        BY <3>1, <3>3
      <4>2. loads'[Len(loads) + 1] <= new /\ new <= loads'[j]
        <5>1. \A a, b, c \in Int : a <= b /\ b <= c => a <= c
          OBVIOUS
        <5> QED BY <1>2, <2>2, <2>3, <2>5, <3>1, <4>1, <5>1
      <4> QED BY <2>5, <4>2
    <3> QED BY <3>2, <3>3
  <2>7. loads' # <<>>
    BY <1>2
  <2>8. raw.total = load
    BY DEF load
  <2> QED BY <1>2, <1>3, <2>3, <2>6, <2>7, <2>8
<1> QED BY <1>4, <1>5

\* A sample leaves loads, share and curves of the time they stand for.
LEMMA CpuSampleKeeps == ReadingsInv /\ Counters!CpuSample => ReadingsInv'
<1> SUFFICES ASSUME ReadingsInv, Counters!CpuSample PROVE ReadingsInv'
  OBVIOUS
<1> DEFINE d == Passed(sampler.previous)
<1>1. /\ times' = times /\ own' = own /\ samples' = samples /\ resets' = resets
      /\ spent' = Counters!NoTicks /\ memory' \in {memory, 2550}
  BY DEF Counters!CpuSample, Counters!environment
<1>2. sampler' = IF d = None THEN [sampler EXCEPT !.previous = times]
                 ELSE [previous |-> times, raw |-> Counters!Breakdown(d),
                       smoothed |-> Counters!Smoothed(sampler.smoothed, Counters!Breakdown(d).total)]
  BY DEF Counters!CpuSample, Counters!Push, Passed
<1>3. (sampler.previous # None /\ Counters!Interval(sampler.previous, times) # None) <=> d # None
  BY DEF Passed
<1>4. /\ d = None => curves' = curves /\ remembered' = remembered
      /\ d # None =>
            /\ curves' = [cpu |-> Counters!Drawn(curves.cpu, sampler'.raw.total),
                          memory |-> IF memory' = None THEN curves.memory
                                     ELSE Counters!Drawn(curves.memory, memory')]
            /\ remembered' = IF memory' # None THEN Append(remembered, memory') ELSE remembered
  BY <1>3 DEF Counters!CpuSample
<1>5. loads' = IF spent # None /\ Counters!Total(spent) > 0
               THEN Append(loads, Counters!Ratio(Counters!Total(spent) - spent.idle,
                                                 Counters!Total(spent)))
               ELSE loads
  BY DEF Counters!CpuSample
<1>6. /\ d # None <=> spent # None /\ Counters!Total(spent) > 0
      /\ d # None => /\ Counters!Breakdown(d) \in Parts
                     /\ Counters!Breakdown(d).total \in Counters!Percent
                     /\ Counters!Breakdown(d).total
                            = Counters!Ratio(Counters!Total(spent) - spent.idle,
                                             Counters!Total(spent))
                     /\ Counters!Breakdown(d).total - Counters!Breakdown(d).system
                            - Counters!Breakdown(d).user \in 0..1
  BY MeasuredIs
<1> HIDE DEF d
<1>7. CountersTrue'
  BY <1>1 DEF ReadingsInv, CountersTrue
<1>8. OwnSince' /\ ShareKept'
  <2>1. PICK succeeds \in BOOLEAN : Counters!SampleProcess(succeeds)
    BY DEF Counters!CpuSample
  <2> QED BY <1>1, <2>1, ProcessKeeps
<1>9. Since(times', resets', times, spent')
  <2>1. times \in Counted /\ (resets = 0 => times.idle >= Uptime)
    BY DEF ReadingsInv, CountersTrue
  <2> QED BY <1>1, <2>1, SinceNow
<1>10. SamplerTrue' /\ (d # None => sampler'.raw.total = Counters!Breakdown(d).total
                                    /\ loads' = Append(loads, sampler'.raw.total))
  <2>0. times \in Counted
    BY DEF ReadingsInv, CountersTrue
  <2>1. CASE d = None
    <3>1. /\ sampler'.previous = times /\ sampler'.smoothed = sampler.smoothed
          /\ sampler'.raw = sampler.raw
          /\ sampler' \in [previous: Counted \cup {None}, smoothed: Counters!Percent \cup {None},
                           raw: Parts \cup {None}]
      BY <1>2, <2>0, <2>1 DEF ReadingsInv, SamplerTrue
    <3>2. loads' = loads
      BY <1>5, <1>6, <2>1
    <3> QED BY <1>9, <2>1, <3>1, <3>2 DEF ReadingsInv, SamplerTrue
  <2>2. CASE d # None
    <3> DEFINE raw == Counters!Breakdown(d)
    <3>1. /\ raw \in Parts /\ raw.total \in Counters!Percent /\ raw.total - raw.system - raw.user \in 0..1
          /\ loads' = Append(loads, raw.total)
      BY <1>5, <1>6, <2>2
    <3>2. sampler' = [previous |-> times, raw |-> raw,
                      smoothed |-> Counters!Smoothed(sampler.smoothed, raw.total)]
      BY <1>2, <2>2
    <3> HIDE DEF raw
    <3>3. /\ sampler'.smoothed \in Counters!Percent /\ loads' \in Seq(Counters!Percent) /\ loads' # <<>>
          /\ \E i, j \in DOMAIN loads' :
                loads'[i] <= sampler'.smoothed /\ sampler'.smoothed <= loads'[j]
          /\ sampler'.raw.total = loads'[Len(loads')]
          /\ sampler'.raw.total - sampler'.raw.system - sampler'.raw.user \in 0..1
      BY <3>1, <3>2, LoadEnters
    <3>4. /\ sampler'.previous = times /\ sampler'.raw = raw /\ sampler'.smoothed # None
      <4>1. None \notin Counters!Percent
        BY PercentIs
      <4> QED BY <3>2, <3>3, <4>1
    <3>5. sampler' \in [previous: Counted \cup {None}, smoothed: Counters!Percent \cup {None},
                        raw: Parts \cup {None}]
      <4>1. sampler' = [previous |-> times, smoothed |-> sampler'.smoothed, raw |-> raw]
        BY <3>2
      <4> QED BY <2>0, <3>1, <3>3, <4>1
    <3>6. SamplerTrue'
      BY <1>9, <3>3, <3>4, <3>5 DEF SamplerTrue
    <3> QED BY <3>1, <3>4, <3>6 DEF raw
  <2> QED BY <2>1, <2>2
<1>11. CurvesKept'
  <2>1. /\ RingOf(curves["cpu"], loads) /\ RingOf(curves["memory"], remembered)
        /\ memory \in Counters!Percent \cup {None} /\ DOMAIN curves = {"cpu", "memory"}
    BY DEF ReadingsInv, CurvesKept
  <2>2. memory' \in Counters!Percent \cup {None}
    BY <1>1, <2>1 DEF Counters!Percent
  <2>3. CASE d = None
    <3>1. loads' = loads
      BY <1>5, <1>6, <2>3
    <3> QED BY <1>4, <2>1, <2>2, <2>3, <3>1 DEF CurvesKept
  <2>4. CASE d # None
    <3>1. RingOf(Counters!Drawn(curves["cpu"], sampler'.raw.total), loads')
      <4>1. sampler'.raw.total \in Counters!Percent /\ loads' = Append(loads, sampler'.raw.total)
        BY <1>6, <1>10, <2>4
      <4> QED BY <2>1, <4>1, DrawnIs
    <3>2. /\ curves'["cpu"] = Counters!Drawn(curves["cpu"], sampler'.raw.total)
          /\ curves'["memory"] = IF memory' = None THEN curves["memory"]
                                 ELSE Counters!Drawn(curves["memory"], memory')
          /\ DOMAIN curves' = {"cpu", "memory"}
      BY <1>4, <2>4
    <3>3. RingOf(curves'["memory"], remembered')
      <4>1. CASE memory' = None
        BY <1>4, <2>1, <2>4, <3>2, <4>1
      <4>2. CASE memory' # None
        <5>1. memory' \in Counters!Percent
          BY <2>2, <4>2
        <5>2. RingOf(Counters!Drawn(curves["memory"], memory'), Append(remembered, memory'))
          BY <2>1, <5>1, DrawnIs
        <5> QED BY <1>4, <2>4, <3>2, <4>2, <5>2
      <4> QED BY <4>1, <4>2
    <3> QED BY <2>2, <3>1, <3>2, <3>3 DEF CurvesKept
  <2> QED BY <2>3, <2>4
<1> QED BY <1>7, <1>8, <1>10, <1>11 DEF ReadingsInv

\* A set of numbers that is not empty has a least one.
LEMMA LeastOf ==
  ASSUME NEW T \in SUBSET Nat, T # {}
  PROVE  \E m \in T : \A n \in T : m <= n
<1>1. PICK m \in T : \A n \in T : <<n, m>> \notin OpToRel(<, Nat)
  BY NatLessThanWellFounded, WFMin
<1>2. \A n \in T : ~(n < m)
  BY <1>1 DEF OpToRel
<1> QED BY <1>2

\* A set of loads has a least and a greatest one.
LEMMA Extremes ==
  ASSUME NEW S \in SUBSET Counters!Percent, NEW x \in S
  PROVE  /\ Counters!Min(S) \in S /\ Counters!Min(S) <= x
         /\ Counters!Max(S) \in S /\ x <= Counters!Max(S)
<1>0. \A n \in S : n \in Int /\ 0 <= n /\ n <= 10000 /\ n \in Nat
  BY PercentIs
<1>1. \E m \in S : \A n \in S : m <= n
  BY <1>0, LeastOf
<1>2. \E m \in S : \A n \in S : m >= n
  <2> DEFINE Left(n) == 10000 - n
             T == {Left(n) : n \in S}
  <2>1. \A n \in S : Left(n) \in Nat
    BY <1>0
  <2>2. \A m, n \in S : Left(m) <= Left(n) => m >= n
    BY <1>0
  <2> HIDE DEF Left
  <2>3. T \in SUBSET Nat /\ T # {}
    BY <2>1
  <2>4. PICK m \in T : \A n \in T : m <= n
    <3> HIDE DEF T
    <3> QED BY <2>3, LeastOf
  <2>5. PICK g \in S : m = Left(g)
    BY <2>4
  <2>6. \A n \in S : Left(g) <= Left(n)
    BY <2>4, <2>5
  <2> QED BY <2>2, <2>5, <2>6
<1>3. Counters!Min(S) \in S /\ \A n \in S : Counters!Min(S) <= n
  BY <1>1, Zenon DEF Counters!Min
<1>4. Counters!Max(S) \in S /\ \A n \in S : Counters!Max(S) >= n
  BY <1>2, Zenon DEF Counters!Max
<1>5. \A m, n \in S : m >= n <=> n <= m
  BY <1>0
<1> QED BY <1>3, <1>4, <1>5

\* What the runs check follows from the invariant.
LEMMA ReadingsAre == ReadingsInv => ReadingsTrue
<1> SUFFICES ASSUME ReadingsInv
             PROVE  /\ Counters!TypeOK /\ Counters!CurvesTrue /\ Counters!LoadTrue
                    /\ Counters!ShareTrue
  BY DEF ReadingsTrue
<1>1. Counters!TypeOK
  <2>1. times \in [DOMAIN Counters!Idle -> Nat]
    <3>1. times \in Counted
      BY DEF ReadingsInv, CountersTrue
    <3> QED BY <3>1 DEF Counted, Counters!Idle
  <2>2. own \in Nat /\ samples \in 0..MaxSamples /\ resets \in 0..MaxResets
    BY DEF ReadingsInv, CountersTrue
  <2>3. /\ sampler.smoothed \in Counters!Percent \cup {None} /\ process.share \in Counters!Percent \cup {None}
        /\ memory \in Counters!Percent \cup {None}
    BY DEF ReadingsInv, SamplerTrue, ShareKept, CurvesKept
  <2>4. \A c \in DOMAIN curves : curves[c].len \in 0..Capacity /\ curves[c].start \in 0..Capacity - 1
    <3>1. DOMAIN curves = {"cpu", "memory"} /\ curves["cpu"] \in Rings /\ curves["memory"] \in Rings
      BY DEF ReadingsInv, CurvesKept, RingOf
    <3>2. \A r \in Rings : r.len \in 0..Capacity /\ r.start \in 0..Capacity - 1
      BY DEF Rings
    <3> QED BY <3>1, <3>2
  <2> QED BY <2>1, <2>2, <2>3, <2>4 DEF Counters!TypeOK
<1>2. Counters!CurvesTrue
  <2>1. RingOf(curves["cpu"], loads) /\ RingOf(curves["memory"], remembered)
    BY DEF ReadingsInv, CurvesKept
  <2> QED BY <2>1, PointsAre DEF Counters!CurvesTrue
<1>3. Counters!LoadTrue
  <2>1. (sampler.smoothed = None) = (loads = <<>>)
    BY DEF ReadingsInv, SamplerTrue
  <2>2. ASSUME loads # <<>>
        PROVE  LET measured == {loads[i] : i \in DOMAIN loads}
               IN  /\ Counters!Min(measured) <= sampler.smoothed
                   /\ sampler.smoothed <= Counters!Max(measured)
    <3> DEFINE measured == {loads[i] : i \in DOMAIN loads}
    <3>1. PICK i \in DOMAIN loads, j \in DOMAIN loads :
              loads[i] <= sampler.smoothed /\ sampler.smoothed <= loads[j]
      BY <2>2 DEF ReadingsInv, SamplerTrue
    <3>2. loads \in Seq(Counters!Percent) /\ sampler.smoothed \in Counters!Percent
      BY <2>1, <2>2 DEF ReadingsInv, SamplerTrue
    <3>3. measured \in SUBSET Counters!Percent /\ loads[i] \in measured /\ loads[j] \in measured
      BY <3>1, <3>2
    <3> HIDE DEF measured
    <3>4. /\ Counters!Min(measured) \in Counters!Percent /\ Counters!Min(measured) <= loads[i]
          /\ Counters!Max(measured) \in Counters!Percent /\ loads[j] <= Counters!Max(measured)
          /\ loads[i] \in Counters!Percent /\ loads[j] \in Counters!Percent
      BY <3>3, Extremes
    <3>5. \A a, b, c \in Counters!Percent : a <= b /\ b <= c => a <= c
      BY PercentIs
    <3>6. Counters!Min(measured) <= sampler.smoothed /\ sampler.smoothed <= Counters!Max(measured)
      BY <3>1, <3>2, <3>4, <3>5
    <3> QED BY <3>6 DEF measured
  <2>3. loads # <<>> => /\ sampler.raw.total = loads[Len(loads)]
                        /\ sampler.raw.total - sampler.raw.system - sampler.raw.user \in 0..1
    BY DEF ReadingsInv, SamplerTrue
  <2> QED BY <2>1, <2>2, <2>3 DEF Counters!LoadTrue
<1>4. Counters!ShareTrue
  BY DEF ReadingsInv, ShareKept, Counters!ShareTrue
<1> QED BY <1>1, <1>2, <1>3, <1>4

\* Every step keeps the invariant; those of the other components do not touch it.
LEMMA ReadingsStep == ReadingsInv /\ [AccountingNext]_accountingVars => ReadingsInv'
<1> SUFFICES ASSUME ReadingsInv, [AccountingNext]_accountingVars PROVE ReadingsInv'
  OBVIOUS
<1>1. CASE OfReadings(Counters!Next)
  BY <1>1, ElapseKeeps, ResetKeeps, CpuSampleKeeps DEF OfReadings, Counters!Next
<1>2. CASE UNCHANGED readingsVars
  BY <1>2 DEF readingsVars, ReadingsInv, CountersTrue, SamplerTrue, OwnSince, ShareKept, CurvesKept
<1>3. OfReadings(Counters!Next) \/ UNCHANGED readingsVars
  BY DEF AccountingNext, OfIngest, OfMonths, OfState, OfPrices, OfCalendar, accountingVars,
         readingsVars
<1> QED BY <1>1, <1>2, <1>3

\* Loads, shares and curves are of the time in which the ticks were counted,
\* whichever reads fail and although the counters may start again
\* (interval_ticks, WindowsProcessSource::sample, Sparkline::push).
THEOREM ReadingsRight == AccountingSpec => []ReadingsTrue
<1>1. AccountingInit => ReadingsInv
  BY ReadingsBegin DEF AccountingInit
<1>2. ReadingsInv /\ [AccountingNext]_accountingVars => ReadingsInv'
  BY ReadingsStep
<1>3. ReadingsInv => ReadingsTrue
  BY ReadingsAre
<1> QED BY <1>1, <1>2, <1>3, PTL DEF AccountingSpec
-----------------------------------------------------------------------------
(***************************************************************************)
(* The totals (IngestProofs), with the files and days of UsageIngest's     *)
(* constants and with months of one day.                                   *)
(***************************************************************************)
Monthly == INSTANCE IngestProofs WITH Codex <- {"x"}, MonthLength <- 1, MaxAmount <- 1

\* The lemmas of Monthly are about what Months is an instance of.
LEMMA MonthsSame ==
  /\ Months!Init <=> Monthly!Init
  /\ Months!Next <=> Monthly!Next
  /\ Months!TypeOK <=> Monthly!TypeOK
  /\ Months!TotalsAreContributions <=> Monthly!TotalsAreContributions
  /\ Months!EachRequestOnce <=> Monthly!EachRequestOnce
<1>1. Months!Init <=> Monthly!Init
  BY DEF Months!Init, Monthly!Init, Months!Files, Monthly!Files, Months!NoStat, Monthly!NoStat,
         Months!NoTotals, Monthly!NoTotals, Months!Providers, Monthly!Providers
<1>2. Months!Next <=> Monthly!Next
  BY DEF Months!Next, Monthly!Next, Months!Files, Monthly!Files, Months!Append1, Monthly!Append1,
         Months!Replace, Monthly!Replace, Months!Truncate, Monthly!Truncate, Months!Delete,
         Monthly!Delete, Months!Retire, Monthly!Retire, Months!Stat, Monthly!Stat,
         Months!Midnight, Monthly!Midnight, Months!BeginTick, Monthly!BeginTick, Months!GiveUp,
         Monthly!GiveUp, Months!Register, Monthly!Register, Months!Probe, Monthly!Probe,
         Months!Read, Monthly!Read, Months!EndTick, Monthly!EndTick, Months!Exit, Monthly!Exit,
         Months!Crash, Monthly!Crash, Months!Start, Monthly!Start, Months!Rescan, Monthly!Rescan,
         Months!ReadOf, Monthly!ReadOf, Months!Written, Monthly!Written, Months!Stamped,
         Monthly!Stamped, Months!Front, Monthly!Front, Months!totals, Monthly!totals,
         Months!MonthOf, Monthly!MonthOf, Months!Obsolete, Monthly!Obsolete, Months!files,
         Monthly!files, Months!PreviousMonth, Monthly!PreviousMonth, Months!NoTotals,
         Monthly!NoTotals, Months!RetainMonth, Monthly!RetainMonth, Months!Known, Monthly!Known,
         Months!NoStat, Monthly!NoStat, Months!MustRebuildStored, Monthly!MustRebuildStored,
         Months!NewCursor, Monthly!NewCursor, Months!Forgotten, Monthly!Forgotten, Months!Prefix,
         Monthly!Prefix, Months!Subtract, Monthly!Subtract, Months!MaybeQuiet,
         Monthly!MaybeQuiet, Months!MustRebuildLive, Monthly!MustRebuildLive, Months!ProviderOf,
         Monthly!ProviderOf, Months!Count, Monthly!Count, Months!ReadsTo, Monthly!ReadsTo,
         Months!Persist, Monthly!Persist, Months!StateAt, Monthly!StateAt, Months!Stop,
         Monthly!Stop, Months!Restore, Monthly!Restore, Months!Records, Monthly!Records,
         Months!Providers, Monthly!Providers, Months!Days, Monthly!Days, Months!Nothing,
         Monthly!Nothing, Months!Monus, Monthly!Monus, Months!SumFunction, Monthly!SumFunction,
         Months!SameKey, Monthly!SameKey, Months!SumSet, Monthly!SumSet, Months!Min, Monthly!Min,
         Months!Stored, Monthly!Stored, Months!SumFunctionOnSet, Monthly!SumFunctionOnSet,
         Months!FoldLeft, Monthly!FoldLeft, Months!MapThenFoldSet, Monthly!MapThenFoldSet,
         Months!Max, Monthly!Max, Months!FoldSet, Monthly!FoldSet, Months!FoldFunctionOnSet,
         Monthly!FoldFunctionOnSet
<1>3. Months!TypeOK <=> Monthly!TypeOK
  BY DEF Months!TypeOK, Monthly!TypeOK, Months!Days, Monthly!Days, Months!Files, Monthly!Files,
         Months!DiskFiles, Monthly!DiskFiles, Months!NoStat, Monthly!NoStat, Months!Cursors,
         Monthly!Cursors, Months!Providers, Monthly!Providers, Months!States, Monthly!States,
         Months!Records, Monthly!Records, Months!Contributions, Monthly!Contributions
<1>4. Months!TotalsAreContributions <=> Monthly!TotalsAreContributions
  BY DEF Months!TotalsAreContributions, Monthly!TotalsAreContributions, Months!Providers,
         Monthly!Providers, Months!SumFunction, Monthly!SumFunction, Months!KnownOf,
         Monthly!KnownOf, Months!InMonth, Monthly!InMonth, Months!SumFunctionOnSet,
         Monthly!SumFunctionOnSet, Months!FilesOf, Monthly!FilesOf, Months!Days, Monthly!Days,
         Months!MonthOf, Monthly!MonthOf, Months!FoldFunctionOnSet, Monthly!FoldFunctionOnSet,
         Months!MapThenFoldSet, Monthly!MapThenFoldSet
<1>5. Months!EachRequestOnce <=> Monthly!EachRequestOnce
  BY DEF Months!EachRequestOnce, Monthly!EachRequestOnce, Months!Files, Monthly!Files,
         Months!UpToDate, Monthly!UpToDate, Months!ToSet, Monthly!ToSet, Months!MonthOf,
         Monthly!MonthOf, Months!SameKey, Monthly!SameKey, Months!Days, Monthly!Days,
         Months!SumFunction, Monthly!SumFunction, Months!SumFunctionOnSet,
         Monthly!SumFunctionOnSet, Months!Cardinality, Monthly!Cardinality,
         Months!FoldFunctionOnSet, Monthly!FoldFunctionOnSet, Months!MapThenFoldSet,
         Monthly!MapThenFoldSet
<1> QED BY <1>1, <1>2, <1>3, <1>4, <1>5

\* What they assume of the constants, for those of Months.
LEMMA MonthlyAssumed ==
  /\ Claude \cap {"x"} = {} /\ Monthly!IsFiniteSet(Claude \cup {"x"})
  /\ 1 \in Nat /\ 1 \in Nat \ {0}
  /\ FirstDay \in Nat \ {0} /\ LastDay \in Nat /\ FirstDay <= LastDay
  /\ MaxLines \in Nat \ {0} /\ MaxChanges \in Nat /\ MaxStarts \in Nat
  /\ {MidnightInTick, ExitAfterMidnight, AcrossMonths} \subseteq BOOLEAN
  /\ None \notin Monthly!Files /\ None \notin Monthly!Cursors
  /\ None \notin Monthly!DiskFiles /\ None \notin Monthly!States
<1>1. IsFiniteSet(Claude \cup {"x"})
  <2>1. IsFiniteSet(Claude \cup Codex) /\ Claude \subseteq Claude \cup Codex
    BY IngestAssumption
  <2>2. IsFiniteSet(Claude) /\ IsFiniteSet({"x"})
    BY <2>1, FS_Subset, FS_Singleton
  <2> QED BY <2>2, FS_Union
<1>2. Monthly!IsFiniteSet(Claude \cup {"x"})
  BY <1>1 DEF IsFiniteSet, Monthly!IsFiniteSet
<1>3. /\ None \notin Monthly!Files /\ None \notin Monthly!Cursors
      /\ None \notin Monthly!DiskFiles /\ None \notin Monthly!States
  BY MonthsAssumption
  DEF Months!Files, Monthly!Files, Months!Cursors, Monthly!Cursors, Months!DiskFiles,
      Monthly!DiskFiles, Months!States, Monthly!States, Months!Records, Monthly!Records,
      Months!Days, Monthly!Days, Months!Contributions, Monthly!Contributions,
      Months!Providers, Monthly!Providers
<1> QED BY <1>2, <1>3, IngestAssumption, MonthsAssumption

\* The invariant of the view that a behaviour is of.
TotalsInv ==
    /\ view = "ingest" => IngestInv
    /\ view = "months" => Monthly!IngestInv

\* It holds at the start.
LEMMA TotalsBegin == AccountingInit => TotalsInv
<1> SUFFICES ASSUME AccountingInit PROVE TotalsInv
  OBVIOUS
<1>1. ASSUME view = "ingest" PROVE IngestInv
  <2>1. Init
    BY <1>1 DEF AccountingInit
  <2> QED BY <2>1, IngestBegins
<1>2. ASSUME view = "months" PROVE Monthly!IngestInv
  <2>1. Monthly!Init
    BY <1>2, MonthsSame DEF AccountingInit
  <2> QED BY <2>1, MonthlyAssumed, Monthly!IngestBegins
<1> QED BY <1>1, <1>2 DEF TotalsInv

\* Every step keeps it, if midnight passes only where the instance allows it.
LEMMA TotalsStep ==
  ASSUME ~MidnightInTick, ~ExitAfterMidnight, ~AcrossMonths,
         TotalsInv, [AccountingNext]_accountingVars
  PROVE  TotalsInv'
<1>1. view' = view
  BY DEF AccountingNext, accountingVars, OfIngest, OfMonths, OfState, OfPrices, OfCalendar,
         OfReadings
<1>2. view = "ingest" => [Next]_vars
  BY DEF AccountingNext, accountingVars, OfIngest, OfMonths, OfState, OfPrices, OfCalendar,
         OfReadings
<1>3. view = "months" => [Months!Next]_vars
  BY DEF AccountingNext, accountingVars, OfIngest, OfMonths, OfState, OfPrices, OfCalendar,
         OfReadings
<1>4. ASSUME view = "ingest" PROVE IngestInv'
  <2>1. IngestInv /\ [Next]_vars
    BY <1>2, <1>4 DEF TotalsInv
  <2> QED BY <2>1, IngestStep
<1>5. ASSUME view = "months" PROVE Monthly!IngestInv'
  <2>1. Monthly!IngestInv /\ [Monthly!Next]_(Monthly!vars)
    BY <1>3, <1>5, MonthsSame DEF TotalsInv, vars, Monthly!vars
  <2> QED BY <2>1, MonthlyAssumed, Monthly!IngestStep
<1> QED BY <1>1, <1>4, <1>5 DEF TotalsInv

\* The totals are the sums of what the files contributed, for any files, months and
\* days and however often the collector starts again, as long as midnight does not
\* pass within a tick, between the last tick and the exit, or a month with the
\* collector off (ingest_events, subtract_contribution, apply_state).
THEOREM TotalsStayTrue ==
  ASSUME ~MidnightInTick, ~ExitAfterMidnight, ~AcrossMonths
  PROVE  AccountingSpec => []TotalsTrue
<1>1. AccountingInit => TotalsInv
  BY TotalsBegin
<1>2. TotalsInv /\ [AccountingNext]_accountingVars => TotalsInv'
  BY TotalsStep
<1>3. TotalsInv => TotalsTrue
  <2>1. Monthly!IngestInv => Months!TypeOK /\ Months!TotalsAreContributions
    BY MonthlyAssumed, MonthsSame, Monthly!TypesAre, Monthly!TotalsAre
  <2>2. IngestInv => TypeOK /\ TotalsAreContributions
    BY TypesAre, TotalsAre
  <2> QED BY <2>1, <2>2 DEF TotalsInv, TotalsTrue
<1> QED BY <1>1, <1>2, <1>3, PTL DEF AccountingSpec

\* A file read to its end has each of its requests of the month in the totals once,
\* whatever was appended, replaced, truncated or deleted and wherever the collector
\* was stopped, under the same conditions (scan_file, cursor_rebuild_reason).
THEOREM RequestsStayOnce ==
  ASSUME ~MidnightInTick, ~ExitAfterMidnight, ~AcrossMonths
  PROVE  AccountingSpec => []RequestsOnce
<1>1. AccountingInit => TotalsInv
  BY TotalsBegin
<1>2. TotalsInv /\ [AccountingNext]_accountingVars => TotalsInv'
  BY TotalsStep
<1>3. TotalsInv => RequestsOnce
  <2>1. Monthly!IngestInv => Months!EachRequestOnce
    BY MonthlyAssumed, MonthsSame, Monthly!RequestsAre
  <2>2. IngestInv => EachRequestOnce
    BY RequestsAre
  <2> QED BY <2>1, <2>2 DEF TotalsInv, RequestsOnce
<1> QED BY <1>1, <1>2, <1>3, PTL DEF AccountingSpec
=============================================================================
