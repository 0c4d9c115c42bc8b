------------------------------ MODULE Calendar ------------------------------
(***************************************************************************)
(* The calendar of the accounting (core/usage.rs and the day window of     *)
(* windows/usage.rs), held against a calendar that turns its pages day by  *)
(* day.  A record carries a civil time with an offset; its instant, the    *)
(* local day it falls on, and the month that day belongs to decide which   *)
(* total it enters.                                                        *)
(*                                                                         *)
(* The unit of time is a minute, and instants count from the start of      *)
(* 1970; seconds and fractions add to both sides alike.                    *)
(***************************************************************************)
EXTENDS Integers, Sequences

CONSTANTS
    Starts,     \* where the pages begin: <<day number, <<year, month, day>>>>
    MaxPages,   \* bound: pages turned
    Moments,    \* minutes of a day
    Offsets,    \* UTC offsets in minutes
    None

VARIABLES
    number,   \* the day since 1970
    pages,    \* the dates of the day before, this day and the day after
    turned    \* pages turned

vars == <<number, pages, turned>>

-----------------------------------------------------------------------------
(* The pages.                                                              *)

Leap(y) == y % 4 = 0 /\ (y % 100 # 0 \/ y % 400 = 0)
Length(y, m) ==
    IF m = 2 THEN (IF Leap(y) THEN 29 ELSE 28)
    ELSE IF m \in {4, 6, 9, 11} THEN 30 ELSE 31

After(date) ==
    LET y == date[1]  m == date[2]  d == date[3]
    IN  IF d < Length(y, m) THEN <<y, m, d + 1>>
        ELSE IF m < 12 THEN <<y, m + 1, 1>>
        ELSE <<y + 1, 1, 1>>

Init ==
    /\ \E s \in Starts :
          number = s[1] + 1 /\ pages = <<s[2], After(s[2]), After(After(s[2]))>>
    /\ turned = 0

Next ==
    /\ turned < MaxPages
    /\ turned' = turned + 1
    /\ number' = number + 1
    /\ pages' = <<pages[2], pages[3], After(pages[3])>>

Spec == Init /\ [][Next]_vars

-----------------------------------------------------------------------------
(* The code.                                                               *)

DayMinutes == 1440

\* Mutant: the centuries without a leap day are not taken out.
CivilJulian(z) ==
    LET era == z \div 146097
        doe == z - era * 146097
        yoe == (doe - doe \div 1460) \div 365
        doy == doe - (365 * yoe + yoe \div 4)
        mp  == (5 * doy + 2) \div 153
        m   == IF mp < 10 THEN mp + 3 ELSE mp - 9
    IN  <<yoe + era * 400 + (IF m <= 2 THEN 1 ELSE 0), m, doy - (153 * mp + 2) \div 5 + 1>>

\* The eras of 400 years begin on the first of March: the day of the era, the
\* year of that day, the day of that year, and its month.
DayOfEra(z) == z - (z \div 146097) * 146097
YearOfEra(doe) == (doe - doe \div 1460 + doe \div 36524 - doe \div 146096) \div 365
DayOfYear(doe, yoe) == doe - (365 * yoe + yoe \div 4 - yoe \div 100)
MonthOfYear(doy) == (5 * doy + 2) \div 153

\* days_to_ymd after its shift to 1 March of year 0.
Civil(z) ==
    LET yoe == YearOfEra(DayOfEra(z))
        doy == DayOfYear(DayOfEra(z), yoe)
        mp  == MonthOfYear(doy)
        m   == IF mp < 10 THEN mp + 3 ELSE mp - 9
    IN  <<yoe + (z \div 146097) * 400 + (IF m <= 2 THEN 1 ELSE 0), m,
          doy - (153 * mp + 2) \div 5 + 1>>

days_to_ymd(days) == Civil(days + 719468)

\* A date before 1970 becomes a huge unsigned number, which no instant takes.
\* The day is not held against the length of its month.
ymd_to_epoch_days(y, m, d) ==
    IF m \notin 1..12 \/ d = 0 THEN None
    ELSE LET yy  == IF m <= 2 THEN y - 1 ELSE y
             mm  == IF m <= 2 THEN m + 9 ELSE m - 3
             era == yy \div 400
             yoe == yy - era * 400
             doy == (153 * mm + 2) \div 5 + d - 1
             all == era * 146097 + yoe * 365 + yoe \div 4 - yoe \div 100 + doy - 719468
         IN  IF all < 0 THEN None ELSE all

\* parse_rfc3339_ms with parse_rfc3339_offset: an offset is at most 23:59, and
\* the instant is not before 1970.
parse_rfc3339(date, minute, offset) ==
    LET days == ymd_to_epoch_days(date[1], date[2], date[3])
        utc  == days * DayMinutes + minute - offset
    IN  IF offset \notin -1439..1439 \/ days = None THEN None
        ELSE IF utc < 0 THEN None ELSE utc

\* Windows' bias is what must be added to the local time.
local_ymd(instant, bias) == days_to_ymd((instant - bias) \div DayMinutes)

\* local_hms, without the seconds.
local_minute(instant, bias) == (instant - bias) % DayMinutes

\* windows_tz_bias_minutes: 1 is standard time, 2 is daylight time.
windows_tz_bias_minutes(bias, standard, daylight, id) ==
    bias + (CASE id = 1 -> standard [] id = 2 -> daylight [] OTHER -> 0)

\* What Windows answers for an instant, given the bias that holds at it: the
\* rules of the zone for the year of the instant, not for today.
local_date_in_zone(instant, bias) == local_ymd(instant, bias)

ymd_key(date) == date[1] * 10000 + date[2] * 100 + date[3]

\* The day and the first of the month that the totals are of.
day_window(instant, bias) ==
    LET date == local_date_in_zone(instant, bias)
    IN  [today |-> ymd_key(date), monthStart |-> ymd_key(<<date[1], date[2], 1>>)]

contains_month_day(window, day) ==
    LET year == window.monthStart \div 10000
        month == (window.monthStart \div 100) % 100
        next == IF month = 12 THEN ymd_key(<<year + 1, 1, 1>>)
                ELSE ymd_key(<<year, month + 1, 1>>)
    IN  window.monthStart <= day /\ day < next

previous_month_start(window) ==
    LET year == window.monthStart \div 10000
        month == (window.monthStart \div 100) % 100
    IN  ymd_key(IF month = 1 THEN <<year - 1, 12, 1>> ELSE <<year, month - 1, 1>>)

-----------------------------------------------------------------------------
Today == pages[2]

\* The biases of the zones, in either half of the year.
Biases == {windows_tz_bias_minutes(-o, 0, -60, id) : o \in Offsets, id \in 0..2}

\* A record that was written at a civil time with any offset falls, under that
\* offset, on the day it was stamped with, at the time it was stamped with, and
\* in the window of just that month; the neighbouring days fall in it exactly
\* if they share the month.  So no record enters the total of another day or
\* month at the ends of months, years, leap years and centuries, nor around the
\* start of 1970 in the west (parse_rfc3339_ms, local_ymd, contains_month_day).
StampIsDay ==
    /\ \A o \in Offsets, t \in Moments :
          LET instant == parse_rfc3339(Today, t, o)
          IN  instant # None =>
                 /\ local_ymd(instant, -o) = Today /\ local_minute(instant, -o) = t
                 /\ instant = number * DayMinutes + t - o
    /\ \A o \in Offsets, t \in Moments :
          number >= 0 /\ number * DayMinutes + t - o >= 0 => parse_rfc3339(Today, t, o) # None
    /\ \A b \in Biases, t \in Moments :
          LET instant == number * DayMinutes + t
              place   == 2 + (t - b) \div DayMinutes
              window  == day_window(instant, b)
              month(date) == <<date[1], date[2]>>
          IN  instant >= 0 =>
                 /\ local_date_in_zone(instant, b) = pages[place]
                 /\ window.today = ymd_key(pages[place])
                 /\ \A i \in 1..3 : contains_month_day(window, ymd_key(pages[i]))
                                       <=> month(pages[i]) = month(pages[place])
                 /\ pages[place][3] = 1 /\ place > 1 =>
                       previous_month_start(window)
                          = ymd_key(<<pages[place - 1][1], pages[place - 1][2], 1>>)
=============================================================================
