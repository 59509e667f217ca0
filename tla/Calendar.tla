------------------------------- MODULE Calendar -------------------------------
(***************************************************************************)
(* ExtractNTPTime of the CC3000 library (utility/sntp.cpp): the date of a  *)
(* 32-bit count of seconds since 1900, the top bit of which says that it   *)
(* has not overflowed yet.  Every day from the first the count can show is *)
(* looked at, at a few times of the day.                                   *)
(***************************************************************************)
EXTENDS Integers

CONSTANTS
    FirstDay, LastDay,  \* 24855, the day of 2^31 seconds, and 49710 behind it
    Clocks,             \* the seconds of a day that are looked at
    Fractions           \* the parts of a second, in 1024ths, that are looked at

ASSUME CalendarAssumption == FirstDay \in Nat /\ LastDay \in Nat /\ Fractions \subseteq 0 .. 1023

VARIABLES day,          \* days since 1900 that have really passed
          clock,        \* seconds of that day
          fraction      \* 1024ths of that second

calendarVars == <<day, clock, fraction>>

SecsDay == 86400                \* SECS_DAY
BaseYear == 1900                \* BASE_YEAR
FixPtDaysYear == 93504          \* FIX_PT_DAYS_YEAR: 365.25 * 256
EraDays == 49710                \* 2^32 seconds are 49710 days
EraSecs == 23296                \* and 23296 seconds

-----------------------------------------------------------------------------
(* The counter of the time: whether its top bit is set, and the days and    *)
(* seconds of a day in it.  TLC has no 32-bit unsigned numbers.             *)
Overflowed(d, c) == d > EraDays \/ (d = EraDays /\ c >= EraSecs)
Counter(d, c) ==
    LET days == IF Overflowed(d, c) THEN d - EraDays ELSE d
        secs == IF Overflowed(d, c) THEN c - EraSecs ELSE c
    IN  IF secs < 0 THEN [days |-> days - 1, secs |-> secs + SecsDay]
        ELSE [days |-> days, secs |-> secs]

(* Month and day of the month.  The source takes the days of month after    *)
(* month (monthDays) from the day of the year; these are their sums.        *)
MonthSums(year) ==
    LET b == IF year % 4 = 0 /\ year # 1900 THEN 1 ELSE 0
    IN  <<0, 31, 59 + b, 90 + b, 120 + b, 151 + b, 181 + b, 212 + b, 243 + b, 273 + b,
          304 + b, 334 + b, 365 + b>>
MonthOf(d, year) ==
    LET sums == MonthSums(year)
        m == CHOOSE n \in 1 .. 12 : sums[n] <= d /\ d < sums[n + 1]
    IN  [mon |-> m - 1, mday |-> d - sums[m] + 1]

(* After an overflow the days and seconds of the era are added again.       *)
Shifted(t, overflow) == IF overflow THEN t.secs + EraSecs ELSE t.secs

DayClock(t, overflow) == Shifted(t, overflow) % SecsDay
DayNo_uncarried(t, overflow) == IF overflow THEN t.days + EraDays ELSE t.days

DayNo(t, overflow) ==
    (IF overflow THEN t.days + EraDays ELSE t.days) + Shifted(t, overflow) \div SecsDay
YDay(t, overflow) == (((DayNo(t, overflow) + 1) * 256) % FixPtDaysYear) \div 256
ExtractNTPTime(t, overflow) ==
    LET dayclock == DayClock(t, overflow)
        dayno == DayNo(t, overflow)
        year == ((dayno + 1) * 256) \div FixPtDaysYear + BaseYear
        date == MonthOf(YDay(t, overflow), year)
    IN  [sec |-> dayclock % 60, min |-> (dayclock % 3600) \div 60, hour |-> dayclock \div 3600,
         wday |-> (dayno + 1) % 7, year |-> year, mon |-> date.mon, mday |-> date.mday]

Extracted(d) == ExtractNTPTime(Counter(d, clock), Overflowed(d, clock))
YearDay(d) == YDay(Counter(d, clock), Overflowed(d, clock))

(* The fraction of a second is signed, and shifted as such, and the result  *)
(* goes into a uint16_t.                                                    *)
Millis ==
    (((IF fraction < 512 THEN fraction ELSE fraction - 1024) * 1000) \div 1024) % 65536

CalendarInit == day = FirstDay /\ clock = SecsDay - 1 /\ fraction = 0
LookAt ==
    /\ day = FirstDay /\ day' \in FirstDay .. LastDay - 1
    /\ clock' \in Clocks /\ fraction' \in Fractions
CalendarSpec == CalendarInit /\ [][LookAt]_calendarVars

-----------------------------------------------------------------------------
(* Reference: the day after a date of the Gregorian calendar.               *)
Leap(y) == y % 4 = 0 /\ (y % 100 # 0 \/ y % 400 = 0)
DaysIn(m, y) == IF m = 1 /\ Leap(y) THEN 29 ELSE <<31, 28, 31, 30, 31, 30, 31, 31, 30, 31, 30, 31>>[m + 1]
DayAfter(d) ==
    LET last == d.mday = DaysIn(d.mon, d.year)
    IN  [d EXCEPT !.wday = (@ + 1) % 7,
                  !.mday = IF last THEN 1 ELSE @ + 1,
                  !.mon = IF last THEN (@ + 1) % 12 ELSE @,
                  !.year = IF last /\ d.mon = 11 THEN @ + 1 ELSE @]

(* From one day to the next the date moves as the calendar does and the     *)
(* time of day stays, also across the overflow of the counter in 2036, and  *)
(* the first date is Saturday, 20 January 1968.                             *)
DatesFollow ==
    /\ Extracted(day + 1) = DayAfter(Extracted(day))
    /\ day = FirstDay => /\ <<Extracted(day).year, Extracted(day).mon, Extracted(day).mday>> = <<1968, 0, 20>>
                         /\ Extracted(day).wday = 6

(* The days of a year are counted from 0, in step with its dates.           *)
YearDayFollows ==
    LET next == Extracted(day + 1) IN
    /\ YearDay(day + 1) = IF next.mon = 0 /\ next.mday = 1 THEN 0 ELSE YearDay(day) + 1
    /\ day = FirstDay => YearDay(day) = 19

(* The time of day is the second of the day, and of its first half the      *)
(* thousandths.                                                             *)
TimeOfDay ==
    /\ LET t == Extracted(day) IN t.hour * 3600 + t.min * 60 + t.sec = clock
    /\ fraction < 512 => Millis * 1024 <= fraction * 1000 /\ fraction * 1000 < (Millis + 1) * 1024

(* "Milliseconds after the second (0..999)" (sntp.h:347), of any fraction.  *)
MillisInRange == Millis \in 0 .. 999

(* The date and the time of day that are shown belong to the same moment.   *)
CalendarSound == DatesFollow /\ YearDayFollows /\ TimeOfDay

=============================================================================
