------------------------------- MODULE Calendar --------------------------------
(***************************************************************************)
(* Date of DateTime.cpp: a date of the Gregorian calendar that is set, and *)
(* moved a day on or back.                                                 *)
(***************************************************************************)
EXTENDS Integers

CONSTANTS
  Years,  \* bound: the years that a program sets or moves in
  Days,   \* bound: the days of a month that it sets
  Today   \* what day it can be when set() asks the system

MaxYear == 65535  \* of an unsigned short

Year  == 0..MaxYear
Month == 1..12
Date  == [year : Year, month : {0} \cup Month, day : 0..255]

VARIABLE date

(* Mutant: the calendar of Julius Caesar.                                  *)
leap_year_julian(y) == y % 4 = 0

leap_year(y) == (y % 4 = 0 /\ y % 100 # 0) \/ y % 400 = 0

month_days(leap) ==
  IF leap THEN <<31, 29, 31, 30, 31, 30, 31, 31, 30, 31, 30, 31>>
          ELSE <<31, 28, 31, 30, 31, 30, 31, 31, 30, 31, 30, 31>>

days_in_year(leap) ==
  IF leap THEN <<0, 31, 60, 91, 121, 152, 182, 213, 244, 274, 305, 335>>
          ELSE <<0, 31, 59, 90, 120, 151, 181, 212, 243, 273, 304, 334>>

days_in_month(y, m) == month_days(leap_year(y))[m]

Exists(d) == d.month \in Month /\ d.day \in 1..days_in_month(d.year, d.month)

ASSUME CalendarAssumption ==
  /\ Years \subseteq Year /\ Days \subseteq 0..255
  /\ Today \subseteq {d \in Date : Exists(d)}

day_of_year(d) == days_in_year(leap_year(d.year))[d.month] + d.day

(* Division rounds to zero: before year 0 there is no leap day.            *)
LeapDays(y) == IF y < 0 THEN 0 ELSE y \div 4 - y \div 100 + y \div 400

day_of_week(d) ==
  LET w == (d.year + day_of_year(d) + LeapDays(d.year - 1)) % 7
  IN  IF w = 0 THEN 7 ELSE w

YearNow  == 0
MonthNow == 13
DayNow   == 0

(* is_valid().  For MonthNow it reads behind the end of a month_days row:  *)
(* the first month of the next row, or after the second row anything.      *)
is_valid(y, m, d) ==
  \/ m \in Month /\ d <= days_in_month(y, m)
  \/ m = MonthNow /\ (leap_year(y) \/ d <= 31)

DateInit == date = [year |-> 0, month |-> 0, day |-> 0]

(* set(); what is not valid ends the program.  What the system fills in    *)
(* is not looked at.                                                       *)
SetDate(y, m, d) ==
  /\ is_valid(y, m, d)
  /\ \E t \in Today :
       date' = [year  |-> IF y = YearNow THEN t.year ELSE y,
                month |-> IF m = MonthNow THEN t.month ELSE m,
                day   |-> IF d = DayNow THEN t.day ELSE d]

(* operator++()                                                            *)
IncrementDate ==
  LET NewMonth == date.day + 1 > days_in_month(date.year, date.month)
      NewYear  == NewMonth /\ date.month = 12
  IN  date' = [year  |-> IF NewYear THEN (date.year + 1) % (MaxYear + 1) ELSE date.year,
               month |-> IF NewYear THEN 1 ELSE IF NewMonth THEN date.month + 1 ELSE date.month,
               day   |-> IF NewMonth THEN 1 ELSE date.day + 1]

(* The year before, but never before 1900.                                 *)
YearBefore(y) == IF y - 1 \in 0..1899 THEN 1900 ELSE (y - 1) % (MaxYear + 1)

(* operator--()                                                            *)
DecrementDate ==
  LET NewMonth == date.day = 1
      y == IF NewMonth /\ date.month = 1 THEN YearBefore(date.year) ELSE date.year
      m == IF NewMonth THEN (IF date.month = 1 THEN 12 ELSE date.month - 1) ELSE date.month
  IN  date' = [year |-> y, month |-> m, day |-> IF NewMonth THEN days_in_month(y, m) ELSE date.day - 1]

(* What is not valid after it ends the program, and so does moving a date  *)
(* that was never set.                                                     *)
Move ==
  /\ date.month # 0
  /\ IncrementDate \/ DecrementDate
  /\ is_valid(date'.year, date'.month, date'.day)

DateNext ==
  \/ \E y \in Years \cup {YearNow}, m \in Month \cup {MonthNow}, d \in Days : SetDate(y, m, d)
  \/ date.year \in Years /\ Move

DateSpec == DateInit /\ [][DateNext]_date
-------------------------------------------------------------------------------
DateTypeOK == date \in Date

(* d is followed by e: the day after, in the week and in the year.         *)
Follows(d, e) ==
  /\ Exists(e)
  /\ day_of_week(e) = (day_of_week(d) % 7) + 1
  /\ \/ e.year = d.year /\ day_of_year(e) = day_of_year(d) + 1
     \/ /\ e.year = d.year + 1 /\ day_of_year(e) = 1
        /\ day_of_year(d) = (IF leap_year(d.year) THEN 366 ELSE 365)

(* From any date of the calendar ++ leads to the day after and -- to the   *)
(* day before, with the tables of months and years, the leap years and the *)
(* week in agreement (DateTime.cpp:51-59, 290-361), except over the end of *)
(* what a year can hold, which leads to a year 0, and over the start of    *)
(* 1900; and a day in 2000 that was a Saturday is one (DateTime.h:263,     *)
(* "1 == Sunday").                                                         *)
DaysFollow ==
  [][Exists(date) =>
       /\ IncrementDate /\ date.year \in 1..MaxYear - 1 => Follows(date, date')
       /\ DecrementDate /\ (date.year > 1900 \/ day_of_year(date) > 1) => Follows(date', date)
       /\ date = [year |-> 2000, month |-> 1, day |-> 1] => day_of_week(date) = 7]_date
===============================================================================
