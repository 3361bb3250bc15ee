---------------------------- MODULE InMemoryProofs -----------------------------
(***************************************************************************)
(* What is proved of the parts of InMemory: for every date there is what   *)
(* DateTime.cpp's ++ and -- do to it, for every use of the template list   *)
(* of List.h that it is its elements in their order, and the types of all. *)
(***************************************************************************)
EXTENDS InMemory, SettingsProofs

LeapDay(y) == IF leap_year(y) THEN 1 ELSE 0

YearLength(y) == IF leap_year(y) THEN 366 ELSE 365

(* The lengths of the months, and where they begin, fit together.          *)
LEMMA MonthsFit ==
  ASSUME NEW y \in Year
  PROVE  /\ \A m \in 1..11 :
              days_in_year(leap_year(y))[m + 1] = days_in_year(leap_year(y))[m] + days_in_month(y, m)
         /\ days_in_year(leap_year(y))[1] = 0
         /\ days_in_year(leap_year(y))[12] + days_in_month(y, 12) = YearLength(y)
<1>1. CASE leap_year(y)
  BY <1>1 DEF days_in_year, days_in_month, month_days, YearLength
<1>2. CASE ~leap_year(y)
  BY <1>2 DEF days_in_year, days_in_month, month_days, YearLength
<1> QED
  BY <1>1, <1>2

(* A month has 28 to 31 days.                                              *)
LEMMA MonthLengths ==
  ASSUME NEW y \in Year, NEW m \in Month
  PROVE  days_in_month(y, m) \in 28..31 /\ days_in_month(y, 12) = 31
<1>1. CASE leap_year(y)
  BY <1>1 DEF days_in_month, month_days, Month
<1>2. CASE ~leap_year(y)
  BY <1>2 DEF days_in_month, month_days, Month
<1> QED
  BY <1>1, <1>2

(* The days before a month are a number.                                   *)
LEMMA YearDays ==
  ASSUME NEW y \in Year, NEW m \in Month
  PROVE  days_in_year(leap_year(y))[m] \in Int
<1>1. CASE leap_year(y)
  BY <1>1 DEF days_in_year, Month
<1>2. CASE ~leap_year(y)
  BY <1>2 DEF days_in_year, Month
<1> QED
  BY <1>1, <1>2

(* The leap days up to a year are those up to the year before, and its own.*)
LEMMA LeapDaysGrow ==
  ASSUME NEW y \in Int, y > 0, NEW x \in Int, x = y - 1
  PROVE  LeapDays(y) = LeapDays(x) + LeapDay(y)
<1>1. y \div 4 = (y - 1) \div 4 + (IF y % 4 = 0 THEN 1 ELSE 0)
  OBVIOUS
<1>2. y \div 100 = (y - 1) \div 100 + (IF y % 100 = 0 THEN 1 ELSE 0)
  OBVIOUS
<1>3. y \div 400 = (y - 1) \div 400 + (IF y % 400 = 0 THEN 1 ELSE 0)
  OBVIOUS
<1>4. \A q \in Int : (400 * q) % 100 = 0 /\ (100 * q) % 4 = 0
  OBVIOUS
<1>5. (y % 400 = 0 => y = 400 * (y \div 400)) /\ (y % 100 = 0 => y = 100 * (y \div 100))
  OBVIOUS
<1>6. (y % 400 = 0 => y % 100 = 0) /\ (y % 100 = 0 => y % 4 = 0)
  <2>1. ASSUME y % 400 = 0 PROVE y % 100 = 0
    <3>1. PICK q \in Int : y = 400 * q
      BY <1>5, <2>1
    <3> QED
      BY <1>4, <3>1
  <2>2. ASSUME y % 100 = 0 PROVE y % 4 = 0
    <3>1. PICK q \in Int : y = 100 * q
      BY <1>5, <2>2
    <3> QED
      BY <1>4, <3>1
  <2> QED
    BY <2>1, <2>2
<1>7. \A n \in {4, 100, 400} : y \div n \in Int /\ (y - 1) \div n \in Int
  OBVIOUS
<1>8. /\ LeapDays(y) = y \div 4 - y \div 100 + y \div 400
      /\ LeapDays(x) = (y - 1) \div 4 - (y - 1) \div 100 + (y - 1) \div 400
  BY DEF LeapDays
<1>9. CASE leap_year(y)
  <2>1. (y % 4 = 0 /\ y % 100 # 0) \/ (y % 4 = 0 /\ y % 100 = 0 /\ y % 400 = 0)
    BY <1>6, <1>9 DEF leap_year
  <2> QED
    BY <1>1, <1>2, <1>3, <1>6, <1>7, <1>8, <1>9, <2>1 DEF LeapDay
<1>10. CASE ~leap_year(y)
  <2>1. (y % 4 # 0 /\ y % 100 # 0 /\ y % 400 # 0) \/ (y % 4 = 0 /\ y % 100 = 0 /\ y % 400 # 0)
    BY <1>6, <1>10 DEF leap_year
  <2> QED
    BY <1>1, <1>2, <1>3, <1>6, <1>7, <1>8, <1>10, <2>1 DEF LeapDay
<1> QED
  BY <1>9, <1>10
-------------------------------------------------------------------------------
Weekday(n) == IF n % 7 = 0 THEN 7 ELSE n % 7

(* The days of the week follow each other.                                 *)
LEMMA WeekGoesOn ==
  ASSUME NEW n \in Int
  PROVE  Weekday(n + 1) = (Weekday(n) % 7) + 1
<1>1. n % 7 \in 0..6 /\ (n + 1) % 7 = (IF n % 7 = 6 THEN 0 ELSE (n % 7) + 1)
  OBVIOUS
<1>2. \A k \in 0..6 : k % 7 = k
  OBVIOUS
<1>3. 7 % 7 = 0
  OBVIOUS
<1> QED
  BY <1>1, <1>2, <1>3 DEF Weekday

(* The day of the week is that of a number of days.                        *)
Number(y, n) == y + n + LeapDays(y - 1)

LEMMA DayOfWeek ==
  ASSUME NEW d
  PROVE  day_of_week(d) = Weekday(Number(d.year, day_of_year(d)))
BY DEF day_of_week, Weekday, Number

(* So far a number of leap days.                                           *)
LEMMA LeapDaysCount ==
  ASSUME NEW x \in Int
  PROVE  LeapDays(x) \in Int
BY DEF LeapDays

(* Numbers of a year: the days in it, and the first of the next.           *)
LEMMA Numbers ==
  ASSUME NEW y \in Year, NEW n \in Int, NEW m \in Int, m = n + 1
  PROVE  Number(y, n) \in Int /\ Number(y, m) = Number(y, n) + 1
<1>1. PICK x \in Int : x = y - 1
  BY DEF Year
<1>2. PICK l \in Int : l = LeapDays(x)
  BY LeapDaysCount
<1>3. Number(y, n) = y + n + l /\ Number(y, m) = y + m + l
  BY <1>1, <1>2 DEF Number
<1> QED
  BY <1>3 DEF Year

(* 364 days are whole weeks.                                               *)
LEMMA WholeWeeks ==
  ASSUME NEW n \in Int
  PROVE  (n + 364) % 7 = n % 7
OBVIOUS

(* The last day of a year has the weekday before that of the next first.   *)
LEMMA NewYearsWeekday ==
  ASSUME NEW y \in Int, y > 0, NEW z \in Int, z = y + 1, NEW m \in Int, m = YearLength(y)
  PROVE  Weekday(Number(z, 1)) = (Weekday(Number(y, m)) % 7) + 1
<1>1. PICK b \in Int : b = LeapDay(y)
  BY DEF LeapDay
<1>2. PICK x \in Int : x = y - 1
  OBVIOUS
<1>3. PICK l \in Int : l = LeapDays(x)
  BY LeapDaysCount
<1>4. PICK k \in Int : k = LeapDays(y)
  BY LeapDaysCount
<1>5. k = l + b
  BY <1>1, <1>2, <1>3, <1>4, LeapDaysGrow
<1>6. m = 365 + b
  BY <1>1 DEF LeapDay, YearLength
<1>7. Number(y, m) = y + m + l
  BY <1>2, <1>3 DEF Number
<1>8. z - 1 = y
  OBVIOUS
<1>9. Number(z, 1) = z + 1 + k
  BY <1>4, <1>8 DEF Number
<1>10. PICK n \in Int : n = y + l + b + 1
  OBVIOUS
<1>11. Number(z, 1) = n + 1 /\ Number(y, m) = n + 364
  BY <1>5, <1>6, <1>7, <1>9, <1>10
<1>12. Weekday(n + 364) = Weekday(n)
  BY WholeWeeks DEF Weekday
<1> QED
  BY <1>11, <1>12, WeekGoesOn
-------------------------------------------------------------------------------
(* The day of the year, in terms of the parts of a date.                   *)
LEMMA DayOfYear ==
  ASSUME NEW y \in Year, NEW m \in Month, NEW k \in Int, NEW d,
         d = [year |-> y, month |-> m, day |-> k]
  PROVE  /\ day_of_year(d) = days_in_year(leap_year(y))[m] + k
         /\ day_of_year(d) \in Int
<1>1. day_of_year(d) = days_in_year(leap_year(y))[m] + k
  BY DEF day_of_year
<1>2. PICK a \in Int : a = days_in_year(leap_year(y))[m]
  BY YearDays
<1> QED
  BY <1>1, <1>2

(* A day whose number is one more in its year follows.                     *)
LEMMA NextInYear ==
  ASSUME NEW y \in Year, NEW d, NEW e, NEW n \in Int, NEW p \in Int, p = n + 1,
         d.year = y, e.year = y, day_of_year(d) = n, day_of_year(e) = p, Exists(e)
  PROVE  Follows(d, e)
<1>1. PICK w \in Int : w = Number(y, n)
  BY Numbers
<1>2. Number(y, p) = w + 1
  BY <1>1, Numbers
<1>3. day_of_week(d) = Weekday(w) /\ day_of_week(e) = Weekday(w + 1)
  BY <1>1, <1>2, DayOfWeek
<1>4. day_of_week(e) = (day_of_week(d) % 7) + 1
  BY <1>3, WeekGoesOn
<1> QED
  BY <1>4 DEF Follows

(* The day after within a month.                                           *)
LEMMA InMonth ==
  ASSUME NEW y \in Year, NEW m \in Month, NEW k \in Int, NEW j \in Int, j = k + 1, k > 0,
         NEW d, NEW e, d = [year |-> y, month |-> m, day |-> k],
         e = [year |-> y, month |-> m, day |-> j], j <= days_in_month(y, m)
  PROVE  Follows(d, e)
<1>1. PICK a \in Int : a = days_in_year(leap_year(y))[m]
  BY YearDays
<1>2. day_of_year(d) = a + k /\ day_of_year(e) = a + j
  BY <1>1, DayOfYear
<1>3. PICK n \in Int, p \in Int : n = a + k /\ p = a + j
  OBVIOUS
<1>4. p = n + 1
  BY <1>3
<1>5. Exists(e)
  <2>1. PICK l \in Int : l = days_in_month(y, m)
    BY MonthLengths
  <2>2. e.year = y /\ e.month = m /\ e.day = j
    OBVIOUS
  <2>3. j \in 1..l
    BY <2>1
  <2> QED
    BY <2>1, <2>2, <2>3 DEF Exists
<1>6. d.year = y /\ e.year = y
  OBVIOUS
<1> QED
  BY <1>2, <1>3, <1>4, <1>5, <1>6, NextInYear

(* The first of a month exists.                                            *)
LEMMA FirstExists ==
  ASSUME NEW y \in Year, NEW m \in Month, NEW e, e = [year |-> y, month |-> m, day |-> 1]
  PROVE  Exists(e)
<1>1. PICK l \in 28..31 : l = days_in_month(y, m)
  BY MonthLengths
<1>2. 1 \in 1..l
  OBVIOUS
<1>3. e.year = y /\ e.month = m /\ e.day = 1
  OBVIOUS
<1> QED
  BY <1>1, <1>2, <1>3 DEF Exists

(* A month begins where the one before ends.                               *)
LEMMA MonthBegins ==
  ASSUME NEW y \in Year, NEW m \in Month, NEW o \in Month, o = m + 1
  PROVE  days_in_year(leap_year(y))[o] = days_in_year(leap_year(y))[m] + days_in_month(y, m)
<1>1. m \in 1..11
  BY DEF Month
<1> QED
  BY <1>1, MonthsFit

(* The first of a month follows the last of the month before.              *)
LEMMA NextMonth ==
  ASSUME NEW y \in Year, NEW m \in Month, NEW o \in Month, o = m + 1, NEW k \in Int,
         NEW d, NEW e, d = [year |-> y, month |-> m, day |-> k],
         e = [year |-> y, month |-> o, day |-> 1], k = days_in_month(y, m)
  PROVE  Follows(d, e)
<1>1. PICK a \in Int : a = days_in_year(leap_year(y))[m]
  BY YearDays
<1>2. PICK c \in Int : c = days_in_year(leap_year(y))[o]
  BY YearDays
<1>3. c = a + k
  BY <1>1, <1>2, MonthBegins
<1>4. day_of_year(d) = a + k
  BY <1>1, DayOfYear
<1>5. day_of_year(e) = c + 1
  BY <1>2, DayOfYear
<1>6. PICK n \in Int, p \in Int : n = a + k /\ p = c + 1
  OBVIOUS
<1>7. p = n + 1
  BY <1>3, <1>6
<1>8. Exists(e)
  BY FirstExists
<1>9. d.year = y /\ e.year = y
  OBVIOUS
<1> QED
  BY <1>4, <1>5, <1>6, <1>7, <1>8, <1>9, NextInYear

(* New Year's Day follows New Year's Eve.                                  *)
LEMMA NextYear ==
  ASSUME NEW y \in Year, y > 0, NEW z \in Year, z = y + 1,
         NEW d, NEW e, d = [year |-> y, month |-> 12, day |-> 31],
         e = [year |-> z, month |-> 1, day |-> 1]
  PROVE  Follows(d, e)
<1>1. 1 \in Month /\ 12 \in Month /\ y \in Int /\ z \in Int
  BY DEF Month, Year
<1>2. PICK m \in Int : m = YearLength(y)
  BY DEF YearLength
<1>3. PICK a \in Int : a = days_in_year(leap_year(y))[12]
  BY <1>1, YearDays
<1>4. a + 31 = m
  BY <1>1, <1>2, <1>3, MonthLengths, MonthsFit
<1>5. day_of_year(d) = m
  BY <1>1, <1>3, <1>4, DayOfYear
<1>6. days_in_year(leap_year(z))[1] = 0
  BY MonthsFit
<1>7. day_of_year(e) = 1
  BY <1>1, <1>6, DayOfYear
<1>8. Weekday(Number(z, 1)) = (Weekday(Number(y, m)) % 7) + 1
  BY <1>1, <1>2, NewYearsWeekday
<1>9. d.year = y /\ e.year = z
  OBVIOUS
<1>10. day_of_week(d) = Weekday(Number(y, m)) /\ day_of_week(e) = Weekday(Number(z, 1))
  BY <1>5, <1>7, <1>9, DayOfWeek
<1>11. Exists(e)
  BY <1>1, FirstExists
<1>12. day_of_year(d) = IF leap_year(d.year) THEN 366 ELSE 365
  BY <1>2, <1>5, <1>9 DEF YearLength
<1> QED
  BY <1>7, <1>8, <1>9, <1>10, <1>11, <1>12 DEF Follows
-------------------------------------------------------------------------------
(* A date that was set has a day.                                          *)
DateInv == DateTypeOK /\ (date.month # 0 => date.day # 0)

(* What is a year stays one.                                               *)
LEMMA YearsWrap ==
  ASSUME NEW x \in Int
  PROVE  x % (MaxYear + 1) \in Year /\ (x \in Year => x % (MaxYear + 1) = x)
<1>1. PICK n \in Nat : n = MaxYear
  BY DEF MaxYear
<1>2. PICK p \in Int : p = n + 1 /\ p > 0
  OBVIOUS
<1>3. x % p \in 0..n
  BY <1>2
<1>4. x \in 0..n => x % p = x
  BY <1>2
<1> QED
  BY <1>1, <1>2, <1>3, <1>4 DEF Year

(* The year that -- does not go before.                                    *)
LEMMA FirstYear == 1900 \in Year
BY DEF Year, MaxYear

(* The parts of a date.                                                    *)
LEMMA Parts ==
  ASSUME NEW y \in Year, NEW m \in {0} \cup Month, NEW k \in 0..255,
         date = [year |-> y, month |-> m, day |-> k], Exists(date)
  PROVE  m \in Month /\ k > 0 /\ k <= days_in_month(y, m) /\ day_of_year(date) \in Int
<1>1. m \in Month /\ k \in 1..days_in_month(y, m)
  BY DEF Exists
<1>2. PICK l \in Int : l = days_in_month(y, m)
  BY <1>1, MonthLengths
<1> QED
  BY <1>1, <1>2, DayOfYear

(* ++ leads to the day after.                                              *)
LEMMA IncrementFollows ==
  ASSUME DateTypeOK, Exists(date), date.year > 0, date.year < MaxYear, IncrementDate
  PROVE  Follows(date, date')
<1>1. PICK y \in Year, m \in {0} \cup Month, k \in 0..255 : date = [year |-> y, month |-> m, day |-> k]
  BY DEF DateTypeOK, Date
<1>2. m \in Month /\ k > 0 /\ k <= days_in_month(y, m)
  BY <1>1, Parts
<1>3. PICK l \in Int : l = days_in_month(y, m)
  BY <1>2, MonthLengths
<1>4. date.year = y /\ date.month = m /\ date.day = k
  BY <1>1
<1>5. PICK j \in Int : j = k + 1
  OBVIOUS
<1>6. CASE j <= l
  <2>1. date' = [year |-> y, month |-> m, day |-> j]
    BY <1>3, <1>4, <1>5, <1>6 DEF IncrementDate
  <2> QED
    BY <1>1, <1>2, <1>3, <1>5, <1>6, <2>1, InMonth
<1>7. CASE j > l /\ m # 12
  <2>1. PICK o \in Month : o = m + 1
    BY <1>2, <1>7 DEF Month
  <2>2. date' = [year |-> y, month |-> o, day |-> 1]
    BY <1>3, <1>4, <1>5, <1>7, <2>1 DEF IncrementDate
  <2>3. k = l
    BY <1>2, <1>3, <1>5, <1>7
  <2> QED
    BY <1>1, <1>2, <1>3, <2>1, <2>2, <2>3, NextMonth
<1>8. CASE j > l /\ m = 12
  <2>1. PICK z \in Year : z = y + 1
    <3>1. PICK n \in Nat : n = MaxYear
      BY DEF MaxYear
    <3>2. y \in 0..n /\ y < n
      BY <1>4, <3>1 DEF Year
    <3>3. PICK x \in 0..n : x = y + 1
      BY <3>2
    <3> QED
      BY <3>1, <3>3 DEF Year
  <2>2. (y + 1) % (MaxYear + 1) = z
    BY <2>1, YearsWrap DEF Year
  <2>3. date' = [year |-> z, month |-> 1, day |-> 1]
    BY <1>3, <1>4, <1>5, <1>8, <2>2 DEF IncrementDate
  <2>4. k = 31
    BY <1>2, <1>3, <1>5, <1>8, MonthLengths
  <2> QED
    BY <1>1, <1>4, <1>8, <2>1, <2>3, <2>4, NextYear
<1> QED
  BY <1>3, <1>5, <1>6, <1>7, <1>8

(* -- leads to the day before.                                             *)
LEMMA DecrementFollows ==
  ASSUME DateTypeOK, Exists(date), date.year > 1900 \/ day_of_year(date) > 1, DecrementDate
  PROVE  Follows(date', date)
<1>1. PICK y \in Year, m \in {0} \cup Month, k \in 0..255 : date = [year |-> y, month |-> m, day |-> k]
  BY DEF DateTypeOK, Date
<1>2. m \in Month /\ k > 0 /\ k <= days_in_month(y, m)
  BY <1>1, Parts
<1>3. PICK l \in Int : l = days_in_month(y, m)
  BY <1>2, MonthLengths
<1>4. date.year = y /\ date.month = m /\ date.day = k
  BY <1>1
<1>5. CASE k # 1
  <2>1. PICK j \in Int : j = k - 1
    OBVIOUS
  <2>2. date' = [year |-> y, month |-> m, day |-> j]
    BY <1>4, <1>5, <2>1 DEF DecrementDate
  <2>3. k = j + 1 /\ j > 0 /\ k \in Int
    BY <1>2, <1>5, <2>1
  <2> QED
    BY <1>1, <1>2, <2>1, <2>2, <2>3, InMonth
<1>6. CASE k = 1 /\ m # 1
  <2>1. PICK o \in Month : m = o + 1
    <3>1. m - 1 \in Month
      BY <1>2, <1>6 DEF Month
    <3> QED
      BY <1>2, <3>1 DEF Month
  <2>2. m - 1 = o
    BY <1>2, <2>1 DEF Month
  <2>3. PICK n \in Int : n = days_in_month(y, o)
    BY MonthLengths
  <2>4. date' = [year |-> y, month |-> o, day |-> n]
    BY <1>4, <1>6, <2>2, <2>3 DEF DecrementDate
  <2> QED
    BY <1>1, <1>2, <1>6, <2>1, <2>3, <2>4, NextMonth
<1>7. CASE k = 1 /\ m = 1
  <2>1. day_of_year(date) = 1
    BY <1>1, <1>2, <1>7, MonthsFit, DayOfYear
  <2>2. y > 1900
    BY <1>4, <2>1
  <2>3. PICK z \in Year : y = z + 1 /\ z > 0 /\ z >= 1900
    <3>1. PICK n \in Nat : n = MaxYear
      BY DEF MaxYear
    <3>2. PICK x \in Int : x = y - 1
      BY DEF Year
    <3>3. x \in 0..n
      BY <2>2, <3>1, <3>2 DEF Year
    <3>4. y = x + 1 /\ x > 0 /\ x >= 1900
      BY <2>2, <3>2 DEF Year
    <3> QED
      BY <3>1, <3>3, <3>4 DEF Year
  <2>4. y - 1 = z
    BY <2>3 DEF Year
  <2>5. YearBefore(y) = z
    <3>1. z \in Int
      BY DEF Year
    <3>2. z % (MaxYear + 1) = z
      BY <3>1, YearsWrap
    <3>3. z \notin 0..1899
      <4>1. z >= 1900
        BY <2>3
      <4> QED
        BY ONLY SMTT(20), <3>1, <4>1
    <3>4. YearBefore(y) = (y - 1) % (MaxYear + 1)
      BY SMTT(20), <2>4, <3>3 DEF YearBefore
    <3> QED
      BY <2>4, <3>2, <3>4
  <2>6. days_in_month(z, 12) = 31
    BY <1>2, MonthLengths
  <2>7. date' = [year |-> z, month |-> 12, day |-> 31]
    BY <1>4, <1>7, <2>5, <2>6 DEF DecrementDate
  <2> QED
    BY <1>1, <1>7, <2>3, <2>7, NextYear
<1> QED
  BY <1>5, <1>6, <1>7
-------------------------------------------------------------------------------
LEMMA DateInvInit ==
  ASSUME DateInit
  PROVE  DateInv
BY DEF DateInit, DateInv, DateTypeOK, Date, Year, MaxYear

LEMMA DateInvSet ==
  ASSUME DateInv, NEW y \in Years \cup {YearNow}, NEW m \in Month \cup {MonthNow}, NEW k \in Days,
         SetDate(y, m, k)
  PROVE  DateInv'
<1>1. PICK t \in Today :
        date' = [year  |-> IF y = YearNow THEN t.year ELSE y,
                 month |-> IF m = MonthNow THEN t.month ELSE m,
                 day   |-> IF k = DayNow THEN t.day ELSE k]
  BY DEF SetDate
<1>2. t \in Date /\ Exists(t) /\ Years \subseteq Year /\ Days \subseteq 0..255
  BY CalendarAssumption
<1>3. PICK u \in Year, n \in {0} \cup Month, j \in 0..255 : t = [year |-> u, month |-> n, day |-> j]
  BY <1>2 DEF Date
<1>4. n \in Month /\ j # 0
  <2>1. t.year = u /\ t.month = n /\ t.day = j
    BY <1>3
  <2>2. n \in Month /\ j \in 1..days_in_month(u, n)
    BY <1>2, <2>1 DEF Exists
  <2> QED
    BY <2>2
<1>5. PICK v \in Year : v = IF y = YearNow THEN u ELSE y
  BY <1>2
<1>6. PICK o \in Month : o = IF m = MonthNow THEN n ELSE m
  BY <1>4
<1>7. PICK i \in 0..255 : i = (IF k = DayNow THEN j ELSE k) /\ i # 0
  BY <1>2, <1>4 DEF DayNow
<1>8. date' = [year |-> v, month |-> o, day |-> i]
  BY <1>1, <1>3, <1>5, <1>6, <1>7
<1> QED
  BY <1>7, <1>8 DEF DateInv, DateTypeOK, Date

LEMMA DateInvMove ==
  ASSUME DateInv, Move
  PROVE  DateInv'
<1>1. PICK y \in Year, m \in {0} \cup Month, k \in 0..255 : date = [year |-> y, month |-> m, day |-> k]
  BY DEF DateInv, DateTypeOK, Date
<1>2. m \in Month /\ k # 0 /\ date.year = y /\ date.month = m /\ date.day = k
  BY <1>1 DEF DateInv, Move
<1>3. y \in Int
  BY DEF Year
<1>4. CASE IncrementDate
  <2>1. PICK l \in 28..31 : l = days_in_month(y, m)
    BY <1>2, MonthLengths
  <2>2. PICK z \in Year : z = (y + 1) % (MaxYear + 1)
    <3>1. PICK x \in Int : x = y + 1
      BY <1>3
    <3>2. x % (MaxYear + 1) \in Year
      BY YearsWrap
    <3> QED
      BY <3>1, <3>2
  <2>3. PICK j \in Int : j = k + 1
    OBVIOUS
  <2>4. CASE j <= l
    <3>1. date' = [year |-> y, month |-> m, day |-> j]
      BY <1>2, <1>4, <2>1, <2>3, <2>4 DEF IncrementDate
    <3>2. j \in 0..255 /\ j # 0
      BY <1>2, <2>1, <2>3, <2>4
    <3> QED
      BY <1>2, <3>1, <3>2 DEF DateInv, DateTypeOK, Date
  <2>5. CASE j > l /\ m # 12
    <3>1. PICK o \in Month : o = m + 1
      BY <1>2, <2>5 DEF Month
    <3>2. date' = [year |-> y, month |-> o, day |-> 1]
      BY <1>2, <1>4, <2>1, <2>3, <2>5, <3>1 DEF IncrementDate
    <3> QED
      BY <3>2 DEF DateInv, DateTypeOK, Date
  <2>6. CASE j > l /\ m = 12
    <3>1. date' = [year |-> z, month |-> 1, day |-> 1]
      BY <1>2, <1>4, <2>1, <2>2, <2>3, <2>6 DEF IncrementDate
    <3> QED
      BY <3>1 DEF DateInv, DateTypeOK, Date, Month
  <2> QED
    BY <2>1, <2>3, <2>4, <2>5, <2>6
<1>5. CASE DecrementDate
  <2>1. CASE k # 1
    <3>1. date' = [year |-> y, month |-> m, day |-> k - 1]
      BY <1>2, <1>5, <2>1 DEF DecrementDate
    <3>2. k - 1 \in 0..255 /\ k - 1 # 0
      BY <1>2, <2>1
    <3> QED
      BY <1>2, <3>1, <3>2 DEF DateInv, DateTypeOK, Date
  <2>2. CASE k = 1
    <3>1. YearBefore(y) \in Year
      <4>1. (y - 1) % (MaxYear + 1) \in Year
        BY <1>3, YearsWrap
      <4>2. 1900 \in Year
        BY FirstYear
      <4> QED
        BY <4>1, <4>2 DEF YearBefore
    <3>2. PICK z \in Year : z = IF m = 1 THEN YearBefore(y) ELSE y
      BY <3>1
    <3>3. PICK o \in Month : o = IF m = 1 THEN 12 ELSE m - 1
      BY <1>2 DEF Month
    <3>4. PICK n \in 28..31 : n = days_in_month(z, o)
      BY MonthLengths
    <3>5. date' = [year |-> z, month |-> o, day |-> n]
      BY <1>2, <1>5, <2>2, <3>2, <3>3, <3>4 DEF DecrementDate
    <3> QED
      BY <3>5 DEF DateInv, DateTypeOK, Date
  <2> QED
    BY <2>1, <2>2
<1> QED
  BY <1>4, <1>5 DEF Move

(* Any date keeps within its type, whatever ++, -- and set() do.           *)
THEOREM DatesAreDates == DateSpec => []DateTypeOK
<1>1. DateInv /\ [DateNext]_date => DateInv'
  BY DateInvSet, DateInvMove DEF DateNext, DateInv, DateTypeOK
<1>2. DateInit => DateInv
  BY DateInvInit
<1>3. DateInv => DateTypeOK
  BY DEF DateInv
<1> QED
  BY <1>1, <1>2, <1>3, PTL DEF DateSpec

(* The first of January 2000 was a Saturday.                               *)
LEMMA Saturday ==
  ASSUME NEW d, d = [year |-> 2000, month |-> 1, day |-> 1]
  PROVE  day_of_week(d) = 7
<1>1. d.year = 2000 /\ d.month = 1 /\ d.day = 1
  OBVIOUS
<1>2. day_of_year(d) = 1
  BY <1>1 DEF day_of_year, days_in_year
<1>3. 2000 - 1 = 1999
  OBVIOUS
<1>4. LeapDays(1999) = 484
  BY DEF LeapDays
<1>5. (2000 + 1 + 484) % 7 = 0
  OBVIOUS
<1> QED
  BY <1>1, <1>2, <1>3, <1>4, <1>5 DEF day_of_week

(* From every date of the calendar, of every year, ++ and -- lead to the   *)
(* next and the previous day: tables, leap years and week agree            *)
(* (DateTime.cpp:290-361).                                                 *)
THEOREM DaysAlwaysFollow == DateSpec => DaysFollow
<1>1. ASSUME DateTypeOK, DateNext, Exists(date)
      PROVE  /\ IncrementDate /\ date.year \in 1..MaxYear - 1 => Follows(date, date')
             /\ DecrementDate /\ (date.year > 1900 \/ day_of_year(date) > 1) => Follows(date', date)
             /\ date = [year |-> 2000, month |-> 1, day |-> 1] => day_of_week(date) = 7
  <2>1. date.year \in 1..MaxYear - 1 => date.year > 0 /\ date.year < MaxYear
    <3>1. PICK n \in Int : n = MaxYear
      BY DEF MaxYear
    <3> QED
      BY <3>1
  <2> QED
    BY <1>1, <2>1, IncrementFollows, DecrementFollows, Saturday
<1>2. DateTypeOK /\ DateNext =>
        (Exists(date) =>
           /\ IncrementDate /\ date.year \in 1..MaxYear - 1 => Follows(date, date')
           /\ DecrementDate /\ (date.year > 1900 \/ day_of_year(date) > 1) => Follows(date', date)
           /\ date = [year |-> 2000, month |-> 1, day |-> 1] => day_of_week(date) = 7)
  BY <1>1
<1> QED
  BY <1>2, DatesAreDates, PTL DEF DateSpec, DaysFollow
-------------------------------------------------------------------------------

(* The place after k in a ring of places 0..n.                             *)
After(k, n) == IF k = n THEN 0 ELSE k + 1

(* Nodes f[0], f[1] .. f[n] are the ring of elements cs and dummy t.       *)
Ring(f, h, t, cs) ==
  LET n == Len(cs) IN
  /\ f \in [0..n -> Cells] /\ f[0] = t
  /\ \A j, k \in 0..n : f[j] = f[k] => j = k
  /\ \A k \in 1..n : h[f[k]].value = cs[k]
  /\ \A k \in 0..n : h[f[k]].next = f[After(k, n)] /\ h[f[After(k, n)]].prev = f[k]
  /\ \A c \in Cells : h[c] = Freed <=> \A k \in 0..n : c # f[k]

Pointed(f, n) == IF at = n + 1 THEN it = f[0] ELSE at # 0 => it = f[at]

LinkedInv ==
  /\ heap \in Heaps /\ contents \in Seq(Keys) /\ sz = Len(contents)
  /\ tail \in Cells \cup {NULL} /\ at \in 0..Len(contents) + 1
  /\ tail = NULL => contents = <<>> /\ (\A n \in Cells : heap[n] = Freed) /\ (at # 0 => it = NULL)
  /\ tail # NULL => \E f : Ring(f, heap, tail, contents) /\ Pointed(f, Len(contents))
-------------------------------------------------------------------------------
LEMMA WalkIs ==
  ASSUME NEW h, NEW p, NEW link
  PROVE  LET w == Walk(h, p, link)
         IN  /\ DOMAIN w = 0..MaxNodes + 1 /\ w[0] = p
             /\ \A k \in 1..MaxNodes + 1 :
                  w[k] = IF w[k - 1] = NULL THEN NULL ELSE h[w[k - 1]][link]
<1> DEFINE N == MaxNodes + 1
           From(w, k) == IF k = 0 THEN p ELSE IF w[k - 1] = NULL THEN NULL ELSE h[w[k - 1]][link]
           Is(w, m) == w = [k \in 0..m |-> From(w, k)]
           P == {m \in 0..N : \E w : Is(w, m)}
<1>0. N \in Nat
  BY LinkedAssumption
<1>1. 0 \in P
  <2> DEFINE w == [k \in 0..0 |-> p]
  <2>1. \A k \in 0..0 : k = 0
    OBVIOUS
  <2>2. Is(w, 0)
    BY <2>1
  <2> HIDE DEF Is, w
  <2> QED
    BY <1>0, <2>2
<1>2. ASSUME NEW m \in 1..N, m - 1 \in P PROVE m \in P
  <2>1. PICK v : Is(v, m - 1)
    BY <1>2
  <2> DEFINE w == [k \in 0..m |-> IF k = m THEN From(v, m) ELSE v[k]]
  <2>2. \A k \in 0..m - 1 : v[k] = From(v, k)
    BY <2>1
  <2>3. \A k \in 0..m : w[k] = From(w, k)
    <3> TAKE k \in 0..m
    <3>1. k # 0 => k - 1 \in 0..m - 1 /\ w[k - 1] = v[k - 1]
      BY <1>0
    <3>2. From(w, k) = From(v, k)
      BY <3>1
    <3>3. w[k] = IF k = m THEN From(v, m) ELSE v[k]
      OBVIOUS
    <3> HIDE DEF From, w
    <3>4. k # m => v[k] = From(v, k)
      BY <1>0, <2>2
    <3> QED
      BY <3>2, <3>3, <3>4
  <2>4. Is(w, m)
    BY <2>3
  <2> HIDE DEF Is, w
  <2> QED
    BY <2>4
<1>3. \A m \in 0..N : m \in P
  <2> HIDE DEF P, N
  <2> QED
    BY <1>0, <1>1, <1>2, Stepwise
<1>4. \E w : Is(w, N)
  <2> HIDE DEF Is
  <2> QED
    BY <1>0, <1>3
<1>5. PICK w : Is(w, N) /\ Walk(h, p, link) = w
  <2> DEFINE u == CHOOSE v : Is(v, N)
  <2>1. Is(u, N)
    BY <1>4
  <2>2. Walk(h, p, link) = u
    BY DEF Walk
  <2> HIDE DEF u
  <2> QED
    BY <2>1, <2>2
<1>6. DOMAIN w = 0..N /\ \A k \in 0..N : w[k] = From(w, k)
  BY <1>5
<1> QED
  BY <1>0, <1>5, <1>6
-------------------------------------------------------------------------------
(* operator new finds a free cell.                                         *)
LEMMA NewIs ==
  /\ Room(1) => new \in Cells /\ heap[new] = Freed
  /\ Room(2) => /\ new \in Cells /\ heap[new] = Freed
                /\ \E n \in Cells \ {new} : heap[n] = Freed
<1> DEFINE F == {m \in Cells : heap[m] = Freed}
<1>1. F \in SUBSET Nat /\ F \in SUBSET Cells /\ IsFiniteSet(F) /\ Cardinality(F) \in Nat
  <2>1. IsFiniteSet(Cells) /\ Cells \in SUBSET Nat
    BY LinkedAssumption, FS_Interval DEF Cells
  <2> HIDE DEF F
  <2>2. F \in SUBSET Cells
    BY DEF F
  <2> QED
    BY <2>1, <2>2, FS_Subset, FS_CardinalityType
<1>2. ASSUME F # {} PROVE new \in Cells /\ heap[new] = Freed
  <2>1. \E n \in F : \A m \in F : n <= m
    BY <1>1, <1>2, Smallest
  <2>2. \E n \in Cells : heap[n] = Freed /\ \A m \in Cells : heap[m] = Freed => n <= m
    BY <2>1
  <2> QED
    BY <2>2 DEF new
<1>3. Room(1) => F # {}
  BY FS_EmptySet DEF Room
<1>4. ASSUME Room(2) PROVE F # {} /\ F \ {new} # {}
  <2>1. Cardinality(F) >= 2
    BY <1>4 DEF Room
  <2> HIDE DEF F
  <2>2. F # {}
    BY <2>1, FS_EmptySet
  <2>3. IsFiniteSet(F \ {new}) /\ Cardinality(F \ {new}) >= 1
    BY <1>1, <2>1, FS_RemoveElement
  <2> QED
    BY <2>2, <2>3, FS_EmptySet
<1> QED
  BY <1>2, <1>3, <1>4

(* A sequence with an element put in at a place, or taken out.             *)
Put(cs, a, v) == [k \in 1..Len(cs) + 1 |-> IF k < a THEN cs[k] ELSE IF k = a THEN v ELSE cs[k - 1]]
Out(cs, a)    == [k \in 1..Len(cs) - 1 |-> IF k < a THEN cs[k] ELSE cs[k + 1]]

LEMMA PutIs ==
  ASSUME NEW S, NEW cs \in Seq(S), NEW v \in S
  PROVE  /\ Append(cs, v) = Put(cs, Len(cs) + 1, v)
         /\ <<v>> \o cs = Put(cs, 1, v)
         /\ \A a \in 1..Len(cs) + 1 :
              /\ InsertAt(cs, a, v) = Put(cs, a, v)
              /\ Put(cs, a, v) \in Seq(S) /\ Len(Put(cs, a, v)) = Len(cs) + 1
<1>1. ASSUME NEW a \in 1..Len(cs) + 1
      PROVE  Put(cs, a, v) \in Seq(S) /\ Len(Put(cs, a, v)) = Len(cs) + 1
  <2>1. \A k \in 1..Len(cs) + 1 :
          (IF k < a THEN cs[k] ELSE IF k = a THEN v ELSE cs[k - 1]) \in S
    OBVIOUS
  <2> QED
    BY <2>1 DEF Put
<1>2. Append(cs, v) = Put(cs, Len(cs) + 1, v)
  <2>1. Append(cs, v) \in Seq(S) /\ Len(Append(cs, v)) = Len(cs) + 1
    OBVIOUS
  <2>2. \A k \in 1..Len(cs) + 1 : Append(cs, v)[k] = Put(cs, Len(cs) + 1, v)[k]
    BY DEF Put
  <2>3. Len(cs) + 1 \in 1..Len(cs) + 1
    OBVIOUS
  <2>4. Put(cs, Len(cs) + 1, v) \in Seq(S) /\ Len(Put(cs, Len(cs) + 1, v)) = Len(cs) + 1
    BY <1>1, <2>3
  <2> QED
    BY <2>1, <2>2, <2>4, SeqEqual
<1>3. <<v>> \o cs = Put(cs, 1, v)
  <2>1. <<v>> \o cs \in Seq(S) /\ Len(<<v>> \o cs) = Len(cs) + 1
    OBVIOUS
  <2>2. \A k \in 1..Len(cs) + 1 : (<<v>> \o cs)[k] = Put(cs, 1, v)[k]
    BY DEF Put
  <2>3. 1 \in 1..Len(cs) + 1
    OBVIOUS
  <2>4. Put(cs, 1, v) \in Seq(S) /\ Len(Put(cs, 1, v)) = Len(cs) + 1
    BY <1>1, <2>3
  <2> QED
    BY <2>1, <2>2, <2>4, SeqEqual
<1>4. ASSUME NEW a \in 1..Len(cs) + 1
      PROVE  InsertAt(cs, a, v) = Put(cs, a, v)
  <2> DEFINE x == SubSeq(cs, 1, a - 1)
             y == SubSeq(cs, a, Len(cs))
  <2>1. x \in Seq(S) /\ Len(x) = a - 1 /\ \A k \in 1..a - 1 : x[k] = cs[k]
    OBVIOUS
  <2>2. y \in Seq(S) /\ Len(y) = Len(cs) + 1 - a /\ \A k \in 1..Len(cs) + 1 - a : y[k] = cs[a - 1 + k]
    OBVIOUS
  <2>3. InsertAt(cs, a, v) = (x \o <<v>>) \o y
    BY DEF InsertAt
  <2> HIDE DEF x, y
  <2> DEFINE z == x \o <<v>>
  <2>4. z \in Seq(S) /\ Len(z) = a /\ z[a] = v /\ \A k \in 1..a - 1 : z[k] = cs[k]
    BY <2>1
  <2>5. InsertAt(cs, a, v) = z \o y
    BY <2>3
  <2> HIDE DEF z
  <2>6. z \o y \in Seq(S) /\ Len(z \o y) = Len(cs) + 1
    <3>1. Len(z \o y) = Len(z) + Len(y) /\ z \o y \in Seq(S)
      BY <2>2, <2>4, Places
    <3> QED
      BY <2>2, <2>4, <3>1
  <2>7. ASSUME NEW k \in 1..Len(cs) + 1 PROVE (z \o y)[k] = Put(cs, a, v)[k]
    <3>0. Put(cs, a, v)[k] = IF k < a THEN cs[k] ELSE IF k = a THEN v ELSE cs[k - 1]
      BY DEF Put
    <3>a. k <= a \/ k > a
      OBVIOUS
    <3>1. CASE k <= a
      <4>1. (z \o y)[k] = z[k]
        BY <2>2, <2>4, <3>1, Places
      <4> QED
        BY <2>4, <3>0, <3>1, <4>1
    <3>2. CASE k > a
      <4>1. (z \o y)[a + (k - a)] = y[k - a] /\ k - a \in 1..Len(cs) + 1 - a
        BY <2>2, <2>4, <3>2, Places
      <4>2. (z \o y)[k] = y[k - a]
        <5>1. a + (k - a) = k
          OBVIOUS
        <5> QED
          BY <4>1, <5>1
      <4>3. y[k - a] = cs[k - 1]
        BY <2>2, <4>1
      <4>4. ~(k < a) /\ k # a
        BY <3>2
      <4> QED
        BY ONLY <3>0, <4>2, <4>3, <4>4
    <3> QED
      BY <3>a, <3>1, <3>2
  <2> QED
    BY <1>1, <2>5, <2>6, <2>7, SeqEqual
<1> QED
  BY <1>1, <1>2, <1>3, <1>4

LEMMA OutIs ==
  ASSUME NEW S, NEW cs \in Seq(S), NEW a \in 1..Len(cs)
  PROVE  /\ RemoveAt(cs, a) = Out(cs, a)
         /\ Out(cs, a) \in Seq(S) /\ Len(Out(cs, a)) = Len(cs) - 1
<1> DEFINE x == SubSeq(cs, 1, a - 1)
           y == SubSeq(cs, a + 1, Len(cs))
<1>1. x \in Seq(S) /\ Len(x) = a - 1 /\ \A k \in 1..a - 1 : x[k] = cs[k]
  OBVIOUS
<1>2. y \in Seq(S) /\ Len(y) = Len(cs) - a /\ \A k \in 1..Len(cs) - a : y[k] = cs[a + k]
  OBVIOUS
<1>3. RemoveAt(cs, a) = x \o y
  BY DEF RemoveAt
<1>4. Out(cs, a) \in Seq(S) /\ Len(Out(cs, a)) = Len(cs) - 1
  <2>1. \A k \in 1..Len(cs) - 1 : (IF k < a THEN cs[k] ELSE cs[k + 1]) \in S
    OBVIOUS
  <2> QED
    BY <2>1 DEF Out
<1> HIDE DEF x, y
<1>5. x \o y \in Seq(S) /\ Len(x \o y) = Len(cs) - 1
  <2>1. Len(x \o y) = Len(x) + Len(y) /\ x \o y \in Seq(S)
    BY <1>1, <1>2, Places
  <2> QED
    BY <1>1, <1>2, <2>1
<1>6. ASSUME NEW k \in 1..Len(cs) - 1 PROVE (x \o y)[k] = Out(cs, a)[k]
  <2>0. Out(cs, a)[k] = IF k < a THEN cs[k] ELSE cs[k + 1]
    BY DEF Out
  <2>a. k < a \/ k >= a
    OBVIOUS
  <2>1. CASE k < a
    <3>1. (x \o y)[k] = x[k]
      BY <1>1, <1>2, <2>1, Places
    <3> QED
      BY <1>1, <2>0, <2>1, <3>1
  <2>2. CASE k >= a
    <3>1. k - (a - 1) \in 1..Len(cs) - a /\ (a - 1) + (k - (a - 1)) = k /\ a + (k - (a - 1)) = k + 1
      BY <2>2
    <3>2. (x \o y)[(a - 1) + (k - (a - 1))] = y[k - (a - 1)]
      BY <1>1, <1>2, <3>1, Places
    <3>3. y[k - (a - 1)] = cs[k + 1]
      BY <1>2, <3>1
    <3>4. (x \o y)[k] = y[k - (a - 1)]
      BY <3>1, <3>2
    <3>5. ~(k < a)
      BY <2>2
    <3> QED
      BY ONLY <2>0, <3>3, <3>4, <3>5
  <2> QED
    BY <2>a, <2>1, <2>2
<1> QED
  BY <1>3, <1>4, <1>5, <1>6, SeqEqual
-------------------------------------------------------------------------------
(* Writing one field of a node, or a whole node.                           *)
SetsNext(g, h, c, x) == g = [h EXCEPT ![c].next = x]
SetsPrev(g, h, c, x) == g = [h EXCEPT ![c].prev = x]
SetsNode(g, h, c, x) == g = [h EXCEPT ![c] = x]

LEMMA NextWritten ==
  ASSUME NEW h \in Heaps, NEW c \in {Local} \cup Cells, NEW x \in Cells \cup {NULL}, NEW g,
         SetsNext(g, h, c, x)
  PROVE  /\ g \in Heaps /\ g[c].next = x
         /\ g[c].value = h[c].value /\ g[c].prev = h[c].prev
         /\ \A d \in {Local} \cup Cells : d # c => g[d] = h[d]
BY DEF Heaps, ListNode, SetsNext

LEMMA PrevWritten ==
  ASSUME NEW h \in Heaps, NEW c \in {Local} \cup Cells, NEW x \in Cells \cup {NULL, Local}, NEW g,
         SetsPrev(g, h, c, x)
  PROVE  /\ g \in Heaps /\ g[c].prev = x
         /\ g[c].value = h[c].value /\ g[c].next = h[c].next
         /\ \A d \in {Local} \cup Cells : d # c => g[d] = h[d]
BY DEF Heaps, ListNode, SetsPrev

LEMMA NodeWritten ==
  ASSUME NEW h \in Heaps, NEW c \in {Local} \cup Cells, NEW x \in ListNode, NEW g,
         SetsNode(g, h, c, x)
  PROVE  /\ g \in Heaps /\ g[c] = x
         /\ \A d \in {Local} \cup Cells : d # c => g[d] = h[d]
BY DEF Heaps, ListNode, SetsNode

LEMMA NodeTypes ==
  /\ Freed \in ListNode /\ Dummy \in ListNode
  /\ \A v \in Keys, x, y \in Cells : [value |-> v, next |-> x, prev |-> y] \in ListNode
  /\ NULL \notin Cells /\ Local \notin Cells
  /\ \A h \in Heaps, c \in {Local} \cup Cells :
       h[c] \in ListNode /\ h[c].value \in Int /\ h[c].next \in Cells \cup {NULL}
BY LinkedAssumption DEF Freed, Dummy, ListNode, NULL, Cells, Local, Heaps

(* What is known of the ring of a list that has its dummy.                 *)
LEMMA RingIs ==
  ASSUME LinkedInv, tail # NULL
  PROVE  \E f : /\ Ring(f, heap, tail, contents) /\ Pointed(f, Len(contents))
                /\ Len(contents) \in Nat /\ begin = f[After(0, Len(contents))] /\ end = f[0]
<1>1. PICK f : Ring(f, heap, tail, contents) /\ Pointed(f, Len(contents))
  BY DEF LinkedInv
<1>2. Len(contents) \in Nat
  BY DEF LinkedInv
<1>3. f[0] = tail /\ heap[f[0]].next = f[After(0, Len(contents))]
  BY <1>1, <1>2 DEF Ring
<1> QED
  BY <1>1, <1>2, <1>3 DEF begin, end

(* insert() of a node before another makes a ring with one node more.      *)
LEMMA InsertRing ==
  ASSUME heap \in Heaps, NEW cs \in Seq(Keys), NEW v \in Keys, tail \in Cells,
         NEW f, Ring(f, heap, tail, cs), NEW a \in 1..Len(cs) + 1,
         Insert(f[IF a = Len(cs) + 1 THEN 0 ELSE a], v)
  PROVE  /\ heap' \in Heaps /\ tail' = tail
         /\ \E g : /\ Ring(g, heap', tail, Put(cs, a, v)) /\ g[a] = new
                   /\ \A k \in 0..Len(cs) : g[IF k < a THEN k ELSE k + 1] = f[k]
<1> DEFINE n == Len(cs)
           b == IF a = n + 1 THEN 0 ELSE a
           node == f[b]
           p == heap[node].prev
           x == new
           g == [k \in 0..n + 1 |-> IF k < a THEN f[k] ELSE IF k = a THEN x ELSE f[k - 1]]
           ds == Put(cs, a, v)
<1>0. n \in Nat /\ b \in 0..n /\ a - 1 \in 0..n /\ After(a - 1, n) = b
  BY DEF After
<1>1. /\ f \in [0..n -> Cells] /\ f[0] = tail
      /\ \A j, k \in 0..n : f[j] = f[k] => j = k
      /\ \A k \in 1..n : heap[f[k]].value = cs[k]
      /\ \A k \in 0..n : heap[f[k]].next = f[After(k, n)] /\ heap[f[After(k, n)]].prev = f[k]
      /\ \A c \in Cells : heap[c] = Freed <=> \A k \in 0..n : c # f[k]
  BY DEF Ring
<1>2. p = f[a - 1] /\ p \in Cells /\ node \in Cells
  BY <1>0, <1>1
<1>3. x \in Cells /\ heap[x] = Freed /\ \A k \in 0..n : x # f[k]
  <2>1. Room(1)
    BY NodeTypes DEF Insert
  <2> QED
    BY <1>1, <2>1, NewIs
<1> DEFINE made == [value |-> v, next |-> node, prev |-> p]
           h1 == [heap EXCEPT ![x] = made]
           h2 == [h1 EXCEPT ![p].next = x]
<1>4. heap' = [h2 EXCEPT ![node].prev = x] /\ tail' = tail
  BY NodeTypes DEF Insert
<1>5. made \in ListNode
  BY <1>2, NodeTypes
<1> HIDE DEF x, node, p, made
<1>6. h1 \in Heaps /\ h1[x] = made /\ \A c \in Cells : c # x => h1[c] = heap[c]
  <2> HIDE DEF h1
  <2>1. SetsNode(h1, heap, x, made)
    BY DEF h1, SetsNode
  <2> QED
    BY <1>3, <1>5, <2>1, NodeWritten
<1> HIDE DEF h1
<1>8. /\ h2 \in Heaps /\ h2[p].next = x /\ h2[p].value = h1[p].value /\ h2[p].prev = h1[p].prev
      /\ \A c \in Cells : c # p => h2[c] = h1[c]
  <2> HIDE DEF h2
  <2>1. SetsNext(h2, h1, p, x)
    BY DEF h2, SetsNext
  <2> QED
    BY <1>2, <1>3, <1>6, <2>1, NextWritten
<1> HIDE DEF h2
<1>9. /\ heap' \in Heaps /\ heap'[node].prev = x
      /\ heap'[node].value = h2[node].value /\ heap'[node].next = h2[node].next
      /\ \A c \in Cells : c # node => heap'[c] = h2[c]
  <2>1. SetsPrev(heap', h2, node, x)
    BY <1>4 DEF SetsPrev
  <2> QED
    BY <1>2, <1>3, <1>8, <2>1, PrevWritten
<1>7. \A c \in Cells :
        /\ heap'[c].value = IF c = x THEN v ELSE heap[c].value
        /\ heap'[c].next = IF c = p THEN x ELSE IF c = x THEN node ELSE heap[c].next
        /\ heap'[c].prev = IF c = node THEN x ELSE IF c = x THEN p ELSE heap[c].prev
        /\ c \notin {x, p, node} => heap'[c] = heap[c]
  BY <1>2, <1>3, <1>6, <1>8, <1>9 DEF made
<1>10. \A k \in 0..n + 1 : g[k] = IF k < a THEN f[k] ELSE IF k = a THEN x ELSE f[k - 1]
  OBVIOUS
<1>11. g \in [0..n + 1 -> Cells]
  <2>1. ASSUME NEW k \in 0..n + 1
        PROVE  (IF k < a THEN f[k] ELSE IF k = a THEN x ELSE f[k - 1]) \in Cells
    <3>1. CASE k < a
      <4>1. k \in 0..n
        BY <1>0, <3>1
      <4> QED
        BY <1>1, <3>1, <4>1
    <3>2. CASE k = a
      BY <1>3, <3>2
    <3>3. CASE k > a
      <4>1. k - 1 \in 0..n
        BY <1>0, <3>3
      <4> QED
        BY <1>1, <3>3, <4>1
    <3> QED
      BY <1>0, <3>1, <3>2, <3>3
  <2> QED
    BY <2>1
<1> HIDE DEF g
<1>12. /\ \A k \in 0..n + 1 : (k < a => g[k] = f[k] /\ k \in 0..n) /\ (k > a => g[k] = f[k - 1] /\ k - 1 \in 0..n)
       /\ g[a] = x /\ g[a - 1] = p /\ g[0] = tail /\ g[After(a, n + 1)] = node
  <2>1. \A k \in 0..n + 1 : (k < a => g[k] = f[k] /\ k \in 0..n) /\ (k > a => g[k] = f[k - 1] /\ k - 1 \in 0..n)
    BY <1>0, <1>10
  <2>2. g[a] = x /\ g[a - 1] = f[a - 1] /\ g[0] = f[0]
    BY <1>0, <1>10
  <2>3. CASE a = n + 1
    BY <1>0, <1>1, <1>2, <2>1, <2>2, <2>3 DEF After, node
  <2>4. CASE a # n + 1
    <3>1. After(a, n + 1) = a + 1 /\ a + 1 \in 0..n + 1 /\ a + 1 > a /\ (a + 1) - 1 = a /\ b = a
      BY <1>0, <2>4 DEF After
    <3>2. g[a + 1] = f[a]
      BY <1>10, <3>1
    <3> QED
      BY <1>1, <1>2, <2>1, <2>2, <3>1, <3>2 DEF node
  <2> QED
    BY <2>3, <2>4
<1>13. ASSUME NEW j \in 0..n + 1, NEW k \in 0..n + 1, g[j] = g[k] PROVE j = k
  <2>1. CASE j = a \/ k = a
    BY <1>0, <1>3, <1>12, <1>13, <2>1
  <2>2. CASE j # a /\ k # a
    <3> DEFINE u == IF j < a THEN j ELSE j - 1
               w == IF k < a THEN k ELSE k - 1
    <3>1. u \in 0..n /\ w \in 0..n /\ f[u] = f[w]
      BY <1>0, <1>12, <1>13, <2>2
    <3>2. u = w
      BY <1>1, <3>1
    <3> QED
      BY <1>0, <2>2, <3>2
  <2> QED
    BY <2>1, <2>2
<1>14. ASSUME NEW k \in 1..n + 1 PROVE heap'[g[k]].value = ds[k]
  <2>1. ds[k] = IF k < a THEN cs[k] ELSE IF k = a THEN v ELSE cs[k - 1]
    BY DEF Put
  <2>2. CASE k = a
    BY <1>3, <1>7, <1>12, <2>1, <2>2
  <2>3. CASE k < a
    <3>1. g[k] = f[k] /\ k \in 1..n
      BY <1>0, <1>12, <2>3
    <3> QED
      BY <1>1, <1>3, <1>7, <2>1, <2>3, <3>1
  <2>4. CASE k > a
    <3>1. g[k] = f[k - 1] /\ k - 1 \in 1..n
      BY <1>0, <1>12, <2>4
    <3>2. heap'[f[k - 1]].value = cs[k - 1]
      BY <1>1, <1>3, <1>7, <3>1
    <3> QED
      BY <2>1, <2>4, <3>1, <3>2
  <2> QED
    BY <2>2, <2>3, <2>4
<1>15. ASSUME NEW k \in 0..n + 1
       PROVE  heap'[g[k]].next = g[After(k, n + 1)] /\ heap'[g[After(k, n + 1)]].prev = g[k]
  <2>1. CASE k = a - 1
    <3>1. After(k, n + 1) = a
      BY <1>0, <2>1 DEF After
    <3>2. x # node
      BY <1>0, <1>3 DEF node
    <3> QED
      BY <1>2, <1>3, <1>7, <1>12, <2>1, <3>1, <3>2
  <2>2. CASE k = a
    <3>1. x # p
      BY <1>0, <1>2, <1>3
    <3> QED
      BY <1>2, <1>3, <1>7, <1>12, <2>2, <3>1
  <2>3. ASSUME NEW u \in 0..n, g[k] = f[u], g[After(k, n + 1)] = f[After(u, n)], u # a - 1
        PROVE  heap'[g[k]].next = g[After(k, n + 1)] /\ heap'[g[After(k, n + 1)]].prev = g[k]
    <3>1. After(u, n) \in 0..n /\ After(u, n) # b
      BY <1>0, <2>3 DEF After
    <3>2. f[u] # p /\ f[u] # x /\ f[u] \in Cells
      BY <1>0, <1>1, <1>2, <1>3, <2>3
    <3>3. f[After(u, n)] # node /\ f[After(u, n)] # x /\ f[After(u, n)] \in Cells
      BY <1>0, <1>1, <1>3, <3>1 DEF node
    <3>4. heap'[f[u]].next = f[After(u, n)] /\ heap'[f[After(u, n)]].prev = f[u]
      BY <1>1, <1>7, <3>2, <3>3
    <3> QED
      BY <2>3, <3>4
  <2>4. CASE k < a - 1
    <3>1. k \in 0..n /\ After(k, n) = k + 1 /\ After(k, n + 1) = k + 1
      BY <1>0, <2>4 DEF After
    <3>2. g[k] = f[k] /\ g[k + 1] = f[k + 1]
      BY <1>0, <1>12, <2>4
    <3> QED
      BY <2>3, <2>4, <3>1, <3>2
  <2>5. CASE k > a
    <3>1. k - 1 \in 0..n /\ g[k] = f[k - 1] /\ k - 1 # a - 1
      BY <1>0, <1>12, <2>5
    <3>2. g[After(k, n + 1)] = f[After(k - 1, n)]
      <4>1. CASE k = n + 1
        BY <1>0, <1>1, <1>12, <4>1 DEF After
      <4>2. CASE k # n + 1
        <5>1. After(k, n + 1) = k + 1 /\ After(k - 1, n) = k /\ k + 1 \in 0..n + 1 /\ k + 1 > a
          BY <1>0, <2>5, <4>2 DEF After
        <5>2. g[k + 1] = f[(k + 1) - 1] /\ (k + 1) - 1 = k
          BY <1>12, <5>1
        <5> QED
          BY <5>1, <5>2
      <4> QED
        BY <4>1, <4>2
    <3> QED
      BY <2>3, <3>1, <3>2
  <2> QED
    BY <1>0, <2>1, <2>2, <2>4, <2>5
<1>16. ASSUME NEW c \in Cells PROVE heap'[c] = Freed <=> \A k \in 0..n + 1 : c # g[k]
  <2>1. CASE \E k \in 0..n + 1 : c = g[k]
    <3>1. PICK k \in 0..n + 1 : c = g[k]
      BY <2>1
    <3>2. heap'[c].next \in Cells
      <4>1. After(k, n + 1) \in 0..n + 1
        BY <1>0 DEF After
      <4> QED
        BY <1>11, <1>15, <3>1, <4>1
    <3>3. Freed.next = NULL /\ NULL \notin Cells
      BY NodeTypes DEF Freed
    <3>4. heap'[c] # Freed
      BY <3>2, <3>3
    <3> QED
      BY <3>1, <3>4
  <2>2. CASE \A k \in 0..n + 1 : c # g[k]
    <3>1. c # x /\ \A k \in 0..n : c # f[k]
      <4>1. c # x
        BY <1>0, <1>12, <2>2
      <4>2. ASSUME NEW k \in 0..n PROVE c # f[k]
        <5>1. CASE k < a
          BY <1>0, <1>12, <2>2, <5>1
        <5>2. CASE k >= a
          <6>1. k + 1 \in 0..n + 1 /\ k + 1 > a /\ (k + 1) - 1 = k
            BY <1>0, <5>2
          <6>2. g[k + 1] = f[k]
            BY <1>12, <6>1
          <6> QED
            BY <2>2, <6>1, <6>2
        <5> QED
          BY <1>0, <5>1, <5>2
      <4> QED
        BY <4>1, <4>2
    <3>2. c # p /\ c # node
      BY <1>0, <1>2, <3>1 DEF node
    <3> QED
      BY <1>1, <1>7, <2>2, <3>1, <3>2
  <2> QED
    BY <2>1, <2>2
<1>17. Len(ds) = n + 1
  BY PutIs
<1> HIDE DEF ds, n
<1>18. Ring(g, heap', tail, ds)
  BY <1>11, <1>12, <1>13, <1>14, <1>15, <1>16, <1>17 DEF Ring
<1>19. \A k \in 0..n : g[IF k < a THEN k ELSE k + 1] = f[k]
  <2> TAKE k \in 0..n
  <2>1. CASE k < a
    BY <1>0, <1>12, <2>1
  <2>2. CASE ~(k < a)
    <3>1. k + 1 \in 0..n + 1 /\ k + 1 > a /\ (k + 1) - 1 = k
      BY <1>0, <2>2
    <3> QED
      BY <1>12, <2>2, <3>1
  <2> QED
    BY <2>1, <2>2
<1> QED
  BY <1>4, <1>9, <1>12, <1>18, <1>19 DEF x, n, ds

(* insert() into a list without dummy makes the ring.                      *)
LEMMA FirstRing ==
  ASSUME heap \in Heaps, \A n \in Cells : heap[n] = Freed, tail = NULL, NEW v \in Keys, NEW node,
         Insert(node, v)
  PROVE  /\ heap' \in Heaps /\ tail' \in Cells
         /\ \E g : Ring(g, heap', tail', Put(<<>>, 1, v)) /\ g[1] = new /\ g[0] = tail'
<1> DEFINE x == new
           d == CHOOSE n \in Cells \ {x} : heap[n] = Freed
           first == [value |-> 0, next |-> x, prev |-> x]
           second == [value |-> v, next |-> d, prev |-> d]
           h1 == [heap EXCEPT ![d] = first]
           g == [k \in 0..1 |-> IF k = 0 THEN d ELSE x]
<1>1. Room(2)
  BY DEF Insert
<1>2. x \in Cells /\ d \in Cells /\ d # x
  BY <1>1, NewIs
<1>3. heap' = [h1 EXCEPT ![x] = second] /\ tail' = d
  BY DEF Insert
<1> HIDE DEF x, d
<1>4. /\ first \in ListNode /\ first.next = x /\ first.prev = x
      /\ second \in ListNode /\ second.value = v /\ second.next = d /\ second.prev = d
  <2>2. first \in ListNode /\ first.next = x /\ first.prev = x
    BY <1>2 DEF ListNode
  <2>3. second \in ListNode /\ second.value = v /\ second.next = d /\ second.prev = d
    BY <1>2, NodeTypes
  <2> QED
    BY <2>2, <2>3
<1> HIDE DEF first, second
<1>5. h1 \in Heaps /\ h1[d] = first /\ \A c \in Cells : c # d => h1[c] = heap[c]
  <2> HIDE DEF h1
  <2>1. SetsNode(h1, heap, d, first)
    BY DEF h1, SetsNode
  <2> QED
    BY <1>2, <1>4, <2>1, NodeWritten
<1> HIDE DEF h1
<1>6. heap' \in Heaps /\ heap'[x] = second /\ \A c \in Cells : c # x => heap'[c] = h1[c]
  <2>1. SetsNode(heap', h1, x, second)
    BY <1>3 DEF SetsNode
  <2> QED
    BY <1>2, <1>4, <1>5, <2>1, NodeWritten
<1>7. Put(<<>>, 1, v) = <<v>> /\ Len(<<v>>) = 1 /\ <<v>>[1] = v
  <2>1. <<>> \in Seq(Keys) /\ <<v>> \in Seq(Keys) /\ Len(<<v>>) = 1 /\ <<v>>[1] = v
    OBVIOUS
  <2>2. Len(<<>>) = 0
    OBVIOUS
  <2>3. Put(<<>>, 1, v) \in Seq(Keys) /\ Len(Put(<<>>, 1, v)) = 1
    <3>1. 1 \in 1..Len(<<>>) + 1 /\ Len(<<>>) + 1 = 1
      BY <2>2
    <3> QED
      BY <2>1, <3>1, PutIs
  <2>4. Put(<<>>, 1, v)[1] = v
    <3>1. 1 \in 1..Len(<<>>) + 1
      BY <2>2
    <3> QED
      BY <3>1 DEF Put
  <2>5. \A k \in 1..1 : k = 1
    OBVIOUS
  <2>6. Put(<<>>, 1, v) = <<v>>
    BY <2>1, <2>3, <2>4, <2>5, SeqEqual
  <2> QED
    BY <2>1, <2>6
<1>8. g \in [0..1 -> Cells] /\ g[0] = d /\ g[1] = x
  BY <1>2
<1> HIDE DEF g
<1>9. \A k \in 0..1 : k = 0 \/ k = 1
  OBVIOUS
<1>10. After(0, 1) = 1 /\ After(1, 1) = 0
  BY DEF After
<1>11. \A k \in 0..1 : heap'[g[k]].next = g[After(k, 1)] /\ heap'[g[After(k, 1)]].prev = g[k]
  <2>1. heap'[d] = first
    BY <1>2, <1>5, <1>6
  <2> QED
    BY <1>4, <1>6, <1>8, <1>9, <1>10, <2>1
<1>12. \A c \in Cells : heap'[c] = Freed <=> \A k \in 0..1 : c # g[k]
  <2> TAKE c \in Cells
  <2>1. CASE c = d \/ c = x
    <3>1. heap'[c] # Freed
      <4>1. heap'[c].next \in Cells
        BY <1>2, <1>4, <1>5, <1>6, <2>1
      <4> QED
        BY <4>1, NodeTypes DEF Freed
    <3> QED
      BY <1>8, <2>1, <3>1
  <2>2. CASE c # d /\ c # x
    BY <1>5, <1>6, <1>8, <1>9, <2>2
  <2> QED
    BY <2>1, <2>2
<1>13. Ring(g, heap', d, <<v>>)
  <2>1. \A k \in 1..1 : heap'[g[k]].value = <<v>>[k]
    BY <1>4, <1>6, <1>7, <1>8
  <2>2. \A j, k \in 0..1 : g[j] = g[k] => j = k
    BY <1>2, <1>8, <1>9
  <2> QED
    BY <1>7, <1>8, <1>11, <1>12, <2>1, <2>2 DEF Ring
<1> QED
  BY <1>2, <1>3, <1>6, <1>7, <1>8, <1>13 DEF x

(* erase() of the node at a place makes a ring with that node less.        *)
LEMMA EraseRing ==
  ASSUME heap \in Heaps, NEW cs \in Seq(Keys),
         NEW f, Ring(f, heap, tail, cs), NEW a \in 1..Len(cs), it = f[a],
         heap' = [[heap EXCEPT ![heap[it].prev].next = heap[it].next]
                    EXCEPT ![heap[it].next].prev = heap[it].prev, ![it] = Freed]
  PROVE  /\ heap' \in Heaps
         /\ \E g : /\ Ring(g, heap', tail, Out(cs, a))
                   /\ heap[it].next = g[IF a = Len(cs) THEN 0 ELSE a]
<1> DEFINE n == Len(cs)
           x == it
           y == heap[it].next
           p == heap[it].prev
           g == [k \in 0..n - 1 |-> IF k < a THEN f[k] ELSE f[k + 1]]
           ds == Out(cs, a)
           From(k) == IF k < a THEN k ELSE k + 1
<1>0. n \in Nat /\ n - 1 \in Nat /\ a - 1 \in 0..n /\ After(a - 1, n) = a /\ After(a, n) \in 0..n /\ a # After(a, n)
  BY DEF After
<1>1. /\ f \in [0..n -> Cells] /\ f[0] = tail
      /\ \A j, k \in 0..n : f[j] = f[k] => j = k
      /\ \A k \in 1..n : heap[f[k]].value = cs[k]
      /\ \A k \in 0..n : heap[f[k]].next = f[After(k, n)] /\ heap[f[After(k, n)]].prev = f[k]
      /\ \A c \in Cells : heap[c] = Freed <=> \A k \in 0..n : c # f[k]
  BY DEF Ring
<1>2. /\ x = f[a] /\ y = f[After(a, n)] /\ p = f[a - 1]
      /\ x \in Cells /\ y \in Cells /\ p \in Cells /\ x # y /\ x # p
  <2>1. a \in 0..n
    OBVIOUS
  <2>2. x = f[a] /\ y = f[After(a, n)]
    BY <1>1, <2>1
  <2>3. p = f[a - 1]
    BY <1>0, <1>1, <2>1
  <2> HIDE DEF x, y, p
  <2> QED
    BY <1>0, <1>1, <2>1, <2>2, <2>3
<1> DEFINE h1 == [heap EXCEPT ![p].next = y]
           h2 == [h1 EXCEPT ![y].prev = p]
<1>3. heap' = [h2 EXCEPT ![x] = Freed]
  OBVIOUS
<1> HIDE DEF x, y, p
<1>4. /\ h1 \in Heaps /\ h1[p].next = y /\ h1[p].value = heap[p].value /\ h1[p].prev = heap[p].prev
      /\ \A c \in Cells : c # p => h1[c] = heap[c]
  <2> HIDE DEF h1
  <2>1. SetsNext(h1, heap, p, y)
    BY DEF h1, SetsNext
  <2> QED
    BY <1>2, <2>1, NextWritten
<1> HIDE DEF h1
<1>5. /\ h2 \in Heaps /\ h2[y].prev = p /\ h2[y].value = h1[y].value /\ h2[y].next = h1[y].next
      /\ \A c \in Cells : c # y => h2[c] = h1[c]
  <2> HIDE DEF h2
  <2>1. SetsPrev(h2, h1, y, p)
    BY DEF h2, SetsPrev
  <2> QED
    BY <1>2, <1>4, <2>1, PrevWritten
<1> HIDE DEF h2
<1>6. heap' \in Heaps /\ heap'[x] = Freed /\ \A c \in Cells : c # x => heap'[c] = h2[c]
  <2>1. SetsNode(heap', h2, x, Freed)
    BY <1>3 DEF SetsNode
  <2> DEFINE e == Freed
  <2>2. e \in ListNode /\ x \in {Local} \cup Cells /\ SetsNode(heap', h2, x, e)
    BY <1>2, <2>1, NodeTypes
  <2> HIDE DEF e
  <2>3. heap' \in Heaps /\ heap'[x] = e /\ \A c \in {Local} \cup Cells : c # x => heap'[c] = h2[c]
    BY ONLY <1>5, <2>2, NodeWritten
  <2> QED
    BY <2>3 DEF e
<1>7. \A c \in Cells : c # x =>
        /\ heap'[c].value = heap[c].value
        /\ heap'[c].next = IF c = p THEN y ELSE heap[c].next
        /\ heap'[c].prev = IF c = y THEN p ELSE heap[c].prev
        /\ c \notin {y, p} => heap'[c] = heap[c]
  <2> TAKE c \in Cells
  <2> HAVE c # x
  <2>1. heap'[c] = h2[c]
    BY <1>6
  <2>2. h2[c].value = h1[c].value /\ h2[c].next = h1[c].next /\ h2[c].prev = IF c = y THEN p ELSE h1[c].prev
    BY <1>5
  <2>3. h1[c].value = heap[c].value /\ h1[c].prev = heap[c].prev /\ h1[c].next = IF c = p THEN y ELSE heap[c].next
    BY <1>4
  <2>4. c \notin {y, p} => h2[c] = h1[c] /\ h1[c] = heap[c]
    BY <1>4, <1>5
  <2> QED
    BY ONLY <2>1, <2>2, <2>3, <2>4
<1>8. \A k \in 0..n - 1 : From(k) \in 0..n /\ From(k) # a /\ (k # 0 => From(k) \in 1..n)
  BY <1>0
<1>9. \A k \in 0..n - 1 : g[k] = f[From(k)]
  OBVIOUS
<1>10. g \in [0..n - 1 -> Cells] /\ g[0] = tail
  <2>1. \A k \in 0..n - 1 : (IF k < a THEN f[k] ELSE f[k + 1]) \in Cells
    BY <1>0, <1>1
  <2>2. 0 \in 0..n - 1 /\ From(0) = 0
    BY <1>0
  <2>3. g[0] = tail
    BY <1>1, <1>9, <2>2
  <2> QED
    BY <2>1, <2>3
<1> HIDE DEF g
<1>11. \A j, k \in 0..n - 1 : g[j] = g[k] => j = k
  <2> SUFFICES ASSUME NEW j \in 0..n - 1, NEW k \in 0..n - 1, g[j] = g[k] PROVE j = k
    OBVIOUS
  <2>1. From(j) = From(k)
    BY <1>1, <1>8, <1>9
  <2> QED
    BY <1>0, <2>1
<1>12. \A k \in 0..n - 1 : g[k] # x /\ g[k] \in Cells
  BY <1>0, <1>1, <1>2, <1>8, <1>9
<1>13. ASSUME NEW k \in 1..n - 1 PROVE heap'[g[k]].value = ds[k]
  <2>1. ds[k] = cs[From(k)]
    BY DEF Out
  <2>2. k \in 0..n - 1 /\ From(k) \in 1..n
    BY <1>0, <1>8
  <2>3. heap'[g[k]].value = heap[g[k]].value
    BY <1>7, <1>12, <2>2
  <2>4. g[k] = f[From(k)] /\ heap[f[From(k)]].value = cs[From(k)]
    BY <1>1, <1>9, <2>2
  <2> QED
    BY ONLY <2>1, <2>3, <2>4
<1>14. \A k \in 0..n - 1 : (From(k) = a - 1 <=> k = a - 1) /\ From(After(k, n - 1)) = IF k = a - 1 THEN After(a, n) ELSE After(From(k), n)
  <2> TAKE k \in 0..n - 1
  <2>1. From(k) = a - 1 <=> k = a - 1
    BY <1>0
  <2>2. CASE k = n - 1
    BY <1>0, <2>2 DEF After
  <2>3. CASE k # n - 1
    <3>1. After(k, n - 1) = k + 1
      BY <2>3 DEF After
    <3>2. CASE k = a - 1
      BY <1>0, <2>3, <3>1, <3>2 DEF After
    <3>3. CASE k < a - 1
      BY <1>0, <2>3, <3>1, <3>3 DEF After
    <3>4. CASE k >= a
      <4>0. k \in Nat /\ a \in Nat /\ ~(k < a) /\ ~(k + 1 < a) /\ (k + 1) + 1 = k + 2
        BY <1>0, <3>4
      <4>1. From(k) = k + 1 /\ From(k + 1) = k + 2 /\ k + 1 # n
        BY <1>0, <2>3, <4>0
      <4>2. After(k + 1, n) = k + 2
        BY <4>1 DEF After
      <4> QED
        BY <1>0, <3>1, <3>4, <4>1, <4>2
    <3> QED
      BY <1>0, <3>2, <3>3, <3>4
  <2> QED
    BY <2>1, <2>2, <2>3
<1>15. ASSUME NEW k \in 0..n - 1
       PROVE  heap'[g[k]].next = g[After(k, n - 1)] /\ heap'[g[After(k, n - 1)]].prev = g[k]
  <2>1. After(k, n - 1) \in 0..n - 1
    BY <1>0 DEF After
  <2>2. g[After(k, n - 1)] = f[IF k = a - 1 THEN After(a, n) ELSE After(From(k), n)]
    BY <1>9, <1>14, <2>1
  <2>3. CASE k = a - 1
    <3>1. g[k] = p /\ g[After(k, n - 1)] = y
      BY <1>2, <1>9, <1>14, <2>2, <2>3
    <3> QED
      BY <1>2, <1>7, <3>1
  <2>4. CASE k # a - 1
    <3> DEFINE u == From(k)
    <3>1. u \in 0..n /\ u # a /\ u # a - 1 /\ g[k] = f[u] /\ g[After(k, n - 1)] = f[After(u, n)]
      BY <1>8, <1>9, <1>14, <2>2, <2>4
    <3> HIDE DEF u
    <3>2. After(u, n) \in 0..n /\ After(u, n) # a /\ After(u, n) # After(a, n)
      BY <1>0, <3>1 DEF After
    <3>3. f[u] # p /\ f[u] # x /\ f[u] \in Cells
      BY <1>0, <1>1, <1>2, <3>1
    <3>4. f[After(u, n)] # y /\ f[After(u, n)] # x /\ f[After(u, n)] \in Cells
      BY <1>0, <1>1, <1>2, <3>2
    <3>5. heap[f[u]].next = f[After(u, n)] /\ heap[f[After(u, n)]].prev = f[u]
      BY <1>1, <3>1
    <3> QED
      BY <1>7, <3>1, <3>3, <3>4, <3>5
  <2> QED
    BY <2>3, <2>4
<1>16. ASSUME NEW c \in Cells PROVE heap'[c] = Freed <=> \A k \in 0..n - 1 : c # g[k]
  <2>1. CASE \E k \in 0..n - 1 : c = g[k]
    <3>1. PICK k \in 0..n - 1 : c = g[k]
      BY <2>1
    <3>2. heap'[c].next \in Cells
      <4>1. After(k, n - 1) \in 0..n - 1
        BY <1>0 DEF After
      <4> QED
        BY <1>12, <1>15, <3>1, <4>1
    <3>3. Freed.next = NULL /\ NULL \notin Cells
      BY NodeTypes DEF Freed
    <3>4. heap'[c] # Freed
      BY <3>2, <3>3
    <3> QED
      BY <3>1, <3>4
  <2>2. CASE \A k \in 0..n - 1 : c # g[k]
    <3>1. CASE c = x
      BY <1>6, <2>2, <3>1
    <3>2. CASE c # x
      <4>1. ASSUME NEW u \in 0..n PROVE c # f[u]
        <5>1. CASE u = a
          BY <1>2, <3>2, <5>1
        <5>2. CASE u < a
          <6>1. u \in 0..n - 1 /\ From(u) = u
            BY <1>0, <5>2
          <6> QED
            BY <1>9, <2>2, <6>1
        <5>3. CASE u > a
          <6>1. u - 1 \in 0..n - 1 /\ From(u - 1) = u
            BY <1>0, <5>3
          <6> QED
            BY <1>9, <2>2, <6>1
        <5> QED
          BY <5>1, <5>2, <5>3
      <4>2. c # p /\ c # y
        BY <1>0, <1>2, <4>1
      <4> QED
        BY <1>1, <1>7, <2>2, <3>2, <4>1, <4>2
    <3> QED
      BY <3>1, <3>2
  <2> QED
    BY <2>1, <2>2
<1>17. Len(ds) = n - 1
  BY OutIs
<1>18. Ring(g, heap', tail, ds)
  <2> HIDE DEF ds, n, From
  <2> QED
    BY <1>10, <1>11, <1>13, <1>15, <1>16, <1>17 DEF Ring
<1>19. y = g[IF a = n THEN 0 ELSE a]
  <2>1. CASE a = n
    BY <1>1, <1>2, <1>10, <2>1 DEF After
  <2>2. CASE a # n
    <3>1. a \in 0..n - 1 /\ From(a) = a + 1 /\ After(a, n) = a + 1
      BY <1>0, <2>2 DEF After
    <3> QED
      BY <1>2, <1>9, <2>2, <3>1
  <2> QED
    BY <2>1, <2>2
<1> HIDE DEF g
<1> QED
  BY <1>6, <1>18, <1>19 DEF y, n, ds
-------------------------------------------------------------------------------
(* There are as many nodes as cells at most.                               *)
LEMMA FewCells ==
  ASSUME NEW a \in Int, NEW n \in Int, a <= n, NEW f \in [a..n -> Cells],
         \A j, k \in a..n : f[j] = f[k] => j = k
  PROVE  n - a + 1 <= MaxNodes
<1>1. IsFiniteSet(1..MaxNodes) /\ Cardinality(1..MaxNodes) = MaxNodes
  BY LinkedAssumption, FS_Interval
<1>2. Cardinality(a..n) = n - a + 1
  BY FS_Interval
<1>3. f \in Injection(a..n, Cells)
  BY DEF Injection, IsInjective
<1>4. Cardinality(a..n) <= Cardinality(Cells)
  BY <1>1, <1>3, FS_Injection DEF Cells
<1> QED
  BY <1>1, <1>2, <1>4 DEF Cells

(* A walk finds the nodes that are linked.                                 *)
Linked(h, link, n, f) == \A k \in 0..n - 1 : f[k] # NULL /\ h[f[k]][link] = f[k + 1]

LEMMA WalkFollows ==
  ASSUME NEW h, NEW link, NEW n \in 0..MaxNodes + 1, NEW f, Linked(h, link, n, f)
  PROVE  \A k \in 0..n : Walk(h, f[0], link)[k] = f[k]
<1> DEFINE w == Walk(h, f[0], link)
           P == {k \in 0..n : w[k] = f[k]}
<1>1. /\ w[0] = f[0]
      /\ \A k \in 1..MaxNodes + 1 : w[k] = IF w[k - 1] = NULL THEN NULL ELSE h[w[k - 1]][link]
  BY WalkIs
<1> HIDE DEF w
<1>0. n \in Nat /\ n <= MaxNodes + 1 /\ MaxNodes \in Nat
  BY LinkedAssumption
<1>2. 0 \in P
  BY <1>0, <1>1
<1>3. ASSUME NEW k \in 1..n, k - 1 \in P PROVE k \in P
  <2>1. k - 1 \in 0..n - 1 /\ k \in 1..MaxNodes + 1 /\ (k - 1) + 1 = k
    BY <1>0
  <2>2. w[k - 1] = f[k - 1] /\ f[k - 1] # NULL /\ h[f[k - 1]][link] = f[(k - 1) + 1]
    BY <1>3, <2>1 DEF Linked
  <2> QED
    BY <1>1, <2>1, <2>2
<1>4. \A k \in 0..n : k \in P
  <2> HIDE DEF P
  <2> QED
    BY <1>0, <1>2, <1>3, Stepwise
<1> QED
  BY <1>4 DEF w

LEMMA RingSize ==
  ASSUME NEW h, NEW t, NEW cs \in Seq(Keys), NEW f, Ring(f, h, t, cs)
  PROVE  Len(cs) \in Nat /\ Len(cs) + 1 <= MaxNodes /\ MaxNodes \in Nat
<1>1. Len(cs) \in Nat /\ Len(cs) - 0 + 1 = Len(cs) + 1 /\ 0 <= Len(cs)
  OBVIOUS
<1>2. f \in [0..Len(cs) -> Cells] /\ \A j, k \in 0..Len(cs) : f[j] = f[k] => j = k
  BY DEF Ring
<1>3. Len(cs) - 0 + 1 <= MaxNodes
  BY <1>1, <1>2, FewCells
<1> QED
  BY <1>1, <1>3, LinkedAssumption

(* clear() frees the nodes of the ring and no other.                       *)
LEMMA ClearFrees ==
  ASSUME NEW cs \in Seq(Keys), tail # NULL, NEW f, Ring(f, heap, tail, cs)
  PROVE  \A c \in Cells : c \in UpToTail <=> heap[c] # Freed
<1> DEFINE n == Len(cs)
           e == [k \in 0..n |-> f[After(k, n)]]
           w == Walk(heap, begin, "next")
<1>0. n \in Nat /\ n <= MaxNodes /\ MaxNodes \in Nat
  BY RingSize
<1>1. /\ f \in [0..n -> Cells] /\ f[0] = tail
      /\ \A j, k \in 0..n : f[j] = f[k] => j = k
      /\ \A k \in 0..n : heap[f[k]].next = f[After(k, n)]
      /\ \A c \in Cells : heap[c] = Freed <=> \A k \in 0..n : c # f[k]
  BY DEF Ring
<1>2. /\ \A k \in 0..n : e[k] = f[After(k, n)] /\ After(k, n) \in 0..n
      /\ \A k \in 0..n - 1 : After(k, n) = k + 1 /\ After(k, n) # 0
      /\ After(n, n) = 0
  BY <1>0 DEF After
<1>3. begin = e[0]
  <2>1. 0 \in 0..n
    BY <1>0
  <2> QED
    BY <1>1, <1>2, <2>1 DEF begin
<1> HIDE DEF e
<1>4. \A k \in 0..n - 1 : e[k] # NULL /\ heap[e[k]].next = e[k + 1]
  <2> TAKE k \in 0..n - 1
  <2>1. k \in 0..n /\ k + 1 \in 0..n /\ e[k] = f[k + 1]
    BY <1>0, <1>2
  <2> QED
    BY <1>1, <1>2, <2>1, NodeTypes
<1>5. \A k \in 0..n : w[k] = f[After(k, n)]
  <2>1. n \in 0..MaxNodes + 1
    BY <1>0
  <2>0. Linked(heap, "next", n, e)
    BY <1>4 DEF Linked
  <2>2. \A k \in 0..n : Walk(heap, e[0], "next")[k] = e[k]
    BY <2>0, <2>1, WalkFollows
  <2> QED
    BY <1>2, <1>3, <2>2
<1>6. UpToTail = {w[k] : k \in {k \in 0..MaxNodes : \A j \in 0..k - 1 : w[j] # tail}}
  BY DEF UpToTail
<1> HIDE DEF w
<1>7. \A k \in 0..MaxNodes : (\A j \in 0..k - 1 : w[j] # tail) <=> k \in 0..n
  <2>1. \A j \in 0..n : w[j] = tail <=> j = n
    <3> TAKE j \in 0..n
    <3>1. j = n \/ j \in 0..n - 1
      BY <1>0
    <3>2. 0 \in 0..n
      BY <1>0
    <3> QED
      BY <1>1, <1>2, <1>5, <3>1, <3>2
  <2> TAKE k \in 0..MaxNodes
  <2>2. CASE k <= n
    BY <1>0, <2>1, <2>2
  <2>3. CASE k > n
    <3>1. n \in 0..k - 1 /\ n \in 0..n /\ k \notin 0..n
      BY <1>0, <2>3
    <3> QED
      BY <2>1, <3>1
  <2> QED
    BY <1>0, <2>2, <2>3
<1>8. ASSUME NEW c \in Cells PROVE c \in UpToTail <=> \E k \in 0..n : c = f[k]
  <2>1. c \in UpToTail <=> \E k \in 0..n : c = w[k]
    <3>1. \A k \in 0..n : k \in 0..MaxNodes
      BY <1>0
    <3> QED
      BY <1>6, <1>7, <3>1
  <2>2. ASSUME NEW k \in 0..n, c = f[k] PROVE \E j \in 0..n : c = w[j]
    <3>1. CASE k = 0
      BY <1>0, <1>2, <1>5, <2>2, <3>1
    <3>2. CASE k # 0
      <4>1. k - 1 \in 0..n /\ k - 1 \in 0..n - 1 /\ (k - 1) + 1 = k
        BY <3>2
      <4>2. w[k - 1] = f[k]
        BY <1>2, <1>5, <4>1
      <4> QED
        BY <2>2, <4>1, <4>2
    <3> QED
      BY <3>1, <3>2
  <2> QED
    BY <1>2, <1>5, <2>1, <2>2
<1> QED
  BY <1>1, <1>8
-------------------------------------------------------------------------------
(* sort(): nodes q[1] .. q[n] linked one to the next, and in order.        *)
Chain(h, q, n) ==
  /\ q \in [1..n -> Cells]
  /\ \A j, k \in 1..n : q[j] = q[k] => j = k
  /\ \A k \in 1..n - 1 : h[q[k]].next = q[k + 1] /\ h[q[k + 1]].prev = q[k]
  /\ h[q[n]].next = NULL

Rising(h, q, n) == \A j, k \in 1..n : j < k => h[q[j]].value <= h[q[k]].value

(* merge_nodes() is given two chains that are in order.                    *)
Mergeable(h, p, m, q, n) ==
  /\ h \in Heaps /\ m \in Nat \ {0} /\ n \in Nat \ {0}
  /\ Chain(h, p, m) /\ Rising(h, p, m) /\ Chain(h, q, n) /\ Rising(h, q, n)
  /\ \A j \in 1..m, k \in 1..n : p[j] # q[k]

(* r[1] .. r[l] are the nodes p[1] .. p[i] and q[1] .. q[j].               *)
Mixed(r, l, p, i, q, j) ==
  /\ \A x \in 1..l : (\E k \in 1..i : r[x] = p[k]) \/ (\E k \in 1..j : r[x] = q[k])
  /\ \A k \in 1..i : \E x \in 1..l : r[x] = p[k]
  /\ \A k \in 1..j : \E x \in 1..l : r[x] = q[k]

(* Nothing but the links of r[1] .. r[l] has changed since h.              *)
Relinked(g, h, r, l) ==
  \A d \in Cells : g[d].value = h[d].value /\ ((\A x \in 1..l : d # r[x]) => g[d] = h[d])

(* Of p the first i, of q the first j have been merged into r.             *)
Merged(g, c, p, m, i, q, n, j, r, h) ==
  /\ g \in Heaps /\ i \in 0..m /\ j \in 0..n /\ (i < m \/ j < n)
  /\ r \in [1..i + j -> Cells] /\ \A x, y \in 1..i + j : r[x] = r[y] => x = y
  /\ Mixed(r, i + j, p, i, q, j)
  /\ \A x \in 1..i + j - 1 : g[r[x]].next = r[x + 1] /\ g[r[x + 1]].prev = r[x]
  /\ c = IF i + j = 0 THEN Local ELSE r[i + j]
  /\ i + j > 0 => g[Local].next = r[1]
  /\ Relinked(g, h, r, i + j) /\ Rising(h, r, i + j)
  /\ \A x \in 1..i + j :
       /\ \A k \in i + 1..m : h[r[x]].value <= h[p[k]].value
       /\ \A k \in j + 1..n : h[r[x]].value <= h[q[k]].value

(* The result of merge_nodes().                                            *)
Joined(g, t, p, m, q, n, h) ==
  /\ g \in Heaps /\ Chain(g, t, m + n) /\ Rising(h, t, m + n) /\ g[Local].next = t[1]
  /\ Mixed(t, m + n, p, m, q, n) /\ Relinked(g, h, t, m + n)

LEMMA EitherFirst ==
  ASSUME NEW g, NEW c, NEW p, NEW m \in Nat, NEW i \in Int, NEW q, NEW n \in Nat, NEW j \in Int, NEW r, NEW h
  PROVE  /\ Mergeable(h, p, m, q, n) => Mergeable(h, q, n, p, m)
         /\ Merged(g, c, p, m, i, q, n, j, r, h) => Merged(g, c, q, n, j, p, m, i, r, h)
         /\ Joined(g, r, p, m, q, n, h) => Joined(g, r, q, n, p, m, h)
<1>1. i + j = j + i /\ m + n = n + m
  OBVIOUS
<1>2. \A l : Mixed(r, l, p, i, q, j) => Mixed(r, l, q, j, p, i)
  BY DEF Mixed
<1>3. \A l : Mixed(r, l, p, m, q, n) => Mixed(r, l, q, n, p, m)
  BY DEF Mixed
<1>4. Mergeable(h, p, m, q, n) => Mergeable(h, q, n, p, m)
  BY DEF Mergeable
<1>5. Merged(g, c, p, m, i, q, n, j, r, h) => Merged(g, c, q, n, j, p, m, i, r, h)
  BY <1>1, <1>2 DEF Merged
<1>6. Joined(g, r, p, m, q, n, h) => Joined(g, r, q, n, p, m, h)
  BY <1>1, <1>3 DEF Joined
<1> QED
  BY <1>4, <1>5, <1>6

(* A turn takes the first node of one of the two.                          *)
LEMMA TakeOne ==
  ASSUME NEW g, NEW c, NEW p, NEW m, NEW i, NEW q, NEW n, NEW j, NEW r, NEW h,
         Mergeable(h, p, m, q, n), Merged(g, c, p, m, i, q, n, j, r, h), i < m, j < n,
         h[p[i + 1]].value <= h[q[j + 1]].value,
         NEW f, f = [[g EXCEPT ![c].next = p[i + 1]]
                       EXCEPT ![p[i + 1]].prev = IF c = Local THEN NULL ELSE c]
  PROVE  /\ \E s : Merged(f, p[i + 1], p, m, i + 1, q, n, j, s, h)
         /\ g[p[i + 1]].next = IF i + 1 = m THEN NULL ELSE p[i + 2]
<1> DEFINE x == p[i + 1]
           l == i + j
           s == [y \in 1..i + 1 + j |-> IF y = i + 1 + j THEN x ELSE r[y]]
           b == IF c = Local THEN NULL ELSE c
           g1 == [g EXCEPT ![c].next = x]
<1>0. /\ h \in Heaps /\ m \in Nat /\ n \in Nat /\ i \in Nat /\ j \in Nat /\ l \in Nat
      /\ i + 1 \in 1..m /\ j + 1 \in 1..n /\ g \in Heaps /\ i + 1 + j = l + 1
  <2>1. h \in Heaps /\ m \in Nat \ {0} /\ n \in Nat \ {0}
    BY DEF Mergeable
  <2>2. g \in Heaps /\ i \in 0..m /\ j \in 0..n
    BY DEF Merged
  <2> QED
    BY <2>1, <2>2
<1>1. /\ p \in [1..m -> Cells] /\ \A u, k \in 1..m : p[u] = p[k] => u = k
      /\ \A k \in 1..m - 1 : h[p[k]].next = p[k + 1]
      /\ h[p[m]].next = NULL
      /\ \A u \in 1..m, k \in 1..n : p[u] # q[k]
  BY DEF Mergeable, Chain
<1>2. /\ \A u, k \in 1..m : u < k => h[p[u]].value <= h[p[k]].value
      /\ \A u, k \in 1..n : u < k => h[q[u]].value <= h[q[k]].value
      /\ \A k \in 1..m : h[p[k]].value \in Int
      /\ \A k \in 1..n : h[q[k]].value \in Int
  <2>1. q \in [1..n -> Cells]
    BY DEF Mergeable, Chain
  <2> QED
    BY <1>0, <1>1, <2>1, NodeTypes DEF Mergeable, Rising
<1>3. /\ r \in [1..l -> Cells] /\ \A y, z \in 1..l : r[y] = r[z] => y = z
      /\ \A y \in 1..l : (\E k \in 1..i : r[y] = p[k]) \/ (\E k \in 1..j : r[y] = q[k])
      /\ \A k \in 1..i : \E y \in 1..l : r[y] = p[k]
      /\ \A k \in 1..j : \E y \in 1..l : r[y] = q[k]
      /\ \A y \in 1..l - 1 : g[r[y]].next = r[y + 1] /\ g[r[y + 1]].prev = r[y]
      /\ c = IF l = 0 THEN Local ELSE r[l]
      /\ l > 0 => g[Local].next = r[1]
      /\ \A d \in Cells : g[d].value = h[d].value /\ ((\A y \in 1..l : d # r[y]) => g[d] = h[d])
      /\ \A y, z \in 1..l : y < z => h[r[y]].value <= h[r[z]].value
      /\ \A y \in 1..l : /\ \A k \in i + 1..m : h[r[y]].value <= h[p[k]].value
                         /\ \A k \in j + 1..n : h[r[y]].value <= h[q[k]].value
  <2>a. /\ r \in [1..l -> Cells] /\ \A y, z \in 1..l : r[y] = r[z] => y = z
        /\ Mixed(r, l, p, i, q, j) /\ Relinked(g, h, r, l) /\ Rising(h, r, l)
    BY DEF Merged
  <2>b. \A y \in 1..l - 1 : g[r[y]].next = r[y + 1] /\ g[r[y + 1]].prev = r[y]
    BY DEF Merged
  <2>d. (c = IF l = 0 THEN Local ELSE r[l]) /\ (l > 0 => g[Local].next = r[1])
    BY DEF Merged
  <2>c. \A y \in 1..l : /\ \A k \in i + 1..m : h[r[y]].value <= h[p[k]].value
                       /\ \A k \in j + 1..n : h[r[y]].value <= h[q[k]].value
    BY DEF Merged
  <2> HIDE DEF l
  <2>2. /\ \A y \in 1..l : (\E k \in 1..i : r[y] = p[k]) \/ (\E k \in 1..j : r[y] = q[k])
        /\ \A k \in 1..i : \E y \in 1..l : r[y] = p[k]
        /\ \A k \in 1..j : \E y \in 1..l : r[y] = q[k]
    BY <2>a DEF Mixed
  <2>3. \A d \in Cells : g[d].value = h[d].value /\ ((\A y \in 1..l : d # r[y]) => g[d] = h[d])
    BY <2>a DEF Relinked
  <2>4. \A y, z \in 1..l : y < z => h[r[y]].value <= h[r[z]].value
    BY <2>a DEF Rising
  <2> QED
    BY <2>a, <2>b, <2>c, <2>d, <2>2, <2>3, <2>4
<1>4. x \in Cells /\ c \in {Local} \cup Cells /\ b \in Cells \cup {NULL} /\ c # x /\ \A y \in 1..l : x # r[y]
  <2>1. x \in Cells
    BY <1>0, <1>1
  <2>2. \A y \in 1..l : x # r[y]
    <3> SUFFICES ASSUME NEW y \in 1..l, x = r[y] PROVE FALSE
      OBVIOUS
    <3>1. CASE \E k \in 1..i : r[y] = p[k]
      <4>1. PICK k \in 1..i : r[y] = p[k]
        BY <3>1
      <4>2. k \in 1..m /\ k # i + 1
        BY <1>0
      <4> QED
        BY <1>0, <1>1, <4>1, <4>2
    <3>2. CASE \E k \in 1..j : r[y] = q[k]
      <4>1. PICK k \in 1..j : r[y] = q[k]
        BY <3>2
      <4>2. k \in 1..n
        BY <1>0
      <4> QED
        BY <1>0, <1>1, <4>1, <4>2
    <3> QED
      BY <1>3, <3>1, <3>2
  <2>3. CASE l = 0
    BY <1>3, <2>1, <2>2, <2>3, NodeTypes
  <2>4. CASE l # 0
    <3>1. l \in 1..l
      BY <1>0, <2>4
    <3>2. c = r[l] /\ c \in Cells
      BY <1>3, <2>4, <3>1
    <3> QED
      BY <2>1, <2>2, <3>1, <3>2
  <2> QED
    BY <2>3, <2>4
<1>5. f = [g1 EXCEPT ![x].prev = b]
  OBVIOUS
<1> HIDE DEF x, b, l, s
<1>6. /\ g1 \in Heaps /\ g1[c].next = x /\ g1[c].value = g[c].value /\ g1[c].prev = g[c].prev
      /\ \A d \in {Local} \cup Cells : d # c => g1[d] = g[d]
  <2> HIDE DEF g1
  <2>1. SetsNext(g1, g, c, x)
    BY DEF g1, SetsNext
  <2> QED
    BY <1>0, <1>4, <2>1, NextWritten
<1> HIDE DEF g1
<1>7. /\ f \in Heaps /\ f[x].prev = b /\ f[x].value = g1[x].value /\ f[x].next = g1[x].next
      /\ \A d \in {Local} \cup Cells : d # x => f[d] = g1[d]
  <2>1. SetsPrev(f, g1, x, b)
    BY <1>5 DEF SetsPrev
  <2>2. b \in Cells \cup {NULL, Local} /\ x \in {Local} \cup Cells
    BY <1>4
  <2>3. g1 \in Heaps
    BY <1>6
  <2>4. f \in Heaps /\ f[x].prev = b /\ f[x].value = g1[x].value /\ f[x].next = g1[x].next
    BY ONLY <2>1, <2>2, <2>3, PrevWritten
  <2>5. \A d \in {Local} \cup Cells : d # x => f[d] = g1[d]
    BY ONLY <2>1, <2>2, <2>3, PrevWritten
  <2> QED
    BY <2>4, <2>5
<1>8. /\ f \in Heaps /\ f[x].prev = b /\ f[x].next = h[x].next /\ f[c].next = x
      /\ c # Local => f[c].prev = g[c].prev
      /\ c # Local => f[Local] = g[Local]
      /\ \A d \in Cells : f[d].value = g[d].value /\ (d # x /\ d # c => f[d] = g[d])
  <2>1. g1[x] = g[x] /\ g[x] = h[x]
    BY <1>3, <1>4, <1>6
  <2>2. f[c] = g1[c]
    BY <1>4, <1>7
  <2>3. c # Local => f[Local] = g[Local]
    BY <1>4, <1>6, <1>7, NodeTypes
  <2>4. ASSUME NEW d \in Cells PROVE f[d].value = g[d].value /\ (d # x /\ d # c => f[d] = g[d])
    <3>1. f[d].value = g1[d].value /\ (d # x => f[d] = g1[d])
      BY <1>7
    <3>2. g1[d].value = g[d].value /\ (d # c => g1[d] = g[d])
      BY <1>6
    <3> QED
      BY <3>1, <3>2
  <2> QED
    BY <1>6, <1>7, <2>1, <2>2, <2>3, <2>4
<1>9. /\ DOMAIN s = 1..l + 1 /\ s[l + 1] = x /\ \A y \in 1..l : s[y] = r[y]
  BY <1>0 DEF s
<1>10. s \in [1..l + 1 -> Cells]
  <2>1. \A y \in 1..l + 1 : y = l + 1 \/ y \in 1..l
    BY <1>0
  <2>2. \A y \in 1..l + 1 : s[y] \in Cells
    BY <1>3, <1>4, <1>9, <2>1
  <2>3. s = [y \in 1..i + 1 + j |-> s[y]]
    BY DEF s
  <2> QED
    BY <1>0, <2>2, <2>3
<1>11. \A y \in 1..l + 1 : y = l + 1 \/ y \in 1..l
  BY <1>0
<1>12. \A y, z \in 1..l + 1 : s[y] = s[z] => y = z
  BY <1>3, <1>4, <1>9, <1>11
<1>13. Mixed(s, l + 1, p, i + 1, q, j)
  <2>1. \A y \in 1..l + 1 : (\E k \in 1..i + 1 : s[y] = p[k]) \/ (\E k \in 1..j : s[y] = q[k])
    <3> TAKE y \in 1..l + 1
    <3>1. i + 1 \in 1..i + 1 /\ \A k \in 1..i : k \in 1..i + 1
      BY <1>0
    <3>2. CASE y = l + 1
      BY <1>9, <3>1, <3>2 DEF x
    <3>3. CASE y \in 1..l
      BY <1>3, <1>9, <3>1, <3>3
    <3> QED
      BY <1>11, <3>2, <3>3
  <2>2. l + 1 \in 1..l + 1 /\ \A y \in 1..l : y \in 1..l + 1
    BY <1>0
  <2>3. \A k \in 1..i + 1 : \E y \in 1..l + 1 : s[y] = p[k]
    <3> TAKE k \in 1..i + 1
    <3>1. k = i + 1 \/ k \in 1..i
      BY <1>0
    <3> QED
      BY <1>3, <1>9, <2>2, <3>1 DEF x
  <2>4. \A k \in 1..j : \E y \in 1..l + 1 : s[y] = q[k]
    BY <1>3, <1>9, <2>2
  <2> QED
    BY <2>1, <2>3, <2>4 DEF Mixed
<1>14. \A y \in 1..l : f[s[y]].next = s[y + 1] /\ f[s[y + 1]].prev = s[y]
  <2> TAKE y \in 1..l
  <2>1. s[y] = r[y] /\ r[y] \in Cells /\ r[y] # x
    BY <1>3, <1>4, <1>9
  <2>2. CASE y = l
    <3>1. c = r[l] /\ c # Local /\ b = c
      BY <1>0, <1>3, <2>1, <2>2, NodeTypes DEF b
    <3> QED
      BY <1>8, <1>9, <2>1, <2>2, <3>1
  <2>3. CASE y # l
    <3>1. y \in 1..l - 1 /\ y + 1 \in 1..l /\ l \in 1..l /\ l # 0
      BY <1>0, <2>3
    <3>2. c = r[l] /\ r[y] # c /\ s[y + 1] = r[y + 1]
      BY <1>3, <1>9, <2>3, <3>1
    <3>3. f[r[y]] = g[r[y]]
      BY <1>8, <2>1, <3>2
    <3>4. f[r[y + 1]].prev = g[r[y + 1]].prev
      <4>1. r[y + 1] \in Cells /\ r[y + 1] # x
        BY <1>3, <1>4, <3>1
      <4> QED
        BY <1>8, <4>1, NodeTypes
    <3> QED
      BY <1>3, <2>1, <3>1, <3>2, <3>3, <3>4
  <2> QED
    BY <2>2, <2>3
<1>15. f[Local].next = s[1]
  <2>1. CASE l = 0
    BY <1>3, <1>8, <1>9, <2>1
  <2>2. CASE l # 0
    <3>1. 1 \in 1..l /\ l \in 1..l
      BY <1>0, <2>2
    <3>2. c # Local
      BY <1>3, <2>2, <3>1, NodeTypes
    <3>3. f[Local].next = r[1]
      BY <1>0, <1>3, <1>8, <2>2, <3>2
    <3> QED
      BY <1>9, <3>1, <3>3
  <2> QED
    BY <2>1, <2>2
<1>16. Relinked(f, h, s, l + 1)
  <2> SUFFICES ASSUME NEW d \in Cells
               PROVE  f[d].value = h[d].value /\ ((\A y \in 1..l + 1 : d # s[y]) => f[d] = h[d])
    BY DEF Relinked
  <2>1. f[d].value = h[d].value
    BY <1>3, <1>8
  <2>2. ASSUME \A y \in 1..l + 1 : d # s[y] PROVE f[d] = h[d]
    <3>1. d # x /\ \A y \in 1..l : d # r[y]
      <4>1. l + 1 \in 1..l + 1 /\ \A y \in 1..l : y \in 1..l + 1
        BY <1>0
      <4> QED
        BY <1>9, <2>2, <4>1
    <3>2. d # c
      <4>1. l # 0 => l \in 1..l
        BY <1>0
      <4> QED
        BY <1>3, <3>1, <4>1, NodeTypes
    <3> QED
      BY <1>3, <1>8, <3>1, <3>2
  <2> QED
    BY <2>1, <2>2
<1>17. Rising(h, s, l + 1)
  <2> SUFFICES ASSUME NEW y \in 1..l + 1, NEW z \in 1..l + 1, y < z
               PROVE  h[s[y]].value <= h[s[z]].value
    BY DEF Rising
  <2>1. y \in 1..l
    BY <1>0
  <2>2. i + 1 \in i + 1..m
    BY <1>0
  <2> QED
    BY <1>3, <1>9, <1>11, <2>1, <2>2 DEF x
<1>18. \A y \in 1..l + 1 :
         /\ \A k \in (i + 1) + 1..m : h[s[y]].value <= h[p[k]].value
         /\ \A k \in j + 1..n : h[s[y]].value <= h[q[k]].value
  <2> TAKE y \in 1..l + 1
  <2>1. CASE y \in 1..l
    <3>1. \A k \in (i + 1) + 1..m : k \in i + 1..m
      BY <1>0
    <3> QED
      BY <1>3, <1>9, <2>1, <3>1
  <2>2. CASE y = l + 1
    <3>1. \A k \in (i + 1) + 1..m : k \in 1..m /\ i + 1 < k
      BY <1>0
    <3>2. \A k \in (i + 1) + 1..m : h[x].value <= h[p[k]].value
      BY <1>0, <1>2, <3>1 DEF x
    <3>3. ASSUME NEW k \in j + 1..n PROVE h[x].value <= h[q[k]].value
      <4>1. k \in 1..n /\ (k = j + 1 \/ j + 1 < k)
        BY <1>0
      <4>2. h[q[j + 1]].value <= h[q[k]].value
        BY <1>0, <1>2, <4>1
      <4>3. h[x].value \in Int /\ h[q[j + 1]].value \in Int /\ h[q[k]].value \in Int
        BY <1>0, <1>2, <4>1 DEF x
      <4>4. h[x].value <= h[q[j + 1]].value
        BY DEF x
      <4> QED
        BY ONLY <4>2, <4>3, <4>4
    <3> QED
      BY <1>9, <2>2, <3>2, <3>3
  <2> QED
    BY <1>11, <2>1, <2>2
<1>19. Merged(f, x, p, m, i + 1, q, n, j, s, h)
  <2>1. i + 1 \in 0..m /\ j \in 0..n /\ (i + 1 < m \/ j < n) /\ l + 1 # 0 /\ (l + 1) - 1 = l
    BY <1>0
  <2>2. x = IF l + 1 = 0 THEN Local ELSE s[l + 1]
    BY <1>9, <2>1
  <2>3. \A y \in 1..(l + 1) - 1 : f[s[y]].next = s[y + 1] /\ f[s[y + 1]].prev = s[y]
    BY <1>14, <2>1
  <2>4. r \in [1..l -> Cells] /\ f \in Heaps
    BY <1>3, <1>8
  <2>5. f[Local].next = s[1] /\ l + 1 = i + 1 + j
    BY <1>0, <1>15
  <2> HIDE DEF x
  <2> QED
    BY ONLY <2>4, <2>5, <1>10, <1>12, <1>13, <1>16, <1>17, <1>18, <2>1, <2>2, <2>3 DEF Merged
<1>20. h[x].next = IF i + 1 = m THEN NULL ELSE p[i + 2]
  <2>1. i + 1 # m => i + 1 \in 1..m - 1 /\ (i + 1) + 1 = i + 2
    BY <1>0
  <2> QED
    BY <1>0, <1>1, <2>1 DEF x
<1>21. g[x] = h[x]
  BY <1>3, <1>4
<1> QED
  BY <1>19, <1>20, <1>21 DEF x

(* When one chain has ended the rest of the other follows.                 *)
LEMMA JoinRest ==
  ASSUME NEW g, NEW c, NEW p, NEW m, NEW i, NEW q, NEW n, NEW r, NEW h,
         Mergeable(h, p, m, q, n), Merged(g, c, p, m, i, q, n, n, r, h),
         NEW f, f = [g EXCEPT ![c].next = p[i + 1], ![p[i + 1]].prev = c]
  PROVE  \E t : Joined(f, t, p, m, q, n, h)
<1> DEFINE x == p[i + 1]
           l == i + n
           t == [y \in 1..m + n |-> IF y <= l THEN r[y] ELSE p[y - n]]
           g1 == [g EXCEPT ![c].next = x]
<1>0. /\ h \in Heaps /\ m \in Nat /\ n \in Nat /\ n >= 1 /\ i \in Nat /\ i < m /\ l \in Nat /\ l >= 1
      /\ i + 1 \in 1..m /\ g \in Heaps /\ l < m + n /\ l - n = i
  <2>1. h \in Heaps /\ m \in Nat \ {0} /\ n \in Nat \ {0}
    BY DEF Mergeable
  <2>2. g \in Heaps /\ i \in 0..m /\ (i < m \/ n < n)
    BY DEF Merged
  <2> QED
    BY <2>1, <2>2
<1>1. /\ p \in [1..m -> Cells] /\ \A u, k \in 1..m : p[u] = p[k] => u = k
      /\ \A k \in 1..m - 1 : h[p[k]].next = p[k + 1] /\ h[p[k + 1]].prev = p[k]
      /\ h[p[m]].next = NULL
      /\ \A u \in 1..m, k \in 1..n : p[u] # q[k]
      /\ \A u, k \in 1..m : u < k => h[p[u]].value <= h[p[k]].value
  BY DEF Mergeable, Chain, Rising
<1>3. /\ r \in [1..l -> Cells] /\ \A y, z \in 1..l : r[y] = r[z] => y = z
      /\ \A y \in 1..l : (\E k \in 1..i : r[y] = p[k]) \/ (\E k \in 1..n : r[y] = q[k])
      /\ \A k \in 1..i : \E y \in 1..l : r[y] = p[k]
      /\ \A k \in 1..n : \E y \in 1..l : r[y] = q[k]
      /\ \A y \in 1..l - 1 : g[r[y]].next = r[y + 1] /\ g[r[y + 1]].prev = r[y]
      /\ c = r[l]
      /\ g[Local].next = r[1]
      /\ \A d \in Cells : g[d].value = h[d].value /\ ((\A y \in 1..l : d # r[y]) => g[d] = h[d])
      /\ \A y, z \in 1..l : y < z => h[r[y]].value <= h[r[z]].value
      /\ \A y \in 1..l : \A k \in i + 1..m : h[r[y]].value <= h[p[k]].value
  <2>a. /\ r \in [1..l -> Cells] /\ \A y, z \in 1..l : r[y] = r[z] => y = z
        /\ Mixed(r, l, p, i, q, n) /\ Relinked(g, h, r, l) /\ Rising(h, r, l)
    BY DEF Merged
  <2>b. \A y \in 1..l - 1 : g[r[y]].next = r[y + 1] /\ g[r[y + 1]].prev = r[y]
    BY DEF Merged
  <2>d. (c = IF l = 0 THEN Local ELSE r[l]) /\ (l > 0 => g[Local].next = r[1])
    BY DEF Merged
  <2>c. \A y \in 1..l : \A k \in i + 1..m : h[r[y]].value <= h[p[k]].value
    BY DEF Merged
  <2> HIDE DEF l
  <2>1. /\ \A y \in 1..l : (\E k \in 1..i : r[y] = p[k]) \/ (\E k \in 1..n : r[y] = q[k])
        /\ \A k \in 1..i : \E y \in 1..l : r[y] = p[k]
        /\ \A k \in 1..n : \E y \in 1..l : r[y] = q[k]
    BY <2>a DEF Mixed
  <2>2. \A d \in Cells : g[d].value = h[d].value /\ ((\A y \in 1..l : d # r[y]) => g[d] = h[d])
    BY <2>a DEF Relinked
  <2>3. \A y, z \in 1..l : y < z => h[r[y]].value <= h[r[z]].value
    BY <2>a DEF Rising
  <2>4. c = r[l] /\ g[Local].next = r[1]
    BY <1>0, <2>d
  <2> QED
    BY <2>a, <2>b, <2>d, <2>c, <2>1, <2>2, <2>3, <2>4
<1>4. \A u \in i + 1..m, y \in 1..l : p[u] # r[y]
  <2> SUFFICES ASSUME NEW u \in i + 1..m, NEW y \in 1..l, p[u] = r[y] PROVE FALSE
    OBVIOUS
  <2>0. u \in 1..m
    BY <1>0
  <2>1. CASE \E k \in 1..i : r[y] = p[k]
    <3>1. PICK k \in 1..i : r[y] = p[k]
      BY <2>1
    <3>2. k \in 1..m /\ k # u
      BY <1>0
    <3> QED
      BY <1>1, <2>0, <3>1, <3>2
  <2>2. CASE \E k \in 1..n : r[y] = q[k]
    BY <1>1, <2>0, <2>2
  <2> QED
    BY <1>3, <2>1, <2>2
<1>5. f = [g1 EXCEPT ![x].prev = c]
  OBVIOUS
<1>6. x \in Cells /\ c \in Cells /\ c # x /\ l \in 1..l /\ 1 \in 1..l /\ x = p[i + 1] /\ i + 1 \in i + 1..m
  <2>1. l \in 1..l /\ 1 \in 1..l /\ i + 1 \in i + 1..m
    BY <1>0
  <2> QED
    BY <1>0, <1>1, <1>3, <1>4, <2>1
<1> HIDE DEF x, l, t
<1>7. /\ g1 \in Heaps /\ g1[c].next = x /\ g1[c].value = g[c].value /\ g1[c].prev = g[c].prev
      /\ \A d \in {Local} \cup Cells : d # c => g1[d] = g[d]
  <2> HIDE DEF g1
  <2>1. SetsNext(g1, g, c, x)
    BY DEF g1, SetsNext
  <2> QED
    BY <1>0, <1>6, <2>1, NextWritten
<1> HIDE DEF g1
<1>8. /\ f \in Heaps /\ f[x].prev = c /\ f[x].value = g1[x].value /\ f[x].next = g1[x].next
      /\ \A d \in {Local} \cup Cells : d # x => f[d] = g1[d]
  <2>1. SetsPrev(f, g1, x, c)
    BY <1>5 DEF SetsPrev
  <2>2. c \in Cells \cup {NULL, Local} /\ x \in {Local} \cup Cells /\ g1 \in Heaps
    BY <1>6, <1>7
  <2>3. f \in Heaps /\ f[x].prev = c /\ f[x].value = g1[x].value /\ f[x].next = g1[x].next
    BY ONLY <2>1, <2>2, PrevWritten
  <2>4. \A d \in {Local} \cup Cells : d # x => f[d] = g1[d]
    BY ONLY <1>5, <2>2 DEF Heaps
  <2> QED
    BY <2>3, <2>4
<1>9. /\ f[Local] = g[Local] /\ f[c].next = x /\ f[c].prev = g[c].prev
      /\ f[x].prev = c /\ f[x].next = h[x].next
      /\ \A d \in Cells : f[d].value = g[d].value /\ (d # x /\ d # c => f[d] = g[d])
  <2>1. g1[x] = g[x] /\ g[x] = h[x]
    BY <1>3, <1>4, <1>6, <1>7
  <2>2. f[c] = g1[c] /\ Local # x /\ Local # c
    BY <1>6, <1>8, NodeTypes
  <2>3. f[Local] = g1[Local] /\ g1[Local] = g[Local]
    BY <1>7, <1>8, <2>2
  <2>4. ASSUME NEW d \in Cells PROVE f[d].value = g[d].value /\ (d # x /\ d # c => f[d] = g[d])
    <3>1. f[d].value = g1[d].value /\ (d # x => f[d] = g1[d])
      BY <1>8
    <3>2. g1[d].value = g[d].value /\ (d # c => g1[d] = g[d])
      BY <1>7
    <3> QED
      BY <3>1, <3>2
  <2> QED
    BY <1>7, <1>8, <2>1, <2>2, <2>3, <2>4
<1>10. /\ \A y \in 1..l : t[y] = r[y] /\ y \in 1..m + n
       /\ \A y \in 1..m + n : y > l => t[y] = p[y - n] /\ y - n \in i + 1..m
       /\ \A y \in 1..m + n : y \in 1..l \/ y > l
  BY <1>0 DEF t, l
<1>11. t \in [1..m + n -> Cells]
  <2>1. \A y \in 1..m + n : t[y] \in Cells
    <3> TAKE y \in 1..m + n
    <3>1. \A u \in i + 1..m : u \in 1..m
      BY <1>0
    <3> QED
      BY <1>1, <1>3, <1>10, <3>1
  <2>2. t = [y \in 1..m + n |-> t[y]]
    BY DEF t
  <2> QED
    BY <2>1, <2>2
<1>12. \A y, z \in 1..m + n : t[y] = t[z] => y = z
  <2> SUFFICES ASSUME NEW y \in 1..m + n, NEW z \in 1..m + n, t[y] = t[z] PROVE y = z
    OBVIOUS
  <2>1. \A u \in i + 1..m : u \in 1..m
    BY <1>0
  <2>2. CASE y > l /\ z > l
    <3>1. y - n = z - n
      BY <1>1, <1>10, <2>1, <2>2
    <3> QED
      BY <1>0, <3>1
  <2> QED
    BY <1>3, <1>4, <1>10, <2>2
<1>13. Mixed(t, m + n, p, m, q, n)
  <2>1. \A y \in 1..m + n : (\E k \in 1..m : t[y] = p[k]) \/ (\E k \in 1..n : t[y] = q[k])
    <3>1. (\A k \in 1..i : k \in 1..m) /\ \A k \in i + 1..m : k \in 1..m
      BY <1>0
    <3> QED
      BY <1>3, <1>10, <3>1
  <2>2. ASSUME NEW k \in 1..m PROVE \E y \in 1..m + n : t[y] = p[k]
    <3>1. CASE k <= i
      <4>1. k \in 1..i
        BY <3>1
      <4> QED
        BY <1>3, <1>10, <4>1
    <3>2. CASE k > i
      <4>1. k + n \in 1..m + n /\ k + n > l /\ (k + n) - n = k
        BY <1>0, <3>2 DEF l
      <4>2. t[k + n] = p[k]
        BY <1>10, <4>1
      <4> QED
        BY <4>1, <4>2
    <3> QED
      BY <1>0, <3>1, <3>2
  <2>3. \A k \in 1..n : \E y \in 1..m + n : t[y] = q[k]
    BY <1>3, <1>10
  <2> QED
    BY <2>1, <2>2, <2>3 DEF Mixed
<1>14. ASSUME NEW y \in 1..(m + n) - 1 PROVE f[t[y]].next = t[y + 1] /\ f[t[y + 1]].prev = t[y]
  <2>0. y \in 1..m + n /\ y + 1 \in 1..m + n
    BY <1>0
  <2>1. CASE y < l
    <3>1. y \in 1..l - 1 /\ y \in 1..l /\ y + 1 \in 1..l /\ y # l
      BY <1>0, <2>1
    <3>2. t[y] = r[y] /\ t[y + 1] = r[y + 1]
      BY <1>10, <3>1
    <3>3. r[y] # c /\ r[y] # x /\ r[y] \in Cells
      BY <1>3, <1>4, <1>6, <3>1
    <3>4. r[y + 1] # x /\ r[y + 1] \in Cells
      BY <1>3, <1>4, <1>6, <3>1
    <3>5. f[r[y]] = g[r[y]]
      BY <1>9, <3>3
    <3>6. f[r[y + 1]].prev = g[r[y + 1]].prev
      BY <1>9, <3>4
    <3>7. g[r[y]].next = r[y + 1] /\ g[r[y + 1]].prev = r[y]
      BY <1>3, <3>1
    <3> QED
      BY ONLY <3>2, <3>5, <3>6, <3>7
  <2>2. CASE y = l
    <3>1. t[y] = c /\ y \in 1..l
      BY <1>3, <1>6, <1>10, <2>2
    <3>2. y + 1 > l /\ (y + 1) - n = i + 1
      BY <1>0, <2>2
    <3>3. t[y + 1] = x
      BY <1>6, <1>10, <2>0, <3>2
    <3> QED
      BY <1>9, <3>1, <3>3
  <2>3. CASE y > l
    <3> DEFINE u == y - n
    <3>1. u \in i + 1..m - 1 /\ u \in i + 1..m /\ u + 1 \in i + 1..m /\ u \in 1..m - 1 /\ u \in 1..m /\ u + 1 \in 1..m /\ u + 1 # i + 1
      BY <1>0, <2>0, <2>3 DEF l
    <3>2. t[y] = p[u] /\ t[y + 1] = p[u + 1]
      <4>1. y + 1 > l /\ (y + 1) - n = u + 1
        BY <1>0, <2>3
      <4> QED
        BY <1>10, <2>0, <2>3, <4>1
    <3> HIDE DEF u
    <3>3. p[u] # c /\ p[u + 1] # c /\ p[u + 1] # x /\ p[u] \in Cells /\ p[u + 1] \in Cells
      BY <1>0, <1>1, <1>3, <1>4, <1>6, <3>1
    <3>4. f[p[u]].next = h[p[u]].next
      <4>1. g[p[u]] = h[p[u]]
        BY <1>3, <1>4, <3>1, <3>3
      <4> QED
        BY <1>9, <3>3, <4>1
    <3>5. f[p[u + 1]] = h[p[u + 1]]
      <4>1. g[p[u + 1]] = h[p[u + 1]]
        BY <1>3, <1>4, <3>1, <3>3
      <4> QED
        BY <1>9, <3>3, <4>1
    <3>6. h[p[u]].next = p[u + 1] /\ h[p[u + 1]].prev = p[u]
      BY <1>1, <3>1
    <3> QED
      BY ONLY <3>2, <3>4, <3>5, <3>6
  <2> QED
    BY <1>0, <2>1, <2>2, <2>3
<1>15. f[t[m + n]].next = NULL
  <2>1. m + n \in 1..m + n /\ m + n > l /\ (m + n) - n = m /\ m \in i + 1..m /\ m \in 1..m
    BY <1>0
  <2>2. t[m + n] = p[m]
    BY <1>10, <2>1
  <2>3. p[m] # c /\ p[m] \in Cells /\ g[p[m]] = h[p[m]]
    BY <1>1, <1>3, <1>4, <1>6, <2>1
  <2> QED
    BY <1>1, <1>9, <2>2, <2>3
<1>16. f[Local].next = t[1]
  BY <1>3, <1>6, <1>9, <1>10
<1>17. Relinked(f, h, t, m + n)
  <2> SUFFICES ASSUME NEW d \in Cells
               PROVE  f[d].value = h[d].value /\ ((\A y \in 1..m + n : d # t[y]) => f[d] = h[d])
    BY DEF Relinked
  <2>1. f[d].value = h[d].value
    BY <1>3, <1>9
  <2>2. ASSUME \A y \in 1..m + n : d # t[y] PROVE f[d] = h[d]
    <3>1. \A y \in 1..l : d # r[y]
      BY <1>10, <2>2
    <3>2. d # c
      BY <1>3, <1>6, <3>1
    <3>3. d # x
      <4>1. l + 1 \in 1..m + n /\ l + 1 > l /\ (l + 1) - n = i + 1
        BY <1>0
      <4>2. t[l + 1] = x
        BY <1>6, <1>10, <4>1
      <4> QED
        BY <2>2, <4>1, <4>2
    <3> QED
      BY <1>3, <1>9, <3>1, <3>2, <3>3
  <2> QED
    BY <2>1, <2>2
<1>18. Rising(h, t, m + n)
  <2> SUFFICES ASSUME NEW y \in 1..m + n, NEW z \in 1..m + n, y < z
               PROVE  h[t[y]].value <= h[t[z]].value
    BY DEF Rising
  <2>1. CASE z \in 1..l
    <3>1. y \in 1..l
      BY <1>0, <2>1
    <3> QED
      BY <1>3, <1>10, <2>1, <3>1
  <2>2. CASE z > l
    <3>1. CASE y \in 1..l
      BY <1>3, <1>10, <2>2, <3>1
    <3>2. CASE y > l
      <4>1. y - n < z - n /\ \A u \in i + 1..m : u \in 1..m
        BY <1>0
      <4>2. t[y] = p[y - n] /\ t[z] = p[z - n] /\ y - n \in 1..m /\ z - n \in 1..m
        BY <1>10, <2>2, <3>2, <4>1
      <4> QED
        BY <1>1, <4>1, <4>2
    <3> QED
      BY <1>10, <3>1, <3>2
  <2> QED
    BY <1>10, <2>1, <2>2
<1>19. Chain(f, t, m + n)
  BY <1>11, <1>12, <1>14, <1>15 DEF Chain
<1> QED
  BY <1>8, <1>13, <1>16, <1>17, <1>18, <1>19 DEF Joined

LEMMA MergingIs ==
  ASSUME NEW h, NEW a, NEW b
  PROVE  LET s == Merging(h, a, b)
         IN  /\ s[0] = [h |-> h, a |-> a, b |-> b, c |-> Local]
             /\ \A k \in 1..MaxNodes : s[k] = MergeTurn(s[k - 1])
<1> DEFINE N == MaxNodes
           z == [h |-> h, a |-> a, b |-> b, c |-> Local]
           From(w, k) == IF k = 0 THEN z ELSE MergeTurn(w[k - 1])
           Is(w, m) == w = [k \in 0..m |-> From(w, k)]
           P == {m \in 0..N : \E w : Is(w, m)}
<1>0. N \in Nat
  BY LinkedAssumption
<1> HIDE DEF z
<1>1. 0 \in P
  <2> DEFINE w == [k \in 0..0 |-> z]
  <2>1. \A k \in 0..0 : k = 0
    OBVIOUS
  <2>2. Is(w, 0)
    BY <2>1
  <2> HIDE DEF Is, w
  <2> QED
    BY <1>0, <2>2
<1>2. ASSUME NEW m \in 1..N, m - 1 \in P PROVE m \in P
  <2>1. PICK v : Is(v, m - 1)
    BY <1>2
  <2> DEFINE w == [k \in 0..m |-> IF k = m THEN From(v, m) ELSE v[k]]
  <2>2. \A k \in 0..m - 1 : v[k] = From(v, k)
    BY <2>1
  <2>3. \A k \in 0..m : w[k] = From(w, k)
    <3> TAKE k \in 0..m
    <3>1. k # 0 => k - 1 \in 0..m - 1 /\ w[k - 1] = v[k - 1]
      BY <1>0
    <3>2. From(w, k) = From(v, k)
      BY <3>1
    <3>3. w[k] = IF k = m THEN From(v, m) ELSE v[k]
      OBVIOUS
    <3> HIDE DEF From, w
    <3>4. k # m => v[k] = From(v, k)
      BY <1>0, <2>2
    <3> QED
      BY <3>2, <3>3, <3>4
  <2>4. Is(w, m)
    BY <2>3
  <2> HIDE DEF Is, w
  <2> QED
    BY <2>4
<1>3. \A m \in 0..N : m \in P
  <2> HIDE DEF P, N
  <2> QED
    BY <1>0, <1>1, <1>2, Stepwise
<1>4. \E w : Is(w, N)
  <2> HIDE DEF Is
  <2> QED
    BY <1>0, <1>3
<1>5. PICK w : Is(w, N) /\ Merging(h, a, b) = w
  <2> DEFINE u == CHOOSE v : Is(v, N)
  <2>1. Is(u, N)
    BY <1>4
  <2>2. Merging(h, a, b) = u
    BY DEF Merging, z
  <2> HIDE DEF u
  <2> QED
    BY <2>1, <2>2
<1>6. DOMAIN w = 0..N /\ \A k \in 0..N : w[k] = From(w, k)
  BY <1>5
<1>7. w[0] = z /\ \A k \in 1..N : w[k] = MergeTurn(w[k - 1])
  BY <1>0, <1>6
<1> QED
  BY <1>5, <1>7 DEF z

LEMMA TwoChains ==
  ASSUME NEW p, NEW m, NEW q, NEW n, NEW h, Mergeable(h, p, m, q, n)
  PROVE  m + n <= MaxNodes
<1> DEFINE u == [y \in 1..m + n |-> IF y <= m THEN p[y] ELSE q[y - m]]
<1>1. /\ m \in Nat /\ n \in Nat /\ m >= 1 /\ n >= 1
      /\ p \in [1..m -> Cells] /\ \A j, k \in 1..m : p[j] = p[k] => j = k
      /\ q \in [1..n -> Cells] /\ \A j, k \in 1..n : q[j] = q[k] => j = k
      /\ \A j \in 1..m, k \in 1..n : p[j] # q[k]
  BY DEF Mergeable, Chain
<1>2. \A y \in 1..m + n : /\ y <= m => u[y] = p[y] /\ y \in 1..m
                          /\ ~(y <= m) => u[y] = q[y - m] /\ y - m \in 1..n
  BY <1>1
<1>3. u \in [1..m + n -> Cells]
  <2>1. \A y \in 1..m + n : u[y] \in Cells
    BY <1>1, <1>2
  <2> QED
    BY <2>1
<1> HIDE DEF u
<1>4. \A y, z \in 1..m + n : u[y] = u[z] => y = z
  <2> SUFFICES ASSUME NEW y \in 1..m + n, NEW z \in 1..m + n, u[y] = u[z] PROVE y = z
    OBVIOUS
  <2>1. CASE y <= m /\ z <= m
    BY <1>1, <1>2, <2>1
  <2>2. CASE ~(y <= m) /\ ~(z <= m)
    <3>1. y - m = z - m
      BY <1>1, <1>2, <2>2
    <3> QED
      BY <1>1, <3>1
  <2> QED
    BY <1>1, <1>2, <2>1, <2>2
<1>5. (m + n) - 1 + 1 <= MaxNodes
  <2>1. 1 \in Int /\ m + n \in Int /\ 1 <= m + n
    BY <1>1
  <2> QED
    BY <1>3, <1>4, <2>1, FewCells
<1> QED
  BY <1>1, <1>5

(* Where the loop of merge_nodes() is after k turns.                       *)
Reached(s, k, p, m, q, n, h) ==
  \E i, j, r : /\ Merged(s.h, s.c, p, m, i, q, n, j, r, h)
               /\ s.a = IF i = m THEN NULL ELSE p[i + 1]
               /\ s.b = IF j = n THEN NULL ELSE q[j + 1]
               /\ i + j = k \/ i = m \/ j = n

LEMMA MergeStarts ==
  ASSUME NEW p, NEW m, NEW q, NEW n, NEW h, Mergeable(h, p, m, q, n)
  PROVE  Reached([h |-> h, a |-> p[1], b |-> q[1], c |-> Local], 0, p, m, q, n, h)
<1> DEFINE r == [y \in 1..0 |-> NULL]
<1>1. h \in Heaps /\ m \in Nat /\ m >= 1 /\ n \in Nat /\ n >= 1 /\ 0 + 0 = 0 /\ 1..0 = {}
  BY DEF Mergeable
<1>2. r \in [1..0 -> Cells]
  BY <1>1
<1>3. Mixed(r, 0, p, 0, q, 0)
  BY <1>1 DEF Mixed
<1>4. Relinked(h, h, r, 0) /\ Rising(h, r, 0)
  BY <1>1 DEF Relinked, Rising
<1>5. Merged(h, Local, p, m, 0, q, n, 0, r, h)
  <2> HIDE DEF r
  <2>1. 0 \in 0..m /\ 0 \in 0..n /\ 0 < m /\ 1..0 - 1 = {}
    BY <1>1
  <2> QED
    BY <1>1, <1>2, <1>3, <1>4, <2>1 DEF Merged
<1>6. 0 # m /\ 0 # n /\ 0 + 1 = 1
  BY <1>1
<1> HIDE DEF r
<1> QED
  BY <1>5, <1>6 DEF Reached

LEMMA MergeGoesOn ==
  ASSUME NEW p, NEW m, NEW q, NEW n, NEW h, Mergeable(h, p, m, q, n),
         NEW s, NEW k \in Nat, Reached(s, k, p, m, q, n, h)
  PROVE  Reached(MergeTurn(s), k + 1, p, m, q, n, h)
<1>0. h \in Heaps /\ m \in Nat /\ m >= 1 /\ n \in Nat /\ n >= 1
  BY DEF Mergeable
<1>1. PICK i, j, r :
        /\ Merged(s.h, s.c, p, m, i, q, n, j, r, h)
        /\ s.a = IF i = m THEN NULL ELSE p[i + 1]
        /\ s.b = IF j = n THEN NULL ELSE q[j + 1]
        /\ i + j = k \/ i = m \/ j = n
  BY DEF Reached
<1>2. i \in 0..m /\ j \in 0..n /\ i \in Int /\ j \in Int
  BY <1>1 DEF Merged
<1>3. /\ \A u \in 1..m : p[u] \in Cells
      /\ \A u \in 1..n : q[u] \in Cells
      /\ \A u \in 1..m, w \in 1..n : p[u] # q[w]
  BY DEF Mergeable, Chain
<1>4. CASE i = m \/ j = n
  <2>1. MergeTurn(s) = s
    BY <1>1, <1>4 DEF MergeTurn
  <2> QED
    BY <1>1, <1>4, <2>1 DEF Reached
<1>5. CASE i # m /\ j # n
  <2> DEFINE a == p[i + 1]
             b == q[j + 1]
             f(x) == [[s.h EXCEPT ![s.c].next = x]
                       EXCEPT ![x].prev = IF s.c = Local THEN NULL ELSE s.c]
  <2>1. /\ i < m /\ j < n /\ i + 1 \in 1..m /\ j + 1 \in 1..n /\ i + j = k
        /\ i + 1 + j = k + 1 /\ i + (j + 1) = k + 1 /\ (i + 1) + 1 = i + 2 /\ (j + 1) + 1 = j + 2
    BY <1>0, <1>1, <1>2, <1>5
  <2>2. a \in Cells /\ b \in Cells /\ a # b /\ a # NULL /\ b # NULL /\ s.a = a /\ s.b = b
    BY <1>1, <1>3, <1>5, <2>1, NodeTypes
  <2>3. s.h[a].value = h[a].value /\ s.h[b].value = h[b].value /\ h[a].value \in Int /\ h[b].value \in Int
    <3>1. Relinked(s.h, h, r, i + j)
      BY <1>1 DEF Merged
    <3> HIDE DEF a, b
    <3> QED
      BY <1>0, <2>2, <3>1, NodeTypes DEF Relinked
  <2>4. CASE s.h[a].value < s.h[b].value
    <3>1. MergeTurn(s) = [h |-> f(a), a |-> s.h[a].next, b |-> b, c |-> a]
      <4> HIDE DEF a, b
      <4> QED
        BY <2>2, <2>4 DEF MergeTurn
    <3>2. h[p[i + 1]].value <= h[q[j + 1]].value
      BY <2>3, <2>4
    <3>3. /\ \E t : Merged(f(a), a, p, m, i + 1, q, n, j, t, h)
          /\ s.h[a].next = IF i + 1 = m THEN NULL ELSE p[i + 2]
      <4>1. Merged(s.h, s.c, p, m, i, q, n, j, r, h)
        BY <1>1
      <4> QED
        BY <2>1, <3>2, <4>1, TakeOne
    <3> HIDE DEF f
    <3>4. PICK t : Merged(f(a), a, p, m, i + 1, q, n, j, t, h)
      BY <3>3
    <3>5. Merged(MergeTurn(s).h, MergeTurn(s).c, p, m, i + 1, q, n, j, t, h)
      BY <3>1, <3>4
    <3>6. MergeTurn(s).a = (IF i + 1 = m THEN NULL ELSE p[i + 2]) /\ MergeTurn(s).b = b
      BY <3>1, <3>3
    <3> QED
      BY <1>5, <2>1, <3>5, <3>6 DEF Reached
  <2>5. CASE ~(s.h[a].value < s.h[b].value)
    <3>1. MergeTurn(s) = [h |-> f(b), a |-> a, b |-> s.h[b].next, c |-> b]
      <4> HIDE DEF a, b
      <4> QED
        BY <2>2, <2>5 DEF MergeTurn
    <3>2. h[q[j + 1]].value <= h[p[i + 1]].value
      BY <2>3, <2>5
    <3>0. Mergeable(h, q, n, p, m) /\ Merged(s.h, s.c, q, n, j, p, m, i, r, h)
      BY <1>0, <1>1, <1>2, EitherFirst
    <3>3. /\ \E t : Merged(f(b), b, q, n, j + 1, p, m, i, t, h)
          /\ s.h[b].next = IF j + 1 = n THEN NULL ELSE q[j + 2]
      BY <2>1, <3>0, <3>2, TakeOne
    <3> HIDE DEF f
    <3>4. PICK t : Merged(f(b), b, q, n, j + 1, p, m, i, t, h)
      BY <3>3
    <3>5. Merged(MergeTurn(s).h, MergeTurn(s).c, p, m, i, q, n, j + 1, t, h)
      <4>1. Merged(f(b), b, p, m, i, q, n, j + 1, t, h)
        <5>1. j + 1 \in Int
          BY <1>2
        <5> HIDE DEF a, b
        <5> QED
          BY <1>0, <1>2, <3>4, <5>1, EitherFirst
      <4> QED
        BY <3>1, <4>1
    <3>6. MergeTurn(s).b = (IF j + 1 = n THEN NULL ELSE q[j + 2]) /\ MergeTurn(s).a = a
      BY <3>1, <3>3
    <3> QED
      BY <1>5, <2>1, <3>5, <3>6 DEF Reached
  <2> QED
    BY <2>4, <2>5
<1> QED
  BY <1>4, <1>5

(* merge_nodes() of two chains in order makes one of all their nodes.      *)
LEMMA MergeJoins ==
  ASSUME NEW p, NEW m, NEW q, NEW n, NEW h, Mergeable(h, p, m, q, n)
  PROVE  \E t : Joined(merge_nodes(h, p[1], q[1]), t, p, m, q, n, h)
<1> DEFINE S == Merging(h, p[1], q[1])
           P == {k \in 0..MaxNodes : Reached(S[k], k, p, m, q, n, h)}
           s == S[MaxNodes]
           rest == IF s.a = NULL THEN s.b ELSE s.a
<1>0. m \in Nat /\ m >= 1 /\ n \in Nat /\ n >= 1 /\ MaxNodes \in Nat /\ m + n <= MaxNodes
  BY LinkedAssumption, TwoChains DEF Mergeable
<1>1. /\ S[0] = [h |-> h, a |-> p[1], b |-> q[1], c |-> Local]
      /\ \A k \in 1..MaxNodes : S[k] = MergeTurn(S[k - 1])
  BY MergingIs
<1>2. merge_nodes(h, p[1], q[1]) = [s.h EXCEPT ![s.c].next = rest, ![rest].prev = s.c]
  BY DEF merge_nodes
<1> HIDE DEF S
<1>3. 0 \in P
  BY <1>0, <1>1, MergeStarts
<1>4. ASSUME NEW k \in 1..MaxNodes, k - 1 \in P PROVE k \in P
  <2>1. k - 1 \in Nat /\ (k - 1) + 1 = k /\ Reached(S[k - 1], k - 1, p, m, q, n, h)
    BY <1>4
  <2>2. Reached(MergeTurn(S[k - 1]), (k - 1) + 1, p, m, q, n, h)
    BY <2>1, MergeGoesOn
  <2> QED
    BY <1>0, <1>1, <2>1, <2>2
<1>5. Reached(s, MaxNodes, p, m, q, n, h)
  <2>1. \A k \in 0..MaxNodes : k \in P
    <3> HIDE DEF P
    <3> QED
      BY <1>0, <1>3, <1>4, Stepwise
  <2>2. MaxNodes \in P
    BY <1>0, <2>1
  <2> QED
    BY <2>2
<1> HIDE DEF s
<1>6. PICK i, j, r :
        /\ Merged(s.h, s.c, p, m, i, q, n, j, r, h)
        /\ s.a = IF i = m THEN NULL ELSE p[i + 1]
        /\ s.b = IF j = n THEN NULL ELSE q[j + 1]
        /\ i + j = MaxNodes \/ i = m \/ j = n
  BY <1>5 DEF Reached
<1>7. i \in 0..m /\ j \in 0..n /\ (i < m \/ j < n) /\ i \in Int /\ j \in Int
  BY <1>6 DEF Merged
<1>8. /\ \A u \in 1..m : p[u] \in Cells
      /\ \A u \in 1..n : q[u] \in Cells
  BY DEF Mergeable, Chain
<1>9. CASE j = n
  <2>1. i # m /\ i + 1 \in 1..m
    BY <1>0, <1>7, <1>9
  <2>2. rest = p[i + 1]
    BY <1>6, <1>8, <2>1, NodeTypes
  <2>3. Merged(s.h, s.c, p, m, i, q, n, n, r, h)
    BY <1>6, <1>9
  <2>4. \E t : Joined([s.h EXCEPT ![s.c].next = p[i + 1], ![p[i + 1]].prev = s.c], t, p, m, q, n, h)
    BY <2>3, JoinRest
  <2> QED
    BY <1>2, <2>2, <2>4
<1>10. CASE i = m
  <2>1. j # n /\ j + 1 \in 1..n
    BY <1>0, <1>7, <1>10
  <2>2. rest = q[j + 1]
    BY <1>6, <1>8, <1>10, <2>1, NodeTypes
  <2>3. Mergeable(h, q, n, p, m) /\ Merged(s.h, s.c, q, n, j, p, m, m, r, h)
    BY <1>0, <1>6, <1>7, <1>10, EitherFirst
  <2> DEFINE f == [s.h EXCEPT ![s.c].next = q[j + 1], ![q[j + 1]].prev = s.c]
  <2>4. \E t : Joined(f, t, q, n, p, m, h)
    BY <2>3, JoinRest
  <2>5. merge_nodes(h, p[1], q[1]) = f
    BY <1>2, <2>2
  <2> HIDE DEF f
  <2>6. \E t : Joined(f, t, p, m, q, n, h)
    BY <1>0, <2>4, EitherFirst
  <2> QED
    BY <2>5, <2>6
<1> QED
  BY <1>0, <1>6, <1>7, <1>9, <1>10

LEMMA ChainWalk ==
  ASSUME NEW h, NEW n \in Nat \ {0}, NEW q, Chain(h, q, n)
  PROVE  /\ n <= MaxNodes
         /\ \A k \in 0..MaxNodes + 1 : Walk(h, q[1], "next")[k] = IF k < n THEN q[k + 1] ELSE NULL
<1> DEFINE w == Walk(h, q[1], "next")
           P == {k \in 0..MaxNodes + 1 : w[k] = IF k < n THEN q[k + 1] ELSE NULL}
<1>1. /\ q \in [1..n -> Cells]
      /\ \A j, k \in 1..n : q[j] = q[k] => j = k
      /\ \A k \in 1..n - 1 : h[q[k]].next = q[k + 1]
      /\ h[q[n]].next = NULL
  BY DEF Chain
<1>2. n - 1 + 1 <= MaxNodes
  <2>1. 1 \in Int /\ n \in Int /\ 1 <= n
    OBVIOUS
  <2> QED
    BY <1>1, <2>1, FewCells
<1>3. /\ w[0] = q[1]
      /\ \A k \in 1..MaxNodes + 1 : w[k] = IF w[k - 1] = NULL THEN NULL ELSE h[w[k - 1]].next
  BY WalkIs
<1> HIDE DEF w
<1>0. n \in Nat /\ n >= 1 /\ MaxNodes + 1 \in Nat /\ 0 + 1 = 1
  BY LinkedAssumption
<1>4. 0 \in P
  BY <1>0, <1>3
<1>5. ASSUME NEW k \in 1..MaxNodes + 1, k - 1 \in P PROVE k \in P
  <2>1. w[k - 1] = IF k - 1 < n THEN q[k] ELSE NULL
    <3>1. (k - 1) + 1 = k
      OBVIOUS
    <3> QED
      BY <1>5, <3>1
  <2>2. w[k] = IF w[k - 1] = NULL THEN NULL ELSE h[w[k - 1]].next
    BY <1>3
  <2>3. k \in 0..MaxNodes + 1
    BY <1>0
  <2>4. CASE k - 1 < n
    <3>1. k \in 1..n /\ q[k] \in Cells /\ q[k] # NULL
      BY <1>0, <1>1, <2>4, NodeTypes
    <3>2. w[k] = h[q[k]].next
      BY <2>1, <2>2, <2>4, <3>1
    <3>3. k < n => k \in 1..n - 1
      BY <1>0, <3>1
    <3>4. ~(k < n) => k = n
      BY <1>0, <3>1
    <3> QED
      BY <1>1, <2>3, <3>2, <3>3, <3>4
  <2>5. CASE ~(k - 1 < n)
    <3>1. ~(k < n)
      BY <1>0, <2>5
    <3> QED
      BY <2>1, <2>2, <2>3, <2>5, <3>1
  <2> QED
    BY <2>4, <2>5
<1>6. \A k \in 0..MaxNodes + 1 : k \in P
  <2> HIDE DEF P
  <2> QED
    BY <1>0, <1>4, <1>5, Stepwise
<1> QED
  BY <1>0, <1>2, <1>6 DEF w

(* The first half ends before the last node.                               *)
LEMMA MiddleIs ==
  ASSUME NEW h, NEW n \in Nat, n >= 2, NEW q, Chain(h, q, n)
  PROVE  \E a \in 1..n - 1 : Middle(h, q[1]) = q[a]
<1> DEFINE w == Walk(h, q[1], "next")
           Ends(t) == /\ 2 * t + 2 <= MaxNodes + 1 /\ w[2 * t + 2] = NULL
                      /\ \A u \in 0..t - 1 : w[2 * u + 2] # NULL
           T == {t \in Nat : 2 * t + 2 >= n}
<1>1. /\ n <= MaxNodes /\ MaxNodes \in Nat
      /\ \A k \in 0..MaxNodes + 1 : w[k] = IF k < n THEN q[k + 1] ELSE NULL
  <2>1. n \in Nat \ {0}
    OBVIOUS
  <2> QED
    BY <2>1, LinkedAssumption, ChainWalk
<1>2. \A k \in 1..n : q[k] # NULL
  BY NodeTypes DEF Chain
<1>3. Middle(h, q[1]) = w[CHOOSE t \in 0..MaxNodes : Ends(t)]
  BY DEF Middle
<1> HIDE DEF w
<1>4. \A k \in 0..MaxNodes + 1 : w[k] = NULL <=> k >= n
  <2> TAKE k \in 0..MaxNodes + 1
  <2>1. k < n => k + 1 \in 1..n
    OBVIOUS
  <2> QED
    BY <1>1, <1>2, <2>1
<1>5. \E t \in 0..MaxNodes : Ends(t)
  <2>1. n \in T /\ T \in SUBSET Nat
    OBVIOUS
  <2>2. PICK t \in T : \A u \in T : t <= u
    <3> HIDE DEF T
    <3> QED
      BY <2>1, Smallest
  <2>3. t \in Nat /\ t <= n /\ 2 * t + 2 >= n
    BY <2>1, <2>2
  <2>4. \A u \in 0..t - 1 : u \in Nat /\ ~(t <= u)
    BY <2>3
  <2>5. \A u \in 0..t - 1 : 2 * u + 2 < n
    BY <2>2, <2>4
  <2>6. 2 * t + 2 <= n + 1
    <3>1. CASE t = 0
      BY <3>1
    <3>2. CASE t # 0
      <4>1. t - 1 \in 0..t - 1
        BY <2>3, <3>2
      <4>2. 2 * (t - 1) + 2 < n
        BY <2>5, <4>1
      <4> QED
        BY <2>3, <4>2
    <3> QED
      BY <3>1, <3>2
  <2>7. 2 * t + 2 \in 0..MaxNodes + 1 /\ t \in 0..MaxNodes
    BY <1>1, <2>3, <2>6
  <2>8. \A u \in 0..t - 1 : 2 * u + 2 \in 0..MaxNodes + 1
    BY <1>1, <2>3, <2>5
  <2>9. Ends(t)
    BY <1>4, <2>3, <2>5, <2>7, <2>8
  <2> QED
    BY <2>7, <2>9
<1> DEFINE t == CHOOSE t \in 0..MaxNodes : Ends(t)
<1>6. t \in 0..MaxNodes /\ Ends(t)
  <2> HIDE DEF Ends
  <2> QED
    BY <1>5
<1> HIDE DEF t
<1>7. t \in 0..MaxNodes + 1 /\ t + 1 \in 1..n - 1 /\ t < n
  <2>1. CASE t = 0
    BY <1>1, <2>1
  <2>2. CASE t # 0
    <3>1. t - 1 \in 0..t - 1 /\ 2 * (t - 1) + 2 = 2 * t /\ 2 * t \in 0..MaxNodes + 1
      BY <1>1, <1>6, <2>2
    <3>2. w[2 * t] # NULL
      BY <1>6, <3>1
    <3>3. 2 * t < n
      BY <1>4, <3>1, <3>2
    <3> QED
      BY <1>1, <1>6, <2>2, <3>3
  <2> QED
    BY <2>1, <2>2
<1>8. Middle(h, q[1]) = q[t + 1]
  BY <1>1, <1>3, <1>7 DEF t
<1> QED
  BY <1>7, <1>8

(* What mergesort() does, where g is what the calls in it do.              *)
Sorting(g, d, h, c) ==
  IF d = 0 \/ h[c].next = NULL THEN [h EXCEPT ![Local].next = c]
  ELSE LET m     == Middle(h, c)
           left  == g[[h EXCEPT ![m].next = NULL]][c]
           right == g[left][h[m].next]
       IN  merge_nodes(right, left[Local].next, right[Local].next)

LEMMA SortsIs ==
  \A d \in 0..MaxNodes, h \in Heaps, c \in Cells : sorts[d][h][c] = Sorting(sorts[d - 1], d, h, c)
<1> DEFINE N == MaxNodes
           Turn(g, k) == [h \in Heaps |-> [c \in Cells |-> Sorting(g, k, h, c)]]
           Is(w, m) == w = [k \in 0..m |-> Turn(w[k - 1], k)]
           P == {m \in 0..N : \E w : Is(w, m)}
<1>0. N \in Nat
  BY LinkedAssumption
<1>a. \A f, g : Turn(f, 0) = Turn(g, 0)
  BY DEF Sorting
<1> HIDE DEF Turn
<1>1. 0 \in P
  <2> DEFINE w == [k \in 0..0 |-> Turn(0, 0)]
  <2>1. \A k \in 0..0 : k = 0
    OBVIOUS
  <2>2. \A k \in 0..0 : w[k] = Turn(w[k - 1], k)
    BY <1>a, <2>1
  <2>3. Is(w, 0)
    BY <2>2
  <2> HIDE DEF Is, w
  <2> QED
    BY <1>0, <2>3
<1>2. ASSUME NEW m \in 1..N, m - 1 \in P PROVE m \in P
  <2>1. PICK v : Is(v, m - 1)
    BY <1>2
  <2> DEFINE w == [k \in 0..m |-> IF k = m THEN Turn(v[m - 1], m) ELSE v[k]]
  <2>2. \A k \in 0..m - 1 : v[k] = Turn(v[k - 1], k)
    BY <2>1
  <2>3. \A k \in 0..m : w[k] = Turn(w[k - 1], k)
    <3> TAKE k \in 0..m
    <3>1. k # 0 => k - 1 \in 0..m - 1 /\ w[k - 1] = v[k - 1]
      BY <1>0
    <3>2. Turn(w[k - 1], k) = Turn(v[k - 1], k)
      <4> HIDE DEF w
      <4> QED
        BY <1>a, <3>1
    <3>3. w[k] = IF k = m THEN Turn(v[m - 1], m) ELSE v[k]
      OBVIOUS
    <3> HIDE DEF w
    <3>4. k # m => v[k] = Turn(v[k - 1], k)
      BY <1>0, <2>2
    <3> QED
      BY <3>2, <3>3, <3>4
  <2>4. Is(w, m)
    BY <2>3
  <2> HIDE DEF Is, w
  <2> QED
    BY <2>4
<1>3. \A m \in 0..N : m \in P
  <2> HIDE DEF P, N
  <2> QED
    BY <1>0, <1>1, <1>2, Stepwise
<1>4. \E w : Is(w, N)
  <2> HIDE DEF Is
  <2> QED
    BY <1>0, <1>3
<1>5. Is(sorts, N)
  <2> DEFINE u == CHOOSE v : Is(v, N)
  <2>1. Is(u, N)
    BY <1>4
  <2>2. sorts = u
    BY DEF sorts, Turn, Sorting
  <2> HIDE DEF u
  <2> QED
    BY <2>1, <2>2
<1>6. \A d \in 0..N : sorts[d] = Turn(sorts[d - 1], d)
  <2> DEFINE u == sorts
  <2>1. u = [k \in 0..N |-> Turn(u[k - 1], k)]
    BY <1>5
  <2> HIDE DEF u
  <2>2. \A d \in 0..N : u[d] = Turn(u[d - 1], d)
    BY <2>1
  <2> QED
    BY <2>2 DEF u
<1> SUFFICES ASSUME NEW d \in 0..MaxNodes, NEW h \in Heaps, NEW c \in Cells
             PROVE  sorts[d][h][c] = Sorting(sorts[d - 1], d, h, c)
  OBVIOUS
<1> DEFINE g == sorts[d - 1]
<1>7. sorts[d] = Turn(g, d)
  BY <1>6
<1> HIDE DEF g
<1>8. Turn(g, d)[h][c] = Sorting(g, d, h, c)
  BY DEF Turn
<1> QED
  BY <1>7, <1>8 DEF g

(* The chain r is the chain q of the heap h in order.                      *)
Arranged(g, r, q, n, h) ==
  /\ g \in Heaps /\ Chain(g, r, n) /\ Rising(h, r, n) /\ g[Local].next = r[1]
  /\ \A x \in 1..n : \E y \in 1..n : r[x] = q[y]
  /\ \A y \in 1..n : \E x \in 1..n : r[x] = q[y]
  /\ Relinked(g, h, r, n)

LEMMA SortOne ==
  ASSUME NEW h \in Heaps, NEW q, Chain(h, q, 1)
  PROVE  Arranged([h EXCEPT ![Local].next = q[1]], q, q, 1, h)
<1> DEFINE g == [h EXCEPT ![Local].next = q[1]]
<1>1. q[1] \in Cells /\ q \in [1..1 -> Cells] /\ h[q[1]].next = NULL
  <2>1. 1 \in 1..1
    OBVIOUS
  <2> QED
    BY <2>1 DEF Chain
<1>2. g \in Heaps /\ g[Local].next = q[1]
  <2>1. SetsNext(g, h, Local, q[1])
    BY DEF SetsNext
  <2> HIDE DEF g
  <2> QED
    BY <1>1, <2>1, NextWritten
<1>3. \A d \in Cells : g[d] = h[d]
  BY NodeTypes DEF Heaps
<1> HIDE DEF g
<1>4. Relinked(g, h, q, 1)
  BY <1>3 DEF Relinked
<1>5. \A x \in 1..1 : x = 1
  OBVIOUS
<1>6. Rising(h, q, 1)
  BY <1>5 DEF Rising
<1>7. Chain(g, q, 1)
  <2>1. 1..1 - 1 = {}
    OBVIOUS
  <2> QED
    BY <1>1, <1>3, <1>5, <2>1 DEF Chain
<1>8. Arranged(g, q, q, 1, h)
  BY <1>2, <1>4, <1>6, <1>7 DEF Arranged
<1> QED
  BY <1>8 DEF g

(* A chain stays when its nodes do.                                        *)
LEMMA ChainStays ==
  ASSUME NEW h, NEW g, NEW q, NEW n \in Nat \ {0}, Chain(h, q, n), \A x \in 1..n : g[q[x]] = h[q[x]]
  PROVE  Chain(g, q, n)
<1>1. n \in 1..n /\ \A k \in 1..n - 1 : k \in 1..n /\ k + 1 \in 1..n
  OBVIOUS
<1> QED
  BY <1>1 DEF Chain

(* The two halves of a chain, when the first ends after a nodes.           *)
Halved(g, p, r, h, q, n, a) ==
  /\ g \in Heaps /\ Chain(g, p, a) /\ Chain(g, r, n - a) /\ g[Local] = h[Local]
  /\ \A d \in Cells : g[d].value = h[d].value /\ (d # q[a] => g[d] = h[d])
  /\ \A x \in 1..a, y \in 1..n - a : p[x] # r[y]
  /\ \A y \in 1..n : (\E x \in 1..a : p[x] = q[y]) \/ (\E x \in 1..n - a : r[x] = q[y])
  /\ a \in Nat \ {0} /\ n - a \in Nat \ {0} /\ h[q[a]].next = r[1] /\ p[1] = q[1]

LEMMA Halves ==
  ASSUME NEW h \in Heaps, NEW n \in Nat, NEW q, Chain(h, q, n), NEW a \in 1..n - 1,
         NEW p, p = [k \in 1..a |-> q[k]], NEW r, r = [k \in 1..n - a |-> q[a + k]],
         NEW g, g = [h EXCEPT ![q[a]].next = NULL]
  PROVE  Halved(g, p, r, h, q, n, a)
<1>0. a \in Nat /\ a >= 1 /\ a < n /\ n - a \in Nat /\ n - a >= 1 /\ a \in 1..n
  OBVIOUS
<1>1. /\ q \in [1..n -> Cells]
      /\ \A j, k \in 1..n : q[j] = q[k] => j = k
      /\ \A k \in 1..n - 1 : h[q[k]].next = q[k + 1] /\ h[q[k + 1]].prev = q[k]
      /\ h[q[n]].next = NULL
  BY DEF Chain
<1>2. /\ g \in Heaps /\ g[q[a]].next = NULL /\ g[q[a]].value = h[q[a]].value /\ g[q[a]].prev = h[q[a]].prev
      /\ \A d \in {Local} \cup Cells : d # q[a] => g[d] = h[d]
  <2> DEFINE c == q[a]
             z == NULL
  <2>1. SetsNext(g, h, c, z)
    BY DEF SetsNext
  <2>2. c \in {Local} \cup Cells /\ z \in Cells \cup {NULL} /\ h \in Heaps
    BY <1>0, <1>1
  <2> HIDE DEF c, z
  <2>a. g \in Heaps /\ g[c].next = z /\ g[c].value = h[c].value /\ g[c].prev = h[c].prev
    BY ONLY <2>1, <2>2, NextWritten
  <2>3. g \in Heaps /\ g[q[a]].next = NULL /\ g[q[a]].value = h[q[a]].value /\ g[q[a]].prev = h[q[a]].prev
    BY <2>a DEF c, z
  <2>4. \A d \in {Local} \cup Cells : d # q[a] => g[d] = h[d]
    BY DEF Heaps
  <2> QED
    BY <2>3, <2>4
<1>3. /\ \A k \in 1..a : p[k] = q[k] /\ k \in 1..n
      /\ \A k \in 1..n - a : r[k] = q[a + k] /\ a + k \in 1..n /\ a + k # a
  BY <1>0
<1>4. /\ p \in [1..a -> Cells] /\ r \in [1..n - a -> Cells]
      /\ \A j, k \in 1..a : p[j] = p[k] => j = k
  <2>1. \A k \in 1..a : q[k] \in Cells
    BY <1>1, <1>3
  <2>2. \A k \in 1..n - a : q[a + k] \in Cells
    BY <1>1, <1>3
  <2> QED
    BY <1>1, <1>3, <2>1, <2>2
<1>5. \A j, k \in 1..n - a : r[j] = r[k] => j = k
  <2> TAKE j, k \in 1..n - a
  <2> HAVE r[j] = r[k]
  <2>1. a + j = a + k
    BY <1>1, <1>3
  <2> QED
    BY <1>0, <2>1
<1>6. \A d \in Cells : g[d].value = h[d].value /\ g[d].prev = h[d].prev /\ (d # q[a] => g[d] = h[d])
  BY <1>2
<1>7. Chain(g, p, a)
  <2>1. \A k \in 1..a - 1 : g[p[k]].next = p[k + 1] /\ g[p[k + 1]].prev = p[k]
    <3> TAKE k \in 1..a - 1
    <3>1. k \in 1..a /\ k + 1 \in 1..a /\ k \in 1..n - 1 /\ k # a
      BY <1>0
    <3>2. q[k] # q[a] /\ q[k] \in Cells /\ q[k + 1] \in Cells
      BY <1>0, <1>1, <1>3, <3>1
    <3> QED
      BY <1>1, <1>3, <1>6, <3>1, <3>2
  <2>2. g[p[a]].next = NULL
    <3>1. a \in 1..a
      BY <1>0
    <3> QED
      BY <1>2, <1>3, <3>1
  <2> QED
    BY <1>4, <2>1, <2>2 DEF Chain
<1>8. Chain(g, r, n - a)
  <2>1. \A k \in 1..(n - a) - 1 : g[r[k]].next = r[k + 1] /\ g[r[k + 1]].prev = r[k]
    <3> TAKE k \in 1..(n - a) - 1
    <3>1. k \in 1..n - a /\ k + 1 \in 1..n - a /\ a + k \in 1..n - 1 /\ a + (k + 1) = (a + k) + 1
      BY <1>0
    <3>2. q[a + k] # q[a] /\ q[a + k] \in Cells /\ q[(a + k) + 1] \in Cells
      BY <1>0, <1>1, <1>3, <3>1
    <3>3. r[k] = q[a + k] /\ r[k + 1] = q[(a + k) + 1]
      BY <1>3, <3>1
    <3>4. h[q[a + k]].next = q[(a + k) + 1] /\ h[q[(a + k) + 1]].prev = q[a + k]
      BY <1>1, <3>1
    <3> QED
      BY ONLY <1>6, <3>2, <3>3, <3>4
  <2>2. g[r[n - a]].next = NULL
    <3>1. n - a \in 1..n - a /\ a + (n - a) = n /\ n \in 1..n /\ n # a
      BY <1>0
    <3>2. r[n - a] = q[n] /\ q[n] # q[a] /\ q[n] \in Cells
      BY <1>0, <1>1, <1>3, <3>1
    <3> QED
      BY <1>1, <1>6, <3>2
  <2> QED
    BY <1>4, <1>5, <2>1, <2>2 DEF Chain
<1>9. \A x \in 1..a, y \in 1..n - a : p[x] # r[y]
  <2> TAKE x \in 1..a, y \in 1..n - a
  <2>1. x # a + y
    BY <1>0
  <2> QED
    BY <1>1, <1>3, <2>1
<1>10. ASSUME NEW y \in 1..n PROVE (\E x \in 1..a : p[x] = q[y]) \/ (\E x \in 1..n - a : r[x] = q[y])
  <2>1. CASE y <= a
    <3>1. y \in 1..a
      BY <2>1
    <3> QED
      BY <1>3, <3>1
  <2>2. CASE y > a
    <3>1. y - a \in 1..n - a /\ a + (y - a) = y
      BY <1>0, <2>2
    <3>2. r[y - a] = q[a + (y - a)]
      BY <1>3, <3>1
    <3> QED
      BY <3>1, <3>2
  <2> QED
    BY <1>0, <2>1, <2>2
<1>11. h[q[a]].next = r[1] /\ p[1] = q[1]
  <2>1. 1 \in 1..a /\ 1 \in 1..n - a
    BY <1>0
  <2> QED
    BY <1>1, <1>3, <2>1
<1>12. g[Local] = h[Local]
  BY <1>0, <1>1, <1>2, NodeTypes
<1> QED
  BY <1>0, <1>2, <1>6, <1>7, <1>8, <1>9, <1>10, <1>11, <1>12 DEF Halved

LEMMA SortMore ==
  ASSUME NEW d \in 1..MaxNodes, NEW h \in Heaps, NEW n \in Nat, n >= 2, NEW q, Chain(h, q, n),
         NEW sort,
         \A k \in Heaps, l \in 1..n - 1 : \A u :
           Chain(k, u, l) => \E v : Arranged(sort[k][u[1]], v, u, l, k)
  PROVE  \E t : Arranged(Sorting(sort, d, h, q[1]), t, q, n, h)
<1>1. PICK a \in 1..n - 1 : Middle(h, q[1]) = q[a]
  BY MiddleIs
<1> DEFINE p == [k \in 1..a |-> q[k]]
           r == [k \in 1..n - a |-> q[a + k]]
           h1 == [h EXCEPT ![q[a]].next = NULL]
           left == sort[h1][q[1]]
           right == sort[left][h[q[a]].next]
           g == merge_nodes(right, left[Local].next, right[Local].next)
<1>2. /\ h1 \in Heaps /\ Chain(h1, p, a) /\ Chain(h1, r, n - a) /\ h1[Local] = h[Local]
      /\ \A c \in Cells : h1[c].value = h[c].value /\ (c # q[a] => h1[c] = h[c])
      /\ \A x \in 1..a, y \in 1..n - a : p[x] # r[y]
      /\ \A y \in 1..n : (\E x \in 1..a : p[x] = q[y]) \/ (\E x \in 1..n - a : r[x] = q[y])
      /\ a \in Nat \ {0} /\ n - a \in Nat \ {0} /\ h[q[a]].next = r[1] /\ p[1] = q[1]
  <2> HIDE DEF p, r, h1
  <2>1. p = [k \in 1..a |-> q[k]] /\ r = [k \in 1..n - a |-> q[a + k]] /\ h1 = [h EXCEPT ![q[a]].next = NULL]
    BY DEF p, r, h1
  <2>2. Halved(h1, p, r, h, q, n, a)
    BY <2>1, Halves
  <2> QED
    BY <2>2 DEF Halved
<1>3. Sorting(sort, d, h, q[1]) = g
  <2>1. h[q[1]].next # NULL /\ d # 0
    <3>1. 1 \in 1..n - 1 /\ 1 + 1 \in 1..n
      OBVIOUS
    <3> QED
      BY <3>1, NodeTypes DEF Chain
  <2> QED
    BY <1>1, <2>1 DEF Sorting
<1> HIDE DEF g
<1>4. /\ \A k \in 1..a : p[k] = q[k] /\ k \in 1..n
      /\ \A k \in 1..n - a : r[k] = q[a + k] /\ a + k \in 1..n
      /\ a \in 1..n /\ a \in 1..a /\ a \in 1..n - 1 /\ n - a \in 1..n - 1
  OBVIOUS
<1> HIDE DEF p, r, h1
<1>5. PICK r1 : Arranged(left, r1, p, a, h1)
  <2>1. \E v : Arranged(sort[h1][p[1]], v, p, a, h1)
    BY <1>2, <1>4
  <2> QED
    BY <1>2, <2>1
<1> HIDE DEF left
<1>6. /\ left \in Heaps /\ Chain(left, r1, a) /\ Rising(h1, r1, a) /\ left[Local].next = r1[1]
      /\ \A x \in 1..a : \E y \in 1..a : r1[x] = p[y]
      /\ \A y \in 1..a : \E x \in 1..a : r1[x] = p[y]
      /\ \A c \in Cells : left[c].value = h1[c].value /\ ((\A x \in 1..a : c # r1[x]) => left[c] = h1[c])
  BY <1>5 DEF Arranged, Relinked
<1>7. (\A k \in 1..a : r1[k] \in Cells) /\ \A k \in 1..n - a : r[k] \in Cells
  BY <1>2, <1>6 DEF Chain
<1>8. Chain(left, r, n - a)
  <2>1. \A x \in 1..n - a : left[r[x]] = h1[r[x]]
    <3> TAKE x \in 1..n - a
    <3>1. \A y \in 1..a : r[x] # r1[y]
      BY <1>2, <1>6
    <3> QED
      BY <1>6, <1>7, <3>1
  <2> QED
    BY <1>2, <2>1, ChainStays
<1>9. PICK r2 : Arranged(right, r2, r, n - a, left)
  <2>1. \E v : Arranged(sort[left][r[1]], v, r, n - a, left)
    BY <1>4, <1>6, <1>8
  <2> QED
    BY <1>2, <2>1
<1> HIDE DEF right
<1>10. /\ right \in Heaps /\ Chain(right, r2, n - a) /\ Rising(left, r2, n - a) /\ right[Local].next = r2[1]
       /\ \A x \in 1..n - a : \E y \in 1..n - a : r2[x] = r[y]
       /\ \A y \in 1..n - a : \E x \in 1..n - a : r2[x] = r[y]
       /\ \A c \in Cells : right[c].value = left[c].value /\ ((\A x \in 1..n - a : c # r2[x]) => right[c] = left[c])
  BY <1>9 DEF Arranged, Relinked
<1>11. \A k \in 1..n - a : r2[k] \in Cells
  BY <1>10 DEF Chain
<1>12. \A x \in 1..a, y \in 1..n - a : r1[x] # r2[y]
  <2> TAKE x \in 1..a, y \in 1..n - a
  <2>1. PICK k \in 1..a : r1[x] = p[k]
    BY <1>6
  <2>2. PICK l \in 1..n - a : r2[y] = r[l]
    BY <1>10
  <2> QED
    BY <1>2, <2>1, <2>2
<1>13. Chain(right, r1, a)
  <2>1. \A x \in 1..a : right[r1[x]] = left[r1[x]]
    <3> TAKE x \in 1..a
    <3>1. \A y \in 1..n - a : r1[x] # r2[y]
      BY <1>12
    <3> QED
      BY <1>7, <1>10, <3>1
  <2> QED
    BY <1>2, <1>6, <2>1, ChainStays
<1>14. Rising(right, r1, a) /\ Rising(right, r2, n - a)
  <2>1. \A x, y \in 1..a : x < y => right[r1[x]].value <= right[r1[y]].value
    <3> TAKE x, y \in 1..a
    <3> HAVE x < y
    <3>1. h1[r1[x]].value <= h1[r1[y]].value
      BY <1>6 DEF Rising
    <3>2. /\ right[r1[x]].value = left[r1[x]].value /\ left[r1[x]].value = h1[r1[x]].value
          /\ right[r1[y]].value = left[r1[y]].value /\ left[r1[y]].value = h1[r1[y]].value
      <4>1. r1[x] \in Cells /\ r1[y] \in Cells
        BY <1>7
      <4> QED
        BY <1>6, <1>10, <4>1
    <3> QED
      BY <3>1, <3>2
  <2>2. \A x, y \in 1..n - a : x < y => right[r2[x]].value <= right[r2[y]].value
    BY <1>10, <1>11 DEF Rising
  <2> QED
    BY <2>1, <2>2 DEF Rising
<1>15. Mergeable(right, r1, a, r2, n - a)
  BY <1>2, <1>10, <1>12, <1>13, <1>14 DEF Mergeable
<1>16. PICK t : Joined(g, t, r1, a, r2, n - a, right)
  BY <1>6, <1>10, <1>15, MergeJoins DEF g
<1>17. /\ g \in Heaps /\ Chain(g, t, n) /\ Rising(right, t, n) /\ g[Local].next = t[1]
       /\ Mixed(t, n, r1, a, r2, n - a) /\ Relinked(g, right, t, n)
  <2>1. a + (n - a) = n
    OBVIOUS
  <2> QED
    BY <1>16, <2>1 DEF Joined
<1>18. \A k \in 1..n : t[k] \in Cells
  BY <1>17 DEF Chain
<1>19. \A c \in Cells : right[c].value = h[c].value
  BY <1>2, <1>6, <1>10
<1>20. Rising(h, t, n)
  BY <1>17, <1>18, <1>19 DEF Rising
<1>21. ASSUME NEW x \in 1..n PROVE \E y \in 1..n : t[x] = q[y]
  <2>1. CASE \E k \in 1..a : t[x] = r1[k]
    BY <1>4, <1>6, <2>1
  <2>2. CASE \E k \in 1..n - a : t[x] = r2[k]
    BY <1>4, <1>10, <2>2
  <2> QED
    BY <1>17, <2>1, <2>2 DEF Mixed
<1>22. ASSUME NEW y \in 1..n PROVE \E x \in 1..n : t[x] = q[y]
  <2>1. CASE \E k \in 1..a : p[k] = q[y]
    <3>1. PICK k \in 1..a : r1[k] = q[y]
      BY <1>6, <2>1
    <3> QED
      BY <1>17, <3>1 DEF Mixed
  <2>2. CASE \E k \in 1..n - a : r[k] = q[y]
    <3>1. PICK k \in 1..n - a : r2[k] = q[y]
      BY <1>10, <2>2
    <3> QED
      BY <1>17, <3>1 DEF Mixed
  <2> QED
    BY <1>2, <2>1, <2>2
<1>23. Relinked(g, h, t, n)
  <2> SUFFICES ASSUME NEW c \in Cells
               PROVE  g[c].value = h[c].value /\ ((\A x \in 1..n : c # t[x]) => g[c] = h[c])
    BY DEF Relinked
  <2>1. g[c].value = right[c].value /\ ((\A x \in 1..n : c # t[x]) => g[c] = right[c])
    BY <1>17 DEF Relinked
  <2>2. ASSUME \A x \in 1..n : c # t[x] PROVE g[c] = h[c]
    <3>1. /\ \A k \in 1..a : c # r1[k]
          /\ \A k \in 1..n - a : c # r2[k]
      BY <1>17, <2>2 DEF Mixed
    <3>2. right[c] = h1[c]
      BY <1>6, <1>10, <3>1
    <3>3. c # q[a]
      BY <1>4, <1>22, <2>2
    <3> QED
      BY <1>2, <2>1, <2>2, <3>2, <3>3
  <2> QED
    BY <1>19, <2>1, <2>2
<1> QED
  BY <1>3, <1>17, <1>20, <1>21, <1>22, <1>23 DEF Arranged

(* mergesort() puts a chain in order.                                      *)
LEMMA SortSorts ==
  ASSUME NEW h \in Heaps, NEW n \in Nat \ {0}, NEW q, Chain(h, q, n)
  PROVE  \E r : Arranged(mergesort(h, q[1]), r, q, n, h)
<1> DEFINE Sorts(d) == \A k \in Heaps, l \in 1..d + 1 : \A u :
                         Chain(k, u, l) => \E v : Arranged(sorts[d][k][u[1]], v, u, l, k)
           P == {d \in 0..MaxNodes : Sorts(d)}
<1>0. MaxNodes \in Nat
  BY LinkedAssumption
<1>1. ASSUME NEW d \in 0..MaxNodes, NEW k \in Heaps, NEW u, Chain(k, u, 1)
      PROVE  \E v : Arranged(sorts[d][k][u[1]], v, u, 1, k)
  <2>1. u[1] \in Cells /\ k[u[1]].next = NULL
    <3>1. 1 \in 1..1
      OBVIOUS
    <3> QED
      BY <1>1, <3>1 DEF Chain
  <2>2. sorts[d][k][u[1]] = [k EXCEPT ![Local].next = u[1]]
    <3>1. sorts[d][k][u[1]] = Sorting(sorts[d - 1], d, k, u[1])
      BY <2>1, SortsIs
    <3> QED
      BY <2>1, <3>1 DEF Sorting
  <2> QED
    BY <1>1, <2>2, SortOne
<1>2. 0 \in P
  <2>1. \A l \in 1..0 + 1 : l = 1
    OBVIOUS
  <2>2. 0 \in 0..MaxNodes
    BY <1>0
  <2> QED
    BY <1>1, <2>1, <2>2
<1>3. ASSUME NEW d \in 1..MaxNodes, d - 1 \in P PROVE d \in P
  <2>1. d \in 0..MaxNodes /\ d - 1 + 1 = d
    BY <1>0
  <2> SUFFICES ASSUME NEW k \in Heaps, NEW l \in 1..d + 1, NEW u, Chain(k, u, l)
               PROVE  \E v : Arranged(sorts[d][k][u[1]], v, u, l, k)
    BY <2>1
  <2>2. CASE l = 1
    BY <1>1, <2>1, <2>2
  <2>3. CASE l # 1
    <3>1. l \in Nat /\ l >= 2 /\ l - 1 <= d /\ 1 \in 1..l
      BY <2>3
    <3> DEFINE sort == sorts[d - 1]
    <3>2. \A j \in Heaps, m \in 1..l - 1 : \A w :
            Chain(j, w, m) => \E v : Arranged(sort[j][w[1]], v, w, m, j)
      <4>1. \A m \in 1..l - 1 : m \in 1..(d - 1) + 1
        BY <2>1, <3>1
      <4> QED
        BY <1>3, <4>1
    <3>3. sorts[d][k][u[1]] = Sorting(sort, d, k, u[1])
      <4>1. u[1] \in Cells
        BY <3>1 DEF Chain
      <4> QED
        BY <2>1, <4>1, SortsIs
    <3> HIDE DEF sort
    <3>4. \E v : Arranged(Sorting(sort, d, k, u[1]), v, u, l, k)
      BY <3>1, <3>2, SortMore
    <3> QED
      BY <3>3, <3>4
  <2> QED
    BY <2>2, <2>3
<1>4. \A d \in 0..MaxNodes : d \in P
  <2> HIDE DEF P
  <2> QED
    BY <1>0, <1>2, <1>3, Stepwise
<1>5. Sorts(MaxNodes)
  <2>1. MaxNodes \in P
    BY <1>0, <1>4
  <2> QED
    BY <2>1
<1>6. n \in 1..MaxNodes + 1
  BY <1>0, ChainWalk
<1> QED
  BY <1>5, <1>6 DEF mergesort

LEMMA LastIs ==
  ASSUME NEW h \in Heaps, NEW n \in Nat \ {0}, NEW q, Chain(h, q, n)
  PROVE  LastFrom(h, q[1]) = q[n]
<1> DEFINE w == Walk(h, q[1], "next")
           IsLast(m) == h[m].next = NULL /\ \E k \in 0..MaxNodes : w[k] = m
<1>0. MaxNodes \in Nat /\ n \in 1..n /\ n - 1 \in 0..MaxNodes /\ (n - 1) + 1 = n /\ n <= MaxNodes
  BY LinkedAssumption, ChainWalk
<1>1. \A k \in 0..MaxNodes : w[k] = IF k < n THEN q[k + 1] ELSE NULL
  <2>1. \A k \in 0..MaxNodes : k \in 0..MaxNodes + 1
    BY <1>0
  <2> QED
    BY <2>1, ChainWalk
<1>2. /\ \A k \in 1..n : q[k] \in Cells
      /\ \A k \in 1..n - 1 : h[q[k]].next = q[k + 1]
      /\ h[q[n]].next = NULL
  BY DEF Chain
<1>3. LastFrom(h, q[1]) = CHOOSE m \in Cells : IsLast(m)
  BY DEF LastFrom
<1> HIDE DEF w
<1>4. q[n] \in Cells /\ IsLast(q[n])
  <2>1. w[n - 1] = q[n]
    BY <1>0, <1>1
  <2> QED
    BY <1>0, <1>2, <2>1
<1>5. ASSUME NEW m \in Cells, IsLast(m) PROVE m = q[n]
  <2>1. PICK k \in 0..MaxNodes : w[k] = m
    BY <1>5
  <2>2. k < n /\ m = q[k + 1]
    BY <1>1, <2>1, NodeTypes
  <2>3. CASE k + 1 = n
    BY <2>2, <2>3
  <2>4. CASE k + 1 # n
    <3>1. k + 1 \in 1..n - 1 /\ (k + 1) + 1 \in 1..n
      BY <1>0, <2>2, <2>4
    <3>2. h[m].next \in Cells
      BY <1>2, <2>2, <3>1
    <3> QED
      BY <1>5, <3>2, NodeTypes
  <2> QED
    BY <2>3, <2>4
<1> HIDE DEF IsLast
<1> QED
  BY <1>3, <1>4, <1>5

(* Two arrangements in order of the same numbers are equal.                *)
LEMMA NotBelow ==
  ASSUME NEW n \in Nat, NEW s \in [1..n -> Int],
         NEW p \in Bijection(1..n, 1..n), NEW q \in Bijection(1..n, 1..n),
         \A j, k \in 1..n : j < k => s[p[j]] <= s[p[k]],
         \A j, k \in 1..n : j < k => s[q[j]] <= s[q[k]],
         NEW k \in 1..n
  PROVE  ~(s[p[k]] < s[q[k]])
<1> SUFFICES ASSUME s[p[k]] < s[q[k]] PROVE FALSE
  OBVIOUS
<1> DEFINE f == [x \in 1..k |-> CHOOSE y \in 1..n : q[y] = p[x]]
<1>1. /\ p \in [1..n -> 1..n] /\ \A x, y \in 1..n : p[x] = p[y] => x = y
      /\ q \in [1..n -> 1..n] /\ \A x \in 1..n : \E y \in 1..n : q[y] = x
  BY DEF Bijection, Injection, IsInjective, Surjection
<1>2. \A x \in 1..k : x \in 1..n /\ f[x] \in 1..n /\ q[f[x]] = p[x]
  <2> TAKE x \in 1..k
  <2>1. x \in 1..n
    OBVIOUS
  <2>2. \E y \in 1..n : q[y] = p[x]
    BY <1>1, <2>1
  <2> QED
    BY <2>1, <2>2
<1>3. \A x \in 1..k : f[x] \in 1..k - 1
  <2> TAKE x \in 1..k
  <2>0. x \in 1..n /\ (x = k \/ x < k)
    BY <1>2
  <2> DEFINE y == f[x]
  <2>1. y \in 1..n /\ q[y] = p[x]
    BY <1>2
  <2> HIDE DEF y, f
  <2>2. s[p[x]] <= s[p[k]] /\ s[p[x]] \in Int /\ s[p[k]] \in Int /\ s[q[k]] \in Int /\ s[q[y]] \in Int
    <3>1. p[x] \in 1..n /\ p[k] \in 1..n /\ q[k] \in 1..n /\ q[y] \in 1..n
      BY <1>1, <2>0, <2>1
    <3>2. s[p[x]] \in Int /\ s[p[k]] \in Int /\ s[q[k]] \in Int /\ s[q[y]] \in Int
      BY <3>1
    <3>3. s[p[x]] <= s[p[k]]
      BY <2>0, <3>2
    <3> QED
      BY <3>2, <3>3
  <2>3. s[q[y]] < s[q[k]]
    BY <2>1, <2>2
  <2>4. ~(k < y) /\ k # y
    <3>1. k < y => s[q[k]] <= s[q[y]]
      BY <2>1
    <3> QED
      BY <2>2, <2>3, <3>1
  <2> QED
    BY <2>1, <2>4 DEF y
<1>4. f \in [1..k -> 1..k - 1]
  BY <1>3
<1>5. \A x, y \in 1..k : f[x] = f[y] => x = y
  <2> TAKE x, y \in 1..k
  <2> HAVE f[x] = f[y]
  <2>1. p[x] = p[y]
    BY <1>2
  <2> QED
    BY <1>1, <1>2, <2>1
<1> HIDE DEF f
<1>6. /\ IsFiniteSet(1..k) /\ Cardinality(1..k) = k
      /\ IsFiniteSet(1..k - 1) /\ Cardinality(1..k - 1) = k - 1
  <2>1. k \in Int /\ k - 1 \in Int /\ k >= 1 /\ k - 1 >= 0
    OBVIOUS
  <2>2. IsFiniteSet(1..k) /\ Cardinality(1..k) = IF 1 > k THEN 0 ELSE k - 1 + 1
    BY <2>1, FS_Interval
  <2>3. IsFiniteSet(1..k - 1) /\ Cardinality(1..k - 1) = IF 1 > k - 1 THEN 0 ELSE (k - 1) - 1 + 1
    <3> DEFINE b == k - 1
    <3>1. 1 \in Int /\ b \in Int
      BY <2>1
    <3> HIDE DEF b
    <3>2. IsFiniteSet(1..b) /\ Cardinality(1..b) = IF 1 > b THEN 0 ELSE b - 1 + 1
      BY <3>1, FS_Interval
    <3> QED
      BY <3>2 DEF b
  <2> QED
    BY <2>1, <2>2, <2>3
<1>7. \E x, y \in 1..k : x # y /\ f[x] = f[y]
  <2>1. Cardinality(1..k - 1) < Cardinality(1..k)
    BY <1>6
  <2> QED
    BY <1>4, <1>6, <2>1, FS_PigeonHole
<1> QED
  BY <1>5, <1>7

LEMMA AscendingIs ==
  ASSUME NEW n \in Nat, NEW s \in [1..n -> Int], NEW p \in Bijection(1..n, 1..n),
         \A j, k \in 1..n : j < k => s[p[j]] <= s[p[k]]
  PROVE  Ascending(s) = [k \in 1..n |-> s[p[k]]]
<1> DEFINE T == {[k \in 1..n |-> s[q[k]]] : q \in Bijection(1..n, 1..n)}
           t == [k \in 1..n |-> s[p[k]]]
           Rises(u) == \A j, k \in 1..n : j < k => u[j] <= u[k]
<1>1. DOMAIN s = 1..n
  OBVIOUS
<1>2. Ascending(s) = CHOOSE u \in T : Rises(u)
  BY <1>1 DEF Ascending
<1>3. t \in T /\ Rises(t)
  OBVIOUS
<1>4. ASSUME NEW u \in T, Rises(u) PROVE u = t
  <2>1. PICK q \in Bijection(1..n, 1..n) : u = [k \in 1..n |-> s[q[k]]]
    OBVIOUS
  <2>2. \A j, k \in 1..n : j < k => s[q[j]] <= s[q[k]]
    BY <1>4, <2>1
  <2>3. \A k \in 1..n : p[k] \in 1..n /\ q[k] \in 1..n
    BY DEF Bijection, Injection
  <2>4. \A k \in 1..n : s[p[k]] = s[q[k]]
    <3> TAKE k \in 1..n
    <3>1. ~(s[p[k]] < s[q[k]])
      BY <2>2, NotBelow
    <3>2. ~(s[q[k]] < s[p[k]])
      BY <2>2, NotBelow
    <3>3. s[p[k]] \in Int /\ s[q[k]] \in Int
      BY <2>3
    <3> QED
      BY <3>1, <3>2, <3>3
  <2> QED
    BY <2>1, <2>4
<1> HIDE DEF T, t, Rises
<1>5. Ascending(s) = t
  BY <1>2, <1>3, <1>4
<1> QED
  BY <1>5 DEF t

(* The ring is opened before the dummy: a chain.                           *)
Opens(h, q, f, cs) ==
  h = [heap EXCEPT ![heap[tail].prev].next = NULL] /\ q = [k \in 1..Len(cs) |-> f[k]]

LEMMA RingOpened ==
  ASSUME heap \in Heaps, NEW cs \in Seq(Keys), tail \in Cells, NEW f, Ring(f, heap, tail, cs), Len(cs) > 1,
         NEW h, NEW q, Opens(h, q, f, cs)
  PROVE  /\ h \in Heaps /\ Chain(h, q, Len(cs)) /\ begin = q[1] /\ \A k \in 1..Len(cs) : q[k] = f[k]
         /\ \A d \in Cells : h[d].value = heap[d].value /\ (d # f[Len(cs)] => h[d] = heap[d])
<1> DEFINE n == Len(cs)
           c == f[n]
           z == NULL
<1>0. n \in Nat /\ n > 1 /\ n \in 1..n /\ n \in 0..n /\ 0 \in 0..n /\ 1 \in 1..n /\ After(n, n) = 0 /\ After(0, n) = 1
  BY DEF After
<1>1. /\ f \in [0..n -> Cells] /\ f[0] = tail
      /\ \A j, k \in 0..n : f[j] = f[k] => j = k
      /\ \A k \in 0..n : heap[f[k]].next = f[After(k, n)] /\ heap[f[After(k, n)]].prev = f[k]
  BY DEF Ring
<1>2. heap[tail].prev = c /\ c \in Cells
  BY <1>0, <1>1
<1>3. SetsNext(h, heap, c, z)
  BY <1>2 DEF SetsNext, Opens
<1>4. h \in Heaps /\ h[c].next = z /\ h[c].value = heap[c].value /\ h[c].prev = heap[c].prev
  <2> DEFINE k == heap
  <2>1. k \in Heaps /\ c \in {Local} \cup Cells /\ z \in Cells \cup {NULL} /\ SetsNext(h, k, c, z)
    BY <1>2, <1>3
  <2> HIDE DEF c, z, k
  <2>2. h \in Heaps /\ h[c].next = z /\ h[c].value = k[c].value /\ h[c].prev = k[c].prev
    BY ONLY <2>1 DEF Heaps, ListNode, SetsNext
  <2> QED
    BY <2>2 DEF k
<1>5. \A d \in Cells : d # c => h[d] = heap[d]
  BY <1>3 DEF SetsNext, Heaps
<1>6. \A d \in Cells : h[d].value = heap[d].value /\ h[d].prev = heap[d].prev /\ (d # c => h[d] = heap[d])
  BY <1>4, <1>5
<1>7. q \in [1..n -> Cells] /\ \A k \in 1..n : q[k] = f[k] /\ k \in 0..n
  <2>1. \A k \in 1..n : f[k] \in Cells /\ k \in 0..n
    BY <1>1
  <2> QED
    BY <2>1 DEF Opens
<1>8. \A k \in 1..n - 1 : h[q[k]].next = q[k + 1] /\ h[q[k + 1]].prev = q[k]
  <2> TAKE k \in 1..n - 1
  <2>1. k \in 1..n /\ k + 1 \in 1..n /\ k # n /\ After(k, n) = k + 1
    BY <1>0 DEF After
  <2>2. f[k] # c /\ f[k] \in Cells /\ f[k + 1] \in Cells /\ heap[f[k]].next = f[k + 1] /\ heap[f[k + 1]].prev = f[k]
    BY <1>0, <1>1, <1>7, <2>1
  <2>3. h[f[k]].next = f[k + 1] /\ h[f[k + 1]].prev = f[k]
    BY <1>6, <2>2
  <2> QED
    BY <1>7, <2>1, <2>3
<1>9. \A j, k \in 1..n : q[j] = q[k] => j = k
  BY <1>1, <1>7
<1>10. h[q[n]].next = NULL
  BY <1>0, <1>4, <1>7
<1>11. begin = q[1]
  BY <1>0, <1>1, <1>7, NodeTypes DEF begin
<1>12. Chain(h, q, n)
  <2> HIDE DEF n
  <2> QED
    BY <1>7, <1>8, <1>9, <1>10 DEF Chain
<1> QED
  BY <1>4, <1>6, <1>7, <1>11, <1>12

(* A chain and the dummy are closed to a ring.                             *)
Closes(g, h, t, first, last) ==
  g = [[h EXCEPT ![t].next = first, ![first].prev = t]
         EXCEPT ![last].next = t, ![t].prev = last, ![Local] = Dummy]

LEMMA ClosedIs ==
  ASSUME NEW h \in Heaps, NEW t \in Cells, NEW first \in Cells, NEW last \in Cells, t # first, t # last,
         NEW g, Closes(g, h, t, first, last)
  PROVE  /\ g \in Heaps
         /\ \A c \in Cells :
              /\ g[c].value = h[c].value
              /\ g[c].next = IF c = t THEN first ELSE IF c = last THEN t ELSE h[c].next
              /\ g[c].prev = IF c = t THEN last ELSE IF c = first THEN t ELSE h[c].prev
              /\ c \notin {t, first, last} => g[c] = h[c]
<1> DEFINE h1 == [h EXCEPT ![t].next = first]
           h2 == [h1 EXCEPT ![first].prev = t]
           h3 == [h2 EXCEPT ![last].next = t]
           h4 == [h3 EXCEPT ![t].prev = last]
           e == Dummy
<1>0. g = [h4 EXCEPT ![Local] = e]
  BY DEF Closes
<1>a. /\ t \in {Local} \cup Cells /\ first \in {Local} \cup Cells /\ last \in {Local} \cup Cells /\ Local \in {Local} \cup Cells
      /\ t \in Cells \cup {NULL} /\ first \in Cells \cup {NULL} /\ t \in Cells \cup {NULL, Local} /\ last \in Cells \cup {NULL, Local}
      /\ e \in ListNode /\ Local \notin Cells
  BY NodeTypes
<1> HIDE DEF e
<1>1. /\ h1 \in Heaps
      /\ \A c \in Cells : /\ h1[c].value = h[c].value /\ h1[c].prev = h[c].prev
                          /\ h1[c].next = IF c = t THEN first ELSE h[c].next
                          /\ c # t => h1[c] = h[c]
  <2> HIDE DEF h1
  <2>1. SetsNext(h1, h, t, first) /\ h \in Heaps
    BY DEF h1, SetsNext
  <2>2. h1 \in Heaps /\ h1[t].next = first /\ h1[t].value = h[t].value /\ h1[t].prev = h[t].prev
    BY ONLY <1>a, <2>1, NextWritten
  <2>3. \A c \in Cells : c # t => h1[c] = h[c]
    BY <2>1 DEF SetsNext, Heaps
  <2> QED
    BY ONLY <2>2, <2>3
<1> HIDE DEF h1
<1>2. /\ h2 \in Heaps
      /\ \A c \in Cells : /\ h2[c].value = h1[c].value /\ h2[c].next = h1[c].next
                          /\ h2[c].prev = IF c = first THEN t ELSE h1[c].prev
                          /\ c # first => h2[c] = h1[c]
  <2> HIDE DEF h2
  <2>1. SetsPrev(h2, h1, first, t) /\ h1 \in Heaps
    BY <1>1 DEF h2, SetsPrev
  <2>2. h2 \in Heaps /\ h2[first].prev = t /\ h2[first].value = h1[first].value /\ h2[first].next = h1[first].next
    BY ONLY <1>a, <2>1, PrevWritten
  <2>3. \A c \in Cells : c # first => h2[c] = h1[c]
    BY <2>1 DEF SetsPrev, Heaps
  <2> QED
    BY ONLY <2>2, <2>3
<1> HIDE DEF h2
<1>3. /\ h3 \in Heaps
      /\ \A c \in Cells : /\ h3[c].value = h2[c].value /\ h3[c].prev = h2[c].prev
                          /\ h3[c].next = IF c = last THEN t ELSE h2[c].next
                          /\ c # last => h3[c] = h2[c]
  <2> HIDE DEF h3
  <2>1. SetsNext(h3, h2, last, t) /\ h2 \in Heaps
    BY <1>2 DEF h3, SetsNext
  <2>2. h3 \in Heaps /\ h3[last].next = t /\ h3[last].value = h2[last].value /\ h3[last].prev = h2[last].prev
    BY ONLY <1>a, <2>1, NextWritten
  <2>3. \A c \in Cells : c # last => h3[c] = h2[c]
    BY <2>1 DEF SetsNext, Heaps
  <2> QED
    BY ONLY <2>2, <2>3
<1> HIDE DEF h3
<1>4. /\ h4 \in Heaps
      /\ \A c \in Cells : /\ h4[c].value = h3[c].value /\ h4[c].next = h3[c].next
                          /\ h4[c].prev = IF c = t THEN last ELSE h3[c].prev
                          /\ c # t => h4[c] = h3[c]
  <2> HIDE DEF h4
  <2>1. SetsPrev(h4, h3, t, last) /\ h3 \in Heaps
    BY <1>3 DEF h4, SetsPrev
  <2>2. h4 \in Heaps /\ h4[t].prev = last /\ h4[t].value = h3[t].value /\ h4[t].next = h3[t].next
    BY ONLY <1>a, <2>1, PrevWritten
  <2>3. \A c \in Cells : c # t => h4[c] = h3[c]
    BY <2>1 DEF SetsPrev, Heaps
  <2> QED
    BY ONLY <2>2, <2>3
<1> HIDE DEF h4
<1>5. g \in Heaps /\ \A c \in Cells : g[c] = h4[c]
  <2>1. SetsNode(g, h4, Local, e) /\ h4 \in Heaps
    BY <1>0, <1>4 DEF SetsNode
  <2>2. g \in Heaps
    BY ONLY <1>a, <2>1, NodeWritten
  <2>3. \A c \in Cells : g[c] = h4[c]
    BY <1>a, <2>1 DEF SetsNode, Heaps
  <2> QED
    BY <2>2, <2>3
<1>6. ASSUME NEW c \in Cells
      PROVE  /\ g[c].value = h[c].value
             /\ g[c].next = IF c = t THEN first ELSE IF c = last THEN t ELSE h[c].next
             /\ g[c].prev = IF c = t THEN last ELSE IF c = first THEN t ELSE h[c].prev
             /\ c \notin {t, first, last} => g[c] = h[c]
  <2>1. /\ g[c] = h4[c] /\ h4[c].value = h3[c].value /\ h3[c].value = h2[c].value
        /\ h2[c].value = h1[c].value /\ h1[c].value = h[c].value
    BY <1>1, <1>2, <1>3, <1>4, <1>5
  <2>2. /\ h4[c].next = h3[c].next /\ h3[c].next = IF c = last THEN t ELSE h2[c].next
        /\ h2[c].next = h1[c].next /\ h1[c].next = IF c = t THEN first ELSE h[c].next
    BY <1>1, <1>2, <1>3, <1>4
  <2>3. /\ h4[c].prev = IF c = t THEN last ELSE h3[c].prev
        /\ h3[c].prev = h2[c].prev
        /\ h2[c].prev = IF c = first THEN t ELSE h1[c].prev
        /\ h1[c].prev = h[c].prev
    BY <1>1, <1>2, <1>3, <1>4
  <2>4. c \notin {t, first, last} => h4[c] = h3[c] /\ h3[c] = h2[c] /\ h2[c] = h1[c] /\ h1[c] = h[c]
    BY <1>1, <1>2, <1>3, <1>4
  <2>5. t # last
    OBVIOUS
  <2> QED
    BY ONLY <2>1, <2>2, <2>3, <2>4, <2>5
<1> QED
  BY <1>5, <1>6

(* sort() makes a ring of the same nodes, in order.                        *)
LEMMA SortRing ==
  ASSUME heap \in Heaps, contents \in Seq(Keys), sz = Len(contents), tail \in Cells,
         NEW f, Ring(f, heap, tail, contents), Sort
  PROVE  /\ heap' \in Heaps /\ tail' = tail /\ sz' = sz
         /\ contents' \in Seq(Keys) /\ Len(contents') = Len(contents)
         /\ \E g : Ring(g, heap', tail, contents')
<1> DEFINE cs == contents
           n == Len(cs)
           h0 == [heap EXCEPT ![heap[tail].prev].next = NULL]
           q == [k \in 1..n |-> f[k]]
           h == mergesort(h0, begin)
           first == h[Local].next
           last == LastFrom(h, first)
<1>1. /\ n > 1
      /\ heap' = [[h EXCEPT ![tail].next = first, ![first].prev = tail]
                    EXCEPT ![last].next = tail, ![tail].prev = last, ![Local] = Dummy]
      /\ contents' = Ascending(cs) /\ tail' = tail /\ sz' = sz
  BY DEF Sort
<1>a. n > 1
  BY DEF Sort
<1>b. n \in Nat /\ cs \in Seq(Keys) /\ Ring(f, heap, tail, cs)
  OBVIOUS
<1>0. n \in Nat /\ n \in Nat \ {0} /\ n \in 1..n /\ 1 \in 1..n /\ \A k \in 1..n : k \in 0..n /\ k # 0
  <2> HIDE DEF n
  <2> QED
    BY ONLY <1>a, <1>b
<1>c. /\ cs \in Seq(Keys) /\ cs \in [1..n -> Int] /\ \A k \in 1..n : cs[k] \in Keys /\ cs[k] \in Int
      /\ Ring(f, heap, tail, cs) /\ Len(cs) = n /\ Len(cs) > 1
  <2> HIDE DEF cs
  <2>1. cs \in [1..n -> Keys]
    BY ONLY <1>b
  <2>2. \A k \in 1..n : cs[k] \in Keys
    BY ONLY <2>1
  <2>3. Keys \subseteq Int
    BY LinkedAssumption
  <2>4. \A k \in 1..n : cs[k] \in Int
    BY ONLY <2>2, <2>3
  <2>5. cs \in [1..n -> Int]
    BY ONLY <2>1, <2>4
  <2> QED
    BY <1>a, <1>b, <2>2, <2>4, <2>5
<1> HIDE DEF cs, n
<1>2. /\ f \in [0..n -> Cells] /\ f[0] = tail
      /\ \A j, k \in 0..n : f[j] = f[k] => j = k
      /\ \A k \in 1..n : heap[f[k]].value = cs[k]
      /\ \A c \in Cells : heap[c] = Freed <=> \A k \in 0..n : c # f[k]
  BY <1>c DEF Ring
<1>3. /\ h0 \in Heaps /\ Chain(h0, q, n) /\ begin = q[1] /\ \A k \in 1..n : q[k] = f[k]
      /\ \A d \in Cells : h0[d].value = heap[d].value /\ (d # f[n] => h0[d] = heap[d])
  <2>1. Opens(h0, q, f, cs)
    BY <1>c DEF h0, q, Opens
  <2> HIDE DEF h0, q
  <2>3. /\ h0 \in Heaps /\ Chain(h0, q, Len(cs)) /\ begin = q[1] /\ \A k \in 1..Len(cs) : q[k] = f[k]
        /\ \A d \in Cells : h0[d].value = heap[d].value /\ (d # f[Len(cs)] => h0[d] = heap[d])
    BY <2>1, <1>c, RingOpened
  <2> QED
    BY <2>3, <1>c
<1> HIDE DEF h0, q
<1>4. PICK r : Arranged(h, r, q, n, h0)
  <2>1. \E v : Arranged(mergesort(h0, q[1]), v, q, n, h0)
    BY <1>0, <1>3, SortSorts
  <2> QED
    BY <1>3, <2>1
<1> HIDE DEF h
<1>5. /\ h \in Heaps /\ Chain(h, r, n) /\ Rising(h0, r, n) /\ first = r[1]
      /\ \A x \in 1..n : \E y \in 1..n : r[x] = q[y]
      /\ \A y \in 1..n : \E x \in 1..n : r[x] = q[y]
      /\ \A d \in Cells : h[d].value = h0[d].value /\ ((\A x \in 1..n : d # r[x]) => h[d] = h0[d])
  BY <1>4 DEF Arranged, Relinked
<1>6. last = r[n]
  BY <1>0, <1>5, LastIs
<1>7. /\ r \in [1..n -> Cells]
      /\ \A j, k \in 1..n : r[j] = r[k] => j = k
      /\ \A k \in 1..n - 1 : h[r[k]].next = r[k + 1] /\ h[r[k + 1]].prev = r[k]
  BY <1>5 DEF Chain
<1>8. \A x \in 1..n : r[x] # tail
  <2> TAKE x \in 1..n
  <2>1. PICK y \in 1..n : r[x] = q[y]
    BY <1>5
  <2>2. r[x] = f[y] /\ y \in 0..n /\ y # 0 /\ 0 \in 0..n
    BY <1>0, <1>3, <2>1
  <2> QED
    BY <1>2, <2>2
<1>9. first \in Cells /\ last \in Cells /\ tail # first /\ tail # last
  BY <1>0, <1>5, <1>6, <1>7, <1>8
<1> HIDE DEF first, last
<1>10. /\ heap' \in Heaps
       /\ \A c \in Cells :
            /\ heap'[c].value = h[c].value
            /\ heap'[c].next = IF c = tail THEN first ELSE IF c = last THEN tail ELSE h[c].next
            /\ heap'[c].prev = IF c = tail THEN last ELSE IF c = first THEN tail ELSE h[c].prev
            /\ c \notin {tail, first, last} => heap'[c] = h[c]
  <2>1. Closes(heap', h, tail, first, last)
    BY <1>1 DEF Closes
  <2> QED
    BY <1>5, <1>9, <2>1, ClosedIs
<1> DEFINE g == [k \in 0..n |-> IF k = 0 THEN tail ELSE r[k]]
           p == [k \in 1..n |-> CHOOSE y \in 1..n : r[k] = q[y]]
           t == [k \in 1..n |-> cs[p[k]]]
<1>11. \A k \in 1..n : p[k] \in 1..n /\ r[k] = q[p[k]]
  <2> TAKE k \in 1..n
  <2>1. \E y \in 1..n : r[k] = q[y]
    BY <1>5
  <2> QED
    BY <2>1
<1>12. p \in Bijection(1..n, 1..n)
  <2>1. p \in [1..n -> 1..n]
    BY <1>11
  <2>2. \A j, k \in 1..n : p[j] = p[k] => j = k
    <3> TAKE j, k \in 1..n
    <3> HAVE p[j] = p[k]
    <3>1. r[j] = r[k]
      BY <1>11
    <3> QED
      BY <1>7, <3>1
  <2>3. \A y \in 1..n : \E x \in 1..n : p[x] = y
    <3> TAKE y \in 1..n
    <3>1. PICK x \in 1..n : r[x] = q[y]
      BY <1>5
    <3>2. p[x] \in 1..n /\ q[p[x]] = q[y]
      BY <1>11, <3>1
    <3>3. p[x] = y
      <4> HIDE DEF p
      <4> QED
        BY <1>0, <1>2, <1>3, <3>2
    <3> QED
      BY <3>3
  <2> HIDE DEF p
  <2> QED
    BY <2>1, <2>2, <2>3 DEF Bijection, Injection, IsInjective, Surjection
<1> HIDE DEF p
<1>13. \A k \in 1..n : h[r[k]].value = cs[p[k]] /\ h0[r[k]].value = cs[p[k]] /\ cs[p[k]] \in Keys /\ cs[p[k]] \in Int
  <2> TAKE k \in 1..n
  <2>1. r[k] = f[p[k]] /\ p[k] \in 1..n /\ r[k] \in Cells
    BY <1>3, <1>7, <1>11
  <2>2. cs[p[k]] \in Keys /\ cs[p[k]] \in Int
    BY <1>c, <2>1
  <2>3. h[r[k]].value = h0[r[k]].value /\ h0[r[k]].value = heap[r[k]].value
    BY <1>3, <1>5, <2>1
  <2> QED
    BY <1>2, <2>1, <2>2, <2>3
<1>14. contents' = t /\ t \in Seq(Keys) /\ Len(t) = n
  <2>1. cs \in [1..n -> Int]
    BY <1>c
  <2>2. \A j, k \in 1..n : j < k => cs[p[j]] <= cs[p[k]]
    BY <1>5, <1>13 DEF Rising
  <2>3. Ascending(cs) = t
    <3> DEFINE s == cs
    <3>1. n \in Nat /\ s \in [1..n -> Int] /\ \A j, k \in 1..n : j < k => s[p[j]] <= s[p[k]]
      BY <1>0, <2>1, <2>2
    <3> HIDE DEF s, n
    <3>2. Ascending(s) = [k \in 1..n |-> s[p[k]]]
      BY <1>12, <3>1, AscendingIs
    <3> QED
      BY <3>2 DEF s
  <2>4. t \in Seq(Keys) /\ Len(t) = n
    BY <1>0, <1>13
  <2> QED
    BY <1>1, <2>3, <2>4
<1>15. /\ g[0] = tail /\ \A k \in 1..n : g[k] = r[k]
  BY <1>0
<1>16. g \in [0..n -> Cells]
  <2>1. \A k \in 0..n : k = 0 \/ k \in 1..n
    BY <1>0
  <2>2. \A k \in 0..n : g[k] \in Cells
    BY <1>7, <1>15, <2>1
  <2> QED
    BY <2>2
<1> HIDE DEF g
<1>17. \A k \in 0..n : k = 0 \/ k \in 1..n
  BY <1>0
<1>18. \A j, k \in 0..n : g[j] = g[k] => j = k
  BY <1>7, <1>8, <1>15, <1>17
<1>19. \A k \in 1..n : heap'[g[k]].value = t[k]
  BY <1>7, <1>10, <1>13, <1>15
<1>20. ASSUME NEW k \in 0..n PROVE heap'[g[k]].next = g[After(k, n)] /\ heap'[g[After(k, n)]].prev = g[k]
  <2>1. CASE k = 0
    <3>1. After(k, n) = 1
      BY <1>0, <1>1, <2>1 DEF After
    <3>2. g[k] = tail /\ g[After(k, n)] = first
      BY <1>0, <1>5, <1>15, <2>1, <3>1 DEF first
    <3> QED
      BY <1>9, <1>10, <3>2
  <2>2. CASE k = n
    <3>1. After(k, n) = 0
      BY <2>2 DEF After
    <3>2. g[k] = last /\ g[After(k, n)] = tail
      BY <1>0, <1>6, <1>15, <2>2, <3>1 DEF last
    <3> QED
      BY <1>9, <1>10, <3>2
  <2>3. CASE k # 0 /\ k # n
    <3>1. After(k, n) = k + 1 /\ k \in 1..n - 1 /\ k \in 1..n /\ k + 1 \in 1..n /\ k + 1 # 1
      BY <1>0, <2>3 DEF After
    <3>2. g[k] = r[k] /\ g[After(k, n)] = r[k + 1]
      BY <1>15, <3>1
    <3>3. r[k] # last /\ r[k] # tail /\ r[k + 1] # first /\ r[k + 1] # tail /\ r[k] \in Cells /\ r[k + 1] \in Cells
      <4>1. first = r[1] /\ last = r[n]
        BY <1>5, <1>6 DEF first, last
      <4> QED
        BY <1>0, <1>7, <1>8, <2>3, <3>1, <4>1
    <3>4. h[r[k]].next = r[k + 1] /\ h[r[k + 1]].prev = r[k]
      BY <1>7, <3>1
    <3> QED
      BY <1>10, <3>2, <3>3, <3>4
  <2> QED
    BY <2>1, <2>2, <2>3
<1>21. ASSUME NEW c \in Cells PROVE heap'[c] = Freed <=> \A k \in 0..n : c # g[k]
  <2>1. CASE \E k \in 0..n : c = g[k]
    <3>1. PICK k \in 0..n : c = g[k]
      BY <2>1
    <3>2. heap'[c].next \in Cells
      <4>1. After(k, n) \in 0..n
        BY <1>0 DEF After
      <4> QED
        BY <1>16, <1>20, <3>1, <4>1
    <3>3. Freed.next = NULL /\ NULL \notin Cells
      BY NodeTypes DEF Freed
    <3>4. heap'[c] # Freed
      BY <3>2, <3>3
    <3> QED
      BY <3>1, <3>4
  <2>2. CASE \A k \in 0..n : c # g[k]
    <3>1. c # tail /\ \A k \in 1..n : c # r[k]
      BY <1>0, <1>15, <2>2
    <3>2. c # first /\ c # last
      <4>1. first = r[1] /\ last = r[n]
        BY <1>5, <1>6 DEF first, last
      <4> QED
        BY <1>0, <3>1, <4>1
    <3>3. \A k \in 0..n : c # f[k]
      <4> TAKE k \in 0..n
      <4>1. CASE k = 0
        BY <1>2, <3>1, <4>1
      <4>2. CASE k \in 1..n
        <5>1. PICK x \in 1..n : r[x] = q[k]
          BY <1>5, <4>2
        <5> QED
          BY <1>3, <3>1, <4>2, <5>1
      <4> QED
        BY <1>17, <4>1, <4>2
    <3>4. heap'[c] = heap[c]
      <4>1. heap'[c] = h[c]
        BY <1>10, <3>1, <3>2
      <4>2. h[c] = h0[c]
        BY <1>5, <3>1
      <4>3. h0[c] = heap[c]
        BY <1>0, <1>3, <3>3
      <4> QED
        BY <4>1, <4>2, <4>3
    <3> QED
      BY <1>2, <2>2, <3>3, <3>4
  <2> QED
    BY <2>1, <2>2
<1>22. Ring(g, heap', tail, t)
  <2> HIDE DEF t, n
  <2> QED
    BY <1>14, <1>15, <1>16, <1>18, <1>19, <1>20, <1>21 DEF Ring
<1> HIDE DEF t
<1> QED
  BY <1>1, <1>10, <1>14, <1>22 DEF cs, n
-------------------------------------------------------------------------------
(* The invariant after a step that leaves a ring.                          *)
LEMMA RingLeft ==
  ASSUME heap' \in Heaps, contents' \in Seq(Keys), sz' = Len(contents'), tail' \in Cells,
         at' \in 0..Len(contents') + 1, NEW g, Ring(g, heap', tail', contents'),
         IF at' = Len(contents') + 1 THEN it' = g[0] ELSE at' # 0 => it' = g[at']
  PROVE  LinkedInv'
<1>1. tail' # NULL
  BY NodeTypes
<1>2. Ring(g, heap, tail, contents)' /\ Pointed(g, Len(contents))'
  BY DEF Pointed
<1> QED
  BY <1>1, <1>2 DEF LinkedInv

(* Iterators stay on the ring.                                             *)
LEMMA IteratorsStay ==
  ASSUME LinkedInv, Begin \/ End \/ Increment \/ Decrement
  PROVE  LinkedInv'
<1>1. CASE tail = NULL
  <2>1. heap' = heap /\ contents' = contents /\ sz' = sz /\ tail' = tail /\ Len(contents) = 0 /\ at \in 0..1
    BY <1>1 DEF LinkedInv, Begin, End, Increment, Decrement
  <2>2. Begin \/ End
    BY <2>1 DEF Increment, Decrement
  <2>3. it' = NULL /\ at' = 1
    BY <1>1, <2>1, <2>2 DEF Begin, End, begin, end
  <2> QED
    BY <1>1, <2>1, <2>3 DEF LinkedInv
<1>2. CASE tail # NULL
  <2> DEFINE n == Len(contents)
  <2>1. /\ heap' = heap /\ contents' = contents /\ sz' = sz /\ tail' = tail
        /\ heap \in Heaps /\ contents \in Seq(Keys) /\ sz = n /\ tail \in Cells /\ at \in 0..n + 1 /\ n \in Nat
    BY <1>2 DEF LinkedInv, Begin, End, Increment, Decrement
  <2>2. PICK f : Ring(f, heap, tail, contents) /\ Pointed(f, n) /\ begin = f[After(0, n)] /\ end = f[0]
    BY <1>2, RingIs
  <2>3. \A k \in 0..n : heap[f[k]].next = f[After(k, n)] /\ heap[f[After(k, n)]].prev = f[k]
    BY <2>2 DEF Ring
  <2>4. /\ at' \in 0..n + 1
        /\ IF at' = n + 1 THEN it' = f[0] ELSE at' # 0 => it' = f[at']
    <3> HIDE DEF n
    <3>1. CASE Begin
      <4>1. it' = f[After(0, n)] /\ at' = 1
        BY <2>2, <3>1 DEF Begin
      <4> QED
        BY <2>1, <4>1 DEF After
    <3>2. CASE End
      <4>1. it' = f[0] /\ at' = n + 1
        BY <2>2, <3>2 DEF End, n
      <4> QED
        BY <2>1, <4>1
    <3>3. CASE Increment
      <4>1. at \in 1..n /\ it' = heap[it].next /\ at' = at + 1
        BY <3>3 DEF Increment, n
      <4>2. it = f[at] /\ at \in 0..n
        BY <2>1, <2>2, <4>1 DEF Pointed
      <4>3. it' = f[After(at, n)]
        BY <2>3, <4>1, <4>2
      <4> QED
        BY <2>1, <4>1, <4>3 DEF After
    <3>4. CASE Decrement
      <4>1. at > 1 /\ it' = heap[it].prev /\ at' = at - 1 /\ at - 1 \in 0..n /\ at - 1 # 0 /\ at - 1 # n + 1
        BY <2>1, <3>4 DEF Decrement
      <4>2. it = f[After(at - 1, n)]
        BY <2>1, <2>2, <4>1 DEF Pointed, After
      <4>3. it' = f[at - 1]
        BY <2>3, <4>1, <4>2
      <4> QED
        BY <2>1, <4>1, <4>3
    <3> QED
      BY <3>1, <3>2, <3>3, <3>4
  <2>5. Ring(f, heap', tail', contents')
    BY <2>1, <2>2
  <2> QED
    BY <2>1, <2>4, <2>5, RingLeft
<1> QED
  BY <1>1, <1>2

(* clear() leaves a list without nodes.                                    *)
LEMMA ClearStays ==
  ASSUME LinkedInv, Clear
  PROVE  LinkedInv'
<1>1. /\ tail # NULL /\ heap \in Heaps /\ contents \in Seq(Keys)
      /\ heap' = [n \in DOMAIN heap |-> IF n \in UpToTail THEN Freed ELSE heap[n]]
      /\ tail' = NULL /\ sz' = 0 /\ contents' = <<>> /\ at' = 0
  BY DEF Clear, LinkedInv
<1>2. PICK f : Ring(f, heap, tail, contents)
  BY <1>1, RingIs
<1>3. \A c \in Cells : c \in UpToTail <=> heap[c] # Freed
  BY <1>1, <1>2, ClearFrees
<1>4. DOMAIN heap = {Local} \cup Cells /\ \A c \in {Local} \cup Cells : heap[c] \in ListNode
  BY <1>1 DEF Heaps
<1>5. heap' \in Heaps
  <2> HIDE DEF UpToTail
  <2> QED
    BY <1>1, <1>4, NodeTypes DEF Heaps
<1>6. \A c \in Cells : heap'[c] = Freed
  <2> TAKE c \in Cells
  <2>1. heap'[c] = IF c \in UpToTail THEN Freed ELSE heap[c]
    BY <1>1, <1>4
  <2> QED
    BY <1>3, <2>1
<1> QED
  BY <1>1, <1>5, <1>6 DEF LinkedInv

(* sort() leaves a ring.                                                   *)
LEMMA SortStays ==
  ASSUME LinkedInv, Sort
  PROVE  LinkedInv'
<1>1. sz > 1 /\ at' = 0 /\ tail' = tail
  BY DEF Sort
<1>2. heap \in Heaps /\ contents \in Seq(Keys) /\ sz = Len(contents) /\ tail \in Cells
  <2>1. Len(<<>>) = 0
    OBVIOUS
  <2> QED
    BY <1>1, <2>1 DEF LinkedInv
<1>3. PICK f : Ring(f, heap, tail, contents)
  BY <1>2, NodeTypes, RingIs
<1>4. /\ heap' \in Heaps /\ tail' = tail /\ sz' = sz
      /\ contents' \in Seq(Keys) /\ Len(contents') = Len(contents)
      /\ \E g : Ring(g, heap', tail, contents')
  BY <1>2, <1>3, SortRing
<1>5. PICK g : Ring(g, heap', tail', contents')
  BY <1>4
<1> QED
  BY <1>1, <1>2, <1>4, <1>5, RingLeft

(* erase() leaves the ring of the other nodes; the iterator goes on.       *)
LEMMA EraseStays ==
  ASSUME LinkedInv, Erase
  PROVE  LinkedInv'
<1> DEFINE n == Len(contents)
           cs == contents
           a == at
<1>1. at \in 1..n /\ sz' = sz - 1 /\ contents' = RemoveAt(contents, at) /\ tail' = tail /\ at' = at
  BY DEF Erase
<1>2. /\ it' = heap[it].next
      /\ heap' = [[heap EXCEPT ![heap[it].prev].next = heap[it].next]
                    EXCEPT ![heap[it].next].prev = heap[it].prev, ![it] = Freed]
  BY DEF Erase
<1>3. n \in Nat /\ heap \in Heaps /\ contents \in Seq(Keys) /\ sz = n /\ tail \in Cells
  <2>1. Len(<<>>) = 0
    OBVIOUS
  <2> QED
    BY <1>1, <2>1 DEF LinkedInv
<1>4. PICK f : Ring(f, heap, tail, contents) /\ Pointed(f, n)
  BY <1>3, NodeTypes, RingIs
<1>5. it = f[at]
  BY <1>1, <1>3, <1>4 DEF Pointed
<1>6. heap' \in Heaps /\ \E g : Ring(g, heap', tail, Out(contents, at)) /\ heap[it].next = g[IF at = n THEN 0 ELSE at]
  <2> HIDE <1>1, <1>2
  <2> QED
    BY <1>1, <1>2, <1>3, <1>4, <1>5, EraseRing
<1>7. PICK g : Ring(g, heap', tail, Out(contents, at)) /\ heap[it].next = g[IF at = n THEN 0 ELSE at]
  BY <1>6
<1>8. contents' = Out(contents, at) /\ contents' \in Seq(Keys) /\ Len(contents') = n - 1
  BY <1>1, <1>3, OutIs
<1>9. at' \in 0..Len(contents') + 1 /\ sz' = Len(contents') /\ tail' \in Cells
  BY <1>1, <1>3, <1>8
<1>10. IF at' = Len(contents') + 1 THEN it' = g[0] ELSE at' # 0 => it' = g[at']
  <2>1. Len(contents') + 1 = n
    BY <1>3, <1>8
  <2> HIDE DEF n
  <2> QED
    BY <1>1, <1>2, <1>7, <2>1
<1> QED
  BY <1>1, <1>6, <1>7, <1>8, <1>9, <1>10, RingLeft

(* insert() into the list without nodes leaves a ring of one.              *)
LEMMA FirstStays ==
  ASSUME LinkedInv, tail = NULL, NEW v \in Keys, NEW node, Insert(node, v),
         contents' = Put(contents, 1, v), at' = 0 \/ (at' = 1 /\ it' = new)
  PROVE  LinkedInv'
<1>1. heap \in Heaps /\ contents = <<>> /\ sz = 0 /\ \A n \in Cells : heap[n] = Freed
  BY DEF LinkedInv
<1>2. /\ heap' \in Heaps /\ tail' \in Cells
      /\ \E g : Ring(g, heap', tail', Put(<<>>, 1, v)) /\ g[1] = new /\ g[0] = tail'
  BY <1>1, FirstRing
<1>3. PICK g : Ring(g, heap', tail', Put(<<>>, 1, v)) /\ g[1] = new
  BY <1>2
<1>4. Put(<<>>, 1, v) \in Seq(Keys) /\ Len(Put(<<>>, 1, v)) = 1
  <2>1. contents \in Seq(Keys) /\ Len(contents) \in Nat
    BY DEF LinkedInv
  <2>2. \A a \in 1..Len(contents) + 1 :
          Put(contents, a, v) \in Seq(Keys) /\ Len(Put(contents, a, v)) = Len(contents) + 1
    <3> HIDE <1>1
    <3> QED
      BY <2>1, PutIs
  <2>3. Len(contents) = 0 /\ 1 \in 1..Len(contents) + 1
    BY <1>1
  <2> QED
    BY <1>1, <2>2, <2>3
<1>5. sz' = 1 /\ contents' = Put(<<>>, 1, v)
  BY <1>1 DEF Insert
<1>6. contents' \in Seq(Keys) /\ Len(contents') = 1 /\ Ring(g, heap', tail', contents')
  BY <1>3, <1>4, <1>5
<1>7. at' \in 0..Len(contents') + 1 /\ (IF at' = Len(contents') + 1 THEN it' = g[0] ELSE at' # 0 => it' = g[at'])
  <2>1. CASE at' = 0
    BY <1>6, <2>1
  <2>2. CASE at' = 1 /\ it' = new
    BY <1>3, <1>6, <2>2
  <2> QED
    BY <2>1, <2>2
<1>8. sz' = Len(contents')
  BY <1>5, <1>6
<1> QED
  BY <1>2, <1>6, <1>7, <1>8, RingLeft

(* insert() at a place leaves a ring with the new element there.           *)
LEMMA InsertStays ==
  ASSUME LinkedInv, tail # NULL, NEW v \in Keys, NEW a \in 1..Len(contents) + 1,
         NEW f, Ring(f, heap, tail, contents), Pointed(f, Len(contents)),
         Insert(f[IF a = Len(contents) + 1 THEN 0 ELSE a], v),
         contents' = Put(contents, a, v),
         \/ at' = 0
         \/ at' = a /\ it' = new
         \/ at' = at /\ at < a /\ it' = it
         \/ at' = at + 1 /\ a <= at /\ it' = it
  PROVE  LinkedInv'
<1> DEFINE n == Len(contents)
<1>1. n \in Nat /\ heap \in Heaps /\ contents \in Seq(Keys) /\ sz = n /\ tail \in Cells /\ at \in 0..n + 1
  BY DEF LinkedInv
<1>2. heap' \in Heaps /\ tail' = tail
  BY <1>1, InsertRing
<1>3. PICK g : /\ Ring(g, heap', tail, Put(contents, a, v)) /\ g[a] = new
               /\ \A k \in 0..n : g[IF k < a THEN k ELSE k + 1] = f[k]
  BY <1>1, InsertRing
<1>4. Put(contents, a, v) \in Seq(Keys) /\ Len(Put(contents, a, v)) = n + 1
  BY <1>1, PutIs
<1>5. sz' = n + 1
  BY <1>1 DEF Insert
<1>6. a \in 1..n + 1 /\ Len(contents') = n + 1 /\ (at = n + 1 => it = f[0]) /\ (at # n + 1 /\ at # 0 => it = f[at])
  BY <1>4 DEF Pointed
<1> HIDE DEF n
<1>7. at' \in 0..Len(contents') + 1 /\ (IF at' = Len(contents') + 1 THEN it' = g[0] ELSE at' # 0 => it' = g[at'])
  <2>1. CASE at' = 0
    BY <1>1, <1>6, <2>1
  <2>2. CASE at' = a /\ it' = new
    BY <1>1, <1>3, <1>6, <2>2
  <2>3. CASE at' = at /\ at < a /\ it' = it
    <3>1. at \in 0..n
      BY <1>1, <1>6, <2>3
    <3>2. g[at] = f[at]
      BY <1>3, <2>3, <3>1
    <3> QED
      BY <1>1, <1>6, <2>3, <3>1, <3>2
  <2>4. CASE at' = at + 1 /\ a <= at /\ it' = it
    <3>1. CASE at = n + 1
      <4>1. 0 \in 0..n /\ 0 < a
        BY <1>1, <1>6
      <4>2. g[0] = f[0]
        BY <1>3, <4>1
      <4> QED
        BY <1>1, <1>6, <2>4, <3>1, <4>2
    <3>2. CASE at # n + 1
      <4>1. at \in 0..n /\ at # 0 /\ ~(at < a)
        BY <1>1, <1>6, <2>4, <3>2
      <4>2. g[at + 1] = f[at]
        BY <1>3, <4>1
      <4> QED
        BY <1>1, <1>6, <2>4, <3>2, <4>1, <4>2
    <3> QED
      BY <3>1, <3>2
  <2> QED
    BY <2>1, <2>2, <2>3, <2>4
<1> QED
  BY <1>1, <1>2, <1>3, <1>4, <1>5, <1>6, <1>7, RingLeft

(* push_back(), push_front() and insert() are insertions at a place.       *)
LEMMA InsertionsStay ==
  ASSUME LinkedInv, NEW v \in Keys, PushBack(v) \/ PushFront(v) \/ InsertHere(v)
  PROVE  LinkedInv'
<1> DEFINE n == Len(contents)
<1>1. n \in Nat /\ heap \in Heaps /\ contents \in Seq(Keys) /\ tail \in Cells \cup {NULL} /\ at \in 0..n + 1
  BY DEF LinkedInv
<1>2. /\ Append(contents, v) = Put(contents, n + 1, v)
      /\ <<v>> \o contents = Put(contents, 1, v)
      /\ \A a \in 1..n + 1 : InsertAt(contents, a, v) = Put(contents, a, v)
  BY <1>1, PutIs
<1>3. CASE tail = NULL
  <2>1. contents = <<>> /\ n = 0
    BY <1>3 DEF LinkedInv
  <2>2. CASE PushBack(v)
    <3>1. Insert(end, v) /\ contents' = Put(contents, 1, v) /\ at' = 0
      BY <1>2, <1>3, <2>1, <2>2 DEF PushBack
    <3> QED
      BY <1>3, <3>1, FirstStays
  <2>3. CASE PushFront(v)
    <3>1. Insert(begin, v) /\ contents' = Put(contents, 1, v) /\ at' = 0
      BY <1>2, <1>3, <2>1, <2>3 DEF PushFront
    <3> QED
      BY <1>3, <3>1, FirstStays
  <2>4. CASE InsertHere(v)
    <3>1. at # 0 /\ Insert(it, v) /\ contents' = InsertAt(contents, at, v) /\ at' = at /\ it' = new
      BY <2>4 DEF InsertHere
    <3>2. at = 1
      BY <1>1, <2>1, <3>1
    <3>3. contents' = Put(contents, 1, v) /\ at' = 1
      BY <1>2, <2>1, <3>1, <3>2
    <3> QED
      BY <1>3, <3>1, <3>3, FirstStays
  <2> QED
    BY <2>2, <2>3, <2>4
<1>4. CASE tail # NULL
  <2>1. PICK f : Ring(f, heap, tail, contents) /\ Pointed(f, n) /\ begin = f[After(0, n)] /\ end = f[0]
    BY <1>4, RingIs
  <2>2. CASE PushBack(v)
    <3>1. /\ Insert(end, v) /\ contents' = Put(contents, n + 1, v) /\ it' = it
          /\ at' = IF at = n + 1 THEN at + 1 ELSE at
      BY <1>2, <1>4, <2>2 DEF PushBack
    <3> DEFINE a == n + 1
    <3>2. a \in 1..n + 1 /\ (IF a = n + 1 THEN 0 ELSE a) = 0
      BY <1>1
    <3>3. (at' = at /\ at < a /\ it' = it) \/ (at' = at + 1 /\ a <= at /\ it' = it)
      BY <1>1, <3>1
    <3>4. Insert(f[IF a = n + 1 THEN 0 ELSE a], v)
      BY <2>1, <3>1, <3>2
    <3>5. contents' = Put(contents, a, v)
      BY <3>1
    <3> HIDE DEF a
    <3> QED
      BY <1>4, <2>1, <3>2, <3>3, <3>4, <3>5, InsertStays
  <2>3. CASE PushFront(v)
    <3>1. /\ Insert(begin, v) /\ contents' = Put(contents, 1, v) /\ it' = it
          /\ at' = IF at = 0 THEN 0 ELSE at + 1
      BY <1>2, <1>4, <2>3 DEF PushFront
    <3> DEFINE a == 1
    <3>2. a \in 1..n + 1 /\ (IF a = n + 1 THEN 0 ELSE a) = After(0, n)
      BY <1>1 DEF After
    <3>3. at' = 0 \/ (at' = at + 1 /\ a <= at /\ it' = it)
      BY <1>1, <3>1
    <3>4. Insert(f[IF a = n + 1 THEN 0 ELSE a], v)
      BY <2>1, <3>1, <3>2
    <3>5. contents' = Put(contents, a, v)
      BY <3>1
    <3> HIDE DEF a
    <3> QED
      BY <1>4, <2>1, <3>2, <3>3, <3>4, <3>5, InsertStays
  <2>4. CASE InsertHere(v)
    <3>1. at # 0 /\ Insert(it, v) /\ contents' = InsertAt(contents, at, v) /\ at' = at /\ it' = new
      BY <2>4 DEF InsertHere
    <3>2. at \in 1..n + 1
      BY <1>1, <3>1
    <3>3. contents' = Put(contents, at, v)
      BY <1>2, <3>1, <3>2
    <3>4. it = f[IF at = n + 1 THEN 0 ELSE at]
      BY <2>1, <3>1 DEF Pointed
    <3>5. Insert(f[IF at = n + 1 THEN 0 ELSE at], v)
      BY <3>1, <3>4
    <3> QED
      BY <1>4, <2>1, <3>1, <3>2, <3>3, <3>5, InsertStays
  <2> QED
    BY <2>2, <2>3, <2>4
<1> QED
  BY <1>1, <1>3, <1>4
-------------------------------------------------------------------------------
(* Whatever is inserted, erased, cleared and sorted, the list is its       *)
(* elements in their order, forward and back and once around, an iterator  *)
(* is at its element, and no other node is allocated (List.h:242-455).     *)
LEMMA ForwardIs ==
  ASSUME LinkedInv, tail # NULL, NEW f, Ring(f, heap, tail, contents)
  PROVE  LET n == Len(contents) IN
         /\ \A k \in 0..n : Forward[k] = f[k]
         /\ Forward[n + 1] = tail
         /\ Backward[n + 1] = tail
         /\ \A k \in 1..n : Backward[n + 1 - k] = f[k]
<1> DEFINE n == Len(contents)
           e == [k \in 0..n + 1 |-> IF k = n + 1 THEN f[0] ELSE f[k]]
           r == [k \in 0..n + 1 |-> IF k = 0 THEN f[0] ELSE f[n + 1 - k]]
<1>1. n \in Nat /\ n + 1 \in 0..MaxNodes + 1
  <2>1. contents \in Seq(Keys)
    BY DEF LinkedInv
  <2>2. n \in Nat /\ n + 1 <= MaxNodes /\ MaxNodes \in Nat
    BY <2>1, RingSize
  <2> HIDE DEF n
  <2> QED
    BY <2>2
<1>2. /\ f[0] = tail /\ \A k \in 0..n : f[k] \in Cells
      /\ \A k \in 0..n : heap[f[k]].next = f[After(k, n)] /\ heap[f[After(k, n)]].prev = f[k]
  BY DEF Ring
<1> HIDE DEF n
<1>3. e[n + 1] = f[0] /\ \A k \in 0..n : e[k] = f[k] /\ k \in 0..n + 1
  BY <1>1
<1>4. r[0] = f[0] /\ \A k \in 1..n + 1 : r[k] = f[n + 1 - k]
  BY <1>1
<1> HIDE DEF e, r
<1>5. Linked(heap, "next", n + 1, e)
  <2>1. ASSUME NEW k \in 0..n PROVE e[k] # NULL /\ heap[e[k]].next = e[k + 1]
    <3>1. e[k] = f[k] /\ f[k] # NULL /\ heap[f[k]].next = f[After(k, n)]
      BY <1>2, <1>3, NodeTypes
    <3>2. CASE k = n
      BY <1>3, <3>1, <3>2 DEF After
    <3>3. CASE k # n
      <4>1. k + 1 \in 0..n
        BY <1>1, <3>3
      <4> QED
        BY <1>3, <3>1, <3>3, <4>1 DEF After
    <3> QED
      BY <3>2, <3>3
  <2>2. (n + 1) - 1 = n
    BY <1>1
  <2> QED
    BY <2>1, <2>2 DEF Linked
<1>6. Linked(heap, "prev", n + 1, r)
  <2>1. ASSUME NEW k \in 0..n PROVE r[k] # NULL /\ heap[r[k]].prev = r[k + 1]
    <3> DEFINE j == n - k
    <3>1. j \in 0..n /\ k + 1 \in 1..n + 1 /\ n + 1 - (k + 1) = j
      BY <1>1
    <3>2. r[k + 1] = f[j]
      BY <1>4, <3>1
    <3>3. r[k] = f[After(j, n)] /\ After(j, n) \in 0..n
      <4>1. CASE k = 0
        BY <1>1, <1>4, <4>1 DEF After
      <4>2. CASE k # 0
        <5>1. k \in 1..n + 1 /\ n + 1 - k = j + 1 /\ j # n /\ j + 1 \in 0..n
          BY <1>1, <4>2
        <5>2. After(j, n) = j + 1
          BY <5>1 DEF After
        <5> QED
          BY <1>4, <5>1, <5>2
      <4> QED
        BY <4>1, <4>2
    <3> HIDE DEF j
    <3> QED
      BY <1>2, <3>1, <3>2, <3>3, NodeTypes
  <2>2. (n + 1) - 1 = n
    BY <1>1
  <2> QED
    BY <2>1, <2>2 DEF Linked
<1>7. \A k \in 0..n + 1 : Walk(heap, e[0], "next")[k] = e[k]
  BY <1>1, <1>5, WalkFollows
<1>8. \A k \in 0..n + 1 : Walk(heap, r[0], "prev")[k] = r[k]
  BY <1>1, <1>6, WalkFollows
<1>9. e[0] = tail /\ r[0] = tail /\ n + 1 \in 0..n + 1
  BY <1>1, <1>2, <1>3, <1>4
<1>10. \A k \in 0..n + 1 : Forward[k] = e[k] /\ Backward[k] = r[k]
  BY <1>7, <1>8, <1>9 DEF Forward, Backward
<1>11. \A k \in 1..n : Backward[n + 1 - k] = f[k]
  <2> TAKE k \in 1..n
  <2>1. n + 1 - k \in 1..n + 1 /\ n + 1 - k \in 0..n + 1 /\ n + 1 - (n + 1 - k) = k
    BY <1>1
  <2> QED
    BY <1>4, <1>10, <2>1
<1>12. r[n + 1] = tail
  <2>1. n + 1 \in 1..n + 1 /\ n + 1 - (n + 1) = 0
    BY <1>1
  <2> QED
    BY <1>2, <1>4, <2>1
<1> QED
  BY <1>2, <1>3, <1>9, <1>10, <1>11, <1>12 DEF n

LEMMA LinkedInvIsASequence ==
  ASSUME LinkedInv
  PROVE  IsASequence
<1> DEFINE n == Len(contents)
<1>1. sz = n /\ n \in Nat /\ DOMAIN contents = 1..n /\ at \in 0..n + 1
  BY DEF LinkedInv
<1>2. CASE tail = NULL
  BY <1>1, <1>2 DEF LinkedInv, IsASequence
<1>3. CASE tail # NULL
  <2>1. PICK f : Ring(f, heap, tail, contents) /\ Pointed(f, n)
    BY <1>3, RingIs
  <2>2. /\ \A k \in 0..n : Forward[k] = f[k]
        /\ Forward[n + 1] = tail
        /\ Backward[n + 1] = tail
        /\ \A k \in 1..n : Backward[n + 1 - k] = f[k]
    BY <1>3, <2>1, ForwardIs
  <2>3. /\ f[0] = tail /\ \A k \in 1..n : heap[f[k]].value = contents[k]
        /\ \A k \in 0..n : f[k] \in Cells
        /\ \A c \in Cells : heap[c] = Freed <=> \A k \in 0..n : c # f[k]
    BY <2>1 DEF Ring
  <2> HIDE DEF n
  <2>4. \A k \in 1..n : heap[Forward[k]].value = contents[k] /\ Backward[n + 1 - k] = Forward[k]
    <3> TAKE k \in 1..n
    <3>1. k \in 0..n
      BY <1>1
    <3> QED
      BY <2>2, <2>3, <3>1
  <2>5. {c \in Cells : heap[c] # Freed} = {Forward[k] : k \in 0..n}
    <3>1. {Forward[k] : k \in 0..n} = {f[k] : k \in 0..n}
      BY <2>2
    <3>2. \A c \in Cells : heap[c] # Freed <=> c \in {f[k] : k \in 0..n}
      BY <2>3
    <3>3. {f[k] : k \in 0..n} \subseteq Cells
      BY <2>3
    <3> QED
      BY <3>1, <3>2, <3>3
  <2>6. at # 0 => it = Forward[at]
    <3>1. CASE at = n + 1
      BY <2>1, <2>2, <2>3, <3>1 DEF Pointed
    <3>2. CASE at # n + 1
      <4>1. at \in 0..n
        BY <1>1, <3>2
      <4> QED
        BY <2>1, <2>2, <3>2, <4>1 DEF Pointed
    <3> QED
      BY <3>1, <3>2
  <2> QED
    BY <1>1, <1>3, <2>2, <2>4, <2>5, <2>6 DEF IsASequence, n
<1> QED
  BY <1>2, <1>3

THEOREM ListIsASequence == LinkedSpec => []IsASequence
<1>1. LinkedInit => LinkedInv
  <2> SUFFICES ASSUME LinkedInit PROVE LinkedInv
    OBVIOUS
  <2>1. /\ heap = [n \in {Local} \cup Cells |-> IF n = Local THEN Dummy ELSE Freed]
        /\ tail = NULL /\ sz = 0 /\ it = NULL /\ contents = <<>> /\ at = 0
    BY DEF LinkedInit
  <2>2. heap \in Heaps
    BY <2>1, NodeTypes DEF Heaps
  <2>3. \A n \in Cells : heap[n] = Freed
    BY <2>1, NodeTypes
  <2>4. contents \in Seq(Keys) /\ Len(contents) = 0
    BY <2>1
  <2> QED
    BY <2>1, <2>2, <2>3, <2>4 DEF LinkedInv
<1>2. LinkedInv /\ [LinkedNext]_linkedVars => LinkedInv'
  <2> SUFFICES ASSUME LinkedInv, [LinkedNext]_linkedVars PROVE LinkedInv'
    OBVIOUS
  <2>1. CASE Begin \/ End \/ Increment \/ Decrement
    BY <2>1, IteratorsStay
  <2>2. ASSUME NEW v \in Keys, PushBack(v) \/ PushFront(v) \/ InsertHere(v) PROVE LinkedInv'
    BY <2>2, InsertionsStay
  <2>3. CASE Erase
    BY <2>3, EraseStays
  <2>4. CASE Clear
    BY <2>4, ClearStays
  <2>5. CASE Sort
    BY <2>5, SortStays
  <2>6. CASE UNCHANGED linkedVars
    <3>1. UNCHANGED <<heap, tail, sz, it, contents, at>>
      BY <2>6 DEF linkedVars
    <3>2. heap' = heap /\ tail' = tail /\ sz' = sz /\ it' = it /\ contents' = contents /\ at' = at
      BY <3>1
    <3>3. \A f : /\ Ring(f, heap, tail, contents)' <=> Ring(f, heap, tail, contents)
                 /\ Pointed(f, Len(contents))' <=> Pointed(f, Len(contents))
      BY <3>2 DEF Pointed
    <3> QED
      BY <3>2, <3>3 DEF LinkedInv
  <2> QED
    BY <2>1, <2>2, <2>3, <2>4, <2>5, <2>6 DEF LinkedNext
<1>3. LinkedInv => IsASequence
  BY LinkedInvIsASequence
<1> QED
  BY <1>1, <1>2, <1>3, PTL DEF LinkedSpec
-------------------------------------------------------------------------------
(* What edelib keeps in memory has its type at every time: the settings, a *)
(* date that exists, and configurations with each section and key once.    *)
THEOREM InMemoryTypeCorrect == InMemorySpec => []InMemoryTypeOK
<1> DEFINE Inv == ListInv /\ DateInv /\ ResourceInv
<1>1. InMemoryInit => Inv
  BY ListInvInit, DateInvInit, ResourceInvInit DEF InMemoryInit
<1>2. Inv /\ [InMemoryNext]_inMemoryVars => Inv'
  <2> SUFFICES ASSUME Inv, [InMemoryNext]_inMemoryVars PROVE Inv'
    OBVIOUS
  <2>1. [Next]_vars /\ [DateNext]_date /\ [ResourceNext]_resourceVars
    BY DEF InMemoryNext, inMemoryVars, SettingsStep, TemplateStep, DateStep, ConfigStep
  <2>2. ListInv'
    BY <2>1, ListInvStep
  <2>3. DateInv'
    <3>1. CASE DateNext
      BY <3>1, DateInvSet, DateInvMove DEF DateNext, DateInv, DateTypeOK
    <3>2. CASE UNCHANGED date
      BY <3>2 DEF DateInv, DateTypeOK
    <3> QED
      BY <2>1, <3>1, <3>2
  <2>4. ResourceInv'
    BY <2>1, ResourceInvStep
  <2> QED
    BY <2>2, <2>3, <2>4
<1>3. Inv => InMemoryTypeOK
  BY ResourceInvType DEF InMemoryTypeOK, ListInv, DateInv
<1> HIDE DEF Inv
<1> QED
  BY <1>1, <1>2, <1>3, PTL DEF InMemorySpec
===============================================================================
