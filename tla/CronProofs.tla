----------------------------- MODULE CronProofs -----------------------------
(***************************************************************************)
(* Proofs about Cron, for all lines, starts and years, and for days and    *)
(* hours of any length.                                                    *)
(***************************************************************************)
EXTENDS Cron, TLAPS, NaturalsInduction, WellFoundedInduction

(***************************************************************************)
(* The calendar.                                                           *)
(***************************************************************************)
IsDay(y, m, d) ==
    /\ y \in Int /\ m \in 0 .. MonthsPerYear - 1
    /\ d \in 1 .. DaysIn(y, m)

LEMMA LengthOfMonth ==
    ASSUME NEW y, NEW m
    PROVE  /\ DaysIn(y, m) \in 28 .. 31
           /\ DaysIn(y, m) = 28 <=> m = 1 /\ ~IsLeap(y)
           /\ DaysIn(y, m) = 29 <=> m = 1 /\ IsLeap(y)
BY DEF DaysIn

(* The days of a year before one of its months. *)
LEMMA DaysBeforeNext ==
    ASSUME NEW y \in Int, NEW m \in 0 .. 11
    PROVE  /\ DaysBefore(y, m) \in Int
           /\ m < 11 => DaysBefore(y, m + 1) = DaysBefore(y, m) + DaysIn(y, m)
           /\ m = 11 => DaysBefore(y, m) = 334 + (IF IsLeap(y) THEN 1 ELSE 0)
           /\ m = 0 => DaysBefore(y, m) = 0
<1>1. m \in {0, 1, 2, 3, 4, 5, 6, 7, 8, 9, 10, 11}
  OBVIOUS
<1> QED
  BY <1>1 DEF DaysBefore, DaysIn

NewYear(y) == DayNumber(y, 0, 1)

LEMMA YearFollows ==
    ASSUME NEW y \in Int
    PROVE  /\ NewYear(y) \in Int
           /\ NewYear(y + 1) = NewYear(y) + 365 + (IF IsLeap(y) THEN 1 ELSE 0)
<1>1. DaysBefore(y, 0) = 0 /\ DaysBefore(y + 1, 0) = 0
  BY DaysBeforeNext
<1>2. y \div 4 = (y - 1) \div 4 + IF y % 4 = 0 THEN 1 ELSE 0
  OBVIOUS
<1>3. y \div 100 = (y - 1) \div 100 + IF y % 100 = 0 THEN 1 ELSE 0
  OBVIOUS
<1>4. y \div 400 = (y - 1) \div 400 + IF y % 400 = 0 THEN 1 ELSE 0
  OBVIOUS
<1>5. (y % 100 = 0 => y % 4 = 0) /\ (y % 400 = 0 => y % 100 = 0)
  OBVIOUS
<1> QED
  BY <1>1, <1>2, <1>3, <1>4, <1>5 DEF NewYear, DayNumber, IsLeap

LEMMA YearsGrow ==
    ASSUME NEW y \in Int, NEW z \in Int, y < z
    PROVE  NewYear(y) + 365 + (IF IsLeap(y) THEN 1 ELSE 0) <= NewYear(z)
<1>1. NewYear(y + 1) <= NewYear(z)
  <2>1. DaysBefore(y + 1, 0) = 0 /\ DaysBefore(z, 0) = 0
    BY DaysBeforeNext
  <2>2. (z - 1) \div 4 >= y \div 4 /\ (z - 1) \div 400 >= y \div 400
    OBVIOUS
  <2>3. (z - 1) \div 100 - y \div 100 <= z - 1 - y
    OBVIOUS
  <2> QED
    BY <2>1, <2>2, <2>3 DEF NewYear, DayNumber
<1> QED
  BY <1>1, YearFollows

(* A day is one of its year, by its rank in it. *)
LEMMA DayOfYear ==
    ASSUME NEW y \in Int, NEW m \in 0 .. 11, NEW d \in Int
    PROVE  /\ NewYear(y) \in Int /\ DaysBefore(y, m) \in Int
           /\ DayNumber(y, m, d) \in Int
           /\ DayNumber(y, m, d) = NewYear(y) + DaysBefore(y, m) + d - 1
<1>0. NewYear(y) \in Int
  BY YearFollows
<1>1. DaysBefore(y, m) \in Int
  BY DaysBeforeNext
<1>2. DaysBefore(y, 0) = 0
  BY DaysBeforeNext
<1> QED
  BY <1>0, <1>1, <1>2 DEF DayNumber, NewYear

LEMMA MonthsGrow ==
    ASSUME NEW y \in Int, NEW m \in 0 .. 11, NEW n \in 0 .. 11, m < n
    PROVE  DaysBefore(y, m) + DaysIn(y, m) <= DaysBefore(y, n)
<1>1. m \in {0, 1, 2, 3, 4, 5, 6, 7, 8, 9, 10, 11}
  OBVIOUS
<1>2. n \in {0, 1, 2, 3, 4, 5, 6, 7, 8, 9, 10, 11}
  OBVIOUS
<1> QED
  BY <1>1, <1>2 DEF DaysBefore, DaysIn

LEMMA WithinYear ==
    ASSUME NEW y, NEW m, NEW d, IsDay(y, m, d)
    PROVE  DayNumber(y, m, d) \in
             NewYear(y) .. NewYear(y) + 364 + (IF IsLeap(y) THEN 1 ELSE 0)
<1>1. /\ y \in Int /\ m \in 0 .. 11 /\ d \in 1 .. DaysIn(y, m)
      /\ DaysIn(y, m) \in 28 .. 31 /\ d \in Int
  BY LengthOfMonth DEF IsDay, MonthsPerYear
<1>2. /\ NewYear(y) \in Int /\ DaysBefore(y, m) \in Int
      /\ DayNumber(y, m, d) = NewYear(y) + DaysBefore(y, m) + d - 1
  BY <1>1, DayOfYear
<1>3. DaysBefore(y, m) >= 0
  <2>1. CASE m = 0
    BY <1>1, <2>1, DaysBeforeNext
  <2>2. CASE m > 0
    <3>1. DaysBefore(y, 0) = 0 /\ DaysIn(y, 0) \in 28 .. 31
      BY <1>1, DaysBeforeNext, LengthOfMonth
    <3>2. DaysBefore(y, 0) + DaysIn(y, 0) <= DaysBefore(y, m)
      BY <1>1, <2>2, MonthsGrow
    <3> QED
      BY <1>2, <3>1, <3>2
  <2> QED
    BY <1>1, <2>1, <2>2
<1>4. DaysBefore(y, m) + DaysIn(y, m) <= 365 + (IF IsLeap(y) THEN 1 ELSE 0)
  <2>1. DaysBefore(y, 11) = 334 + (IF IsLeap(y) THEN 1 ELSE 0) /\ DaysIn(y, 11) = 31
    BY <1>1, DaysBeforeNext DEF DaysIn
  <2>2. CASE m = 11
    BY <2>1, <2>2
  <2>3. CASE m < 11
    <3>1. DaysBefore(y, m) + DaysIn(y, m) <= DaysBefore(y, 11)
      BY <1>1, <2>3, MonthsGrow
    <3> QED
      BY <1>1, <1>2, <2>1, <3>1
  <2> QED
    BY <1>1, <2>2, <2>3
<1> QED
  BY <1>1, <1>2, <1>3, <1>4

(* Days are numbered in their order. *)
LEMMA DaysInOrder ==
    ASSUME NEW y, NEW m, NEW d, IsDay(y, m, d),
           NEW z, NEW n, NEW e, IsDay(z, n, e)
    PROVE  DayNumber(y, m, d) < DayNumber(z, n, e)
             <=> \/ y < z
                 \/ y = z /\ m < n
                 \/ y = z /\ m = n /\ d < e
<1>1. /\ y \in Int /\ m \in 0 .. 11 /\ d \in 1 .. DaysIn(y, m)
      /\ z \in Int /\ n \in 0 .. 11 /\ e \in 1 .. DaysIn(z, n)
      /\ DaysIn(y, m) \in 28 .. 31 /\ DaysIn(z, n) \in 28 .. 31
      /\ d \in Int /\ e \in Int
  BY LengthOfMonth DEF IsDay, MonthsPerYear
<1>2. /\ NewYear(y) \in Int /\ DaysBefore(y, m) \in Int
      /\ DayNumber(y, m, d) = NewYear(y) + DaysBefore(y, m) + d - 1
  BY <1>1, DayOfYear
<1>3. /\ NewYear(z) \in Int /\ DaysBefore(z, n) \in Int
      /\ DayNumber(z, n, e) = NewYear(z) + DaysBefore(z, n) + e - 1
  BY <1>1, DayOfYear
<1>4. CASE y # z
  <2>1. DayNumber(y, m, d) \in NewYear(y) .. NewYear(y) + 364 + (IF IsLeap(y) THEN 1 ELSE 0)
    BY WithinYear
  <2>2. DayNumber(z, n, e) \in NewYear(z) .. NewYear(z) + 364 + (IF IsLeap(z) THEN 1 ELSE 0)
    BY WithinYear
  <2>3. y < z => NewYear(y) + 365 + (IF IsLeap(y) THEN 1 ELSE 0) <= NewYear(z)
    BY <1>1, YearsGrow
  <2>4. z < y => NewYear(z) + 365 + (IF IsLeap(z) THEN 1 ELSE 0) <= NewYear(y)
    BY <1>1, YearsGrow
  <2> QED
    BY <1>1, <1>2, <1>3, <1>4, <2>1, <2>2, <2>3, <2>4
<1>5. CASE y = z /\ m # n
  <2>1. m < n => DaysBefore(y, m) + DaysIn(y, m) <= DaysBefore(y, n)
    BY <1>1, MonthsGrow
  <2>2. n < m => DaysBefore(y, n) + DaysIn(y, n) <= DaysBefore(y, m)
    BY <1>1, MonthsGrow
  <2> QED
    BY <1>1, <1>2, <1>3, <1>5, <2>1, <2>2
<1> QED
  BY <1>1, <1>2, <1>3, <1>4, <1>5

(* A day that is at most a month too late is carried to where it belongs.  *)
LEMMA CarriedDay ==
    ASSUME NEW y \in Int, NEW m \in 0 .. 11, NEW d \in 1 .. 32
    PROVE  LET date == CarryDay(y, m, d)
           IN  /\ IsDay(date.year, date.mon, date.mday)
               /\ DayNumber(date.year, date.mon, date.mday) = DayNumber(y, m, d)
               /\ d <= DaysIn(y, m) => date = [year |-> y, mon |-> m, mday |-> d]
<1>1. DaysIn(y, m) \in 28 .. 31
  BY LengthOfMonth
<1>2. CASE d <= DaysIn(y, m)
  BY <1>1, <1>2 DEF CarryDay, IsDay, MonthsPerYear
<1>3. CASE d > DaysIn(y, m) /\ m < 11
  <2>1. CarryDay(y, m, d) = [year |-> y, mon |-> m + 1, mday |-> d - DaysIn(y, m)]
    BY <1>3 DEF CarryDay
  <2>2. DaysIn(y, m + 1) \in 28 .. 31
    BY LengthOfMonth
  <2>3. DaysBefore(y, m + 1) = DaysBefore(y, m) + DaysIn(y, m) /\ DaysBefore(y, m) \in Int
    BY <1>3, DaysBeforeNext
  <2>4. DayNumber(y, m + 1, d - DaysIn(y, m)) = DayNumber(y, m, d)
    BY <1>1, <1>3, <2>3 DEF DayNumber
  <2> QED
    BY <1>1, <1>3, <2>1, <2>2, <2>4 DEF IsDay, MonthsPerYear
<1>4. CASE d > DaysIn(y, m) /\ m = 11
  <2>1. DaysIn(y, 11) = 31 /\ d = 32
    BY <1>4 DEF DaysIn
  <2>2. CarryDay(y, m, d) = [year |-> y + 1, mon |-> 0, mday |-> 1]
    BY <1>4, <2>1 DEF CarryDay
  <2>3. DaysIn(y + 1, 0) \in 28 .. 31
    BY LengthOfMonth
  <2>4. DaysBefore(y, 11) = 334 + (IF IsLeap(y) THEN 1 ELSE 0)
    BY DaysBeforeNext
  <2>5. DayNumber(y, 11, 32) = NewYear(y) + DaysBefore(y, 11) + 31
    BY DayOfYear
  <2>6. NewYear(y + 1) = DayNumber(y, 11, 32)
    BY <2>4, <2>5, YearFollows
  <2> QED
    BY <1>4, <2>1, <2>2, <2>3, <2>6 DEF IsDay, MonthsPerYear, NewYear
<1> QED
  BY <1>1, <1>2, <1>3, <1>4
-----------------------------------------------------------------------------
(***************************************************************************)
(* Times.                                                                  *)
(***************************************************************************)
IsTime(t) ==
    /\ IsDay(t.year, t.mon, t.mday)
    /\ t \in TimesOn(t.year, t.mon, t.mday)

Day(t) == DayNumber(t.year, t.mon, t.mday)

Earlier(t, u) ==
    \/ Day(t) < Day(u)
    \/ Day(t) = Day(u) /\ t.hour < u.hour
    \/ Day(t) = Day(u) /\ t.hour = u.hour /\ t.min < u.min

LEMMA TimeFields ==
    ASSUME NEW t, IsTime(t)
    PROVE  /\ t.year \in Int /\ t.mon \in 0 .. 11 /\ t.mday \in 1 .. 31
           /\ t.mday <= DaysIn(t.year, t.mon)
           /\ t.hour \in 0 .. Hours - 1 /\ t.min \in 0 .. Minutes - 1
           /\ t.wday = WeekDay(t.year, t.mon, t.mday)
           /\ Day(t) \in Int
<1>1. /\ t.year \in Int /\ t.mon \in 0 .. 11 /\ t.mday \in 1 .. DaysIn(t.year, t.mon)
      /\ t.hour \in 0 .. Hours - 1 /\ t.min \in 0 .. Minutes - 1
      /\ t.wday = WeekDay(t.year, t.mon, t.mday)
  BY DEF IsTime, IsDay, TimesOn, MonthsPerYear
<1>2. DaysIn(t.year, t.mon) \in 28 .. 31
  BY LengthOfMonth
<1>3. t.mday \in 1 .. 31 /\ t.mday <= DaysIn(t.year, t.mon) /\ t.mday \in Int
  BY <1>1, <1>2
<1>4. Day(t) \in Int
  BY <1>1, <1>3, DayOfYear DEF Day
<1> QED
  BY <1>1, <1>3, <1>4

(* A number in base n is ordered by its digits.                            *)
LEMMA DigitsInOrder ==
    ASSUME NEW n \in Nat \ {0}, NEW a \in Int, NEW b \in Int,
           NEW j \in 0 .. n - 1, NEW k \in 0 .. n - 1
    PROVE  /\ a * n + j \in Int /\ b * n + k \in Int
           /\ a * n + j < b * n + k <=> a < b \/ (a = b /\ j < k)
           /\ a * n + j = b * n + k <=> a = b /\ j = k
<1>1. a * n \in Int /\ b * n \in Int
  OBVIOUS
<1>2. a < b => a * n + n <= b * n
  <2> SUFFICES ASSUME a < b PROVE a * n + n <= b * n
    OBVIOUS
  <2>1. PICK c \in Nat : b = a + 1 + c
    <3>1. b - a - 1 \in Nat /\ b = a + 1 + (b - a - 1)
      OBVIOUS
    <3> QED
      BY <3>1
  <2>2. b * n = a * n + n + c * n /\ c * n \in Nat
    BY <2>1
  <2> QED
    BY <1>1, <2>2
<1>3. b < a => b * n + n <= a * n
  <2> SUFFICES ASSUME b < a PROVE b * n + n <= a * n
    OBVIOUS
  <2>1. PICK c \in Nat : a = b + 1 + c
    <3>1. a - b - 1 \in Nat /\ a = b + 1 + (a - b - 1)
      OBVIOUS
    <3> QED
      BY <3>1
  <2>2. a * n = b * n + n + c * n /\ c * n \in Nat
    BY <2>1
  <2> QED
    BY <1>1, <2>2
<1> QED
  BY <1>1, <1>2, <1>3

LEMMA StampsInOrder ==
    ASSUME NEW t, NEW u, IsTime(t), IsTime(u)
    PROVE  Stamp(t) < Stamp(u) <=> Earlier(t, u)
<1> DEFINE a == Day(t) * Hours + t.hour
           b == Day(u) * Hours + u.hour
<1>0. Hours \in Nat \ {0} /\ Minutes \in Nat \ {0}
  BY CronAssumption
<1>1. /\ Day(t) \in Int /\ t.hour \in 0 .. Hours - 1 /\ t.min \in 0 .. Minutes - 1
      /\ Day(u) \in Int /\ u.hour \in 0 .. Hours - 1 /\ u.min \in 0 .. Minutes - 1
  BY TimeFields
<1>2. /\ a \in Int /\ b \in Int
      /\ a < b <=> Day(t) < Day(u) \/ (Day(t) = Day(u) /\ t.hour < u.hour)
      /\ a = b <=> Day(t) = Day(u) /\ t.hour = u.hour
  BY <1>0, <1>1, DigitsInOrder
<1>3. Stamp(t) = a * Minutes + t.min /\ Stamp(u) = b * Minutes + u.min
  BY DEF Stamp, Day
<1> HIDE DEF a, b
<1>4. Stamp(t) < Stamp(u) <=> a < b \/ (a = b /\ t.min < u.min)
  BY <1>0, <1>1, <1>2, <1>3, DigitsInOrder
<1> QED
  BY <1>2, <1>4 DEF Earlier

(* Only the last of the numbers up to n is carried.                        *)
LEMMA CarryOf ==
    ASSUME NEW n \in Nat \ {0}, NEW k \in 0 .. n
    PROVE  /\ k \div n = IF k = n THEN 1 ELSE 0
           /\ k % n = IF k = n THEN 0 ELSE k
<1>1. CASE k = n
  <2>1. /\ n \div n \in Int /\ n % n \in 0 .. n - 1
        /\ n = (n \div n) * n + (n % n)
    OBVIOUS
  <2>2. 1 * n + 0 = (n \div n) * n + (n % n)
    BY <2>1
  <2>3. n \div n = 1 /\ n % n = 0
    <3> DEFINE q == n \div n  r == n % n
    <3>1. q \in Int /\ r \in 0 .. n - 1 /\ 1 * n + 0 = q * n + r /\ 0 \in 0 .. n - 1
      BY <2>1, <2>2
    <3> HIDE DEF q, r
    <3>2. 1 = q /\ 0 = r
      BY <3>1, DigitsInOrder
    <3> QED
      BY <3>2 DEF q, r
  <2> QED
    BY <1>1, <2>3
<1>2. CASE k # n
  <2> DEFINE q == k \div n  r == k % n
  <2>1. q \in Int /\ r \in 0 .. n - 1 /\ 0 * n + k = q * n + r /\ k \in 0 .. n - 1
    BY <1>2
  <2> HIDE DEF q, r
  <2>2. 0 = q /\ k = r
    BY <2>1, DigitsInOrder
  <2> QED
    BY <1>2, <2>2 DEF q, r
<1> QED
  BY <1>1, <1>2
-----------------------------------------------------------------------------
(***************************************************************************)
(* What mktime makes of a time of which hour and minute are at most one    *)
(* too large, and the day at most a month.                                 *)
(***************************************************************************)
LEMMA Normalised ==
    ASSUME NEW t, t.year \in Int, t.mon \in 0 .. 11, t.mday \in 1 .. 32,
           t.hour \in 0 .. Hours, t.min \in 0 .. Minutes,
           t.min = Minutes => t.hour < Hours,
           t.min = Minutes \/ t.hour = Hours => t.mday \in 1 .. 31
    PROVE  LET u == Normal(t)
               h == IF t.min = Minutes THEN t.hour + 1 ELSE t.hour
               d == IF h = Hours THEN t.mday + 1 ELSE t.mday
           IN  /\ IsTime(u)
               /\ Day(u) = DayNumber(t.year, t.mon, d)
               /\ d <= DaysIn(t.year, t.mon)
                    => u.year = t.year /\ u.mon = t.mon /\ u.mday = d
               /\ u.hour = IF h = Hours THEN 0 ELSE h
               /\ u.min = IF t.min = Minutes THEN 0 ELSE t.min
<1> DEFINE u == Normal(t)
           h == IF t.min = Minutes THEN t.hour + 1 ELSE t.hour
           d == IF h = Hours THEN t.mday + 1 ELSE t.mday
           date == CarryDay(t.year, t.mon, d)
<1>0. Hours \in Nat \ {0} /\ Minutes \in Nat \ {0}
  BY CronAssumption
<1>1. /\ t.hour + t.min \div Minutes = h
      /\ t.min % Minutes = IF t.min = Minutes THEN 0 ELSE t.min
  <2>1. /\ t.min \div Minutes = IF t.min = Minutes THEN 1 ELSE 0
        /\ t.min % Minutes = IF t.min = Minutes THEN 0 ELSE t.min
    BY <1>0, CarryOf
  <2> QED
    BY <1>0, <2>1
<1>2. h \in 0 .. Hours
  BY <1>0
<1>3. t.mday + h \div Hours = d /\ h % Hours = IF h = Hours THEN 0 ELSE h
  <2> HIDE DEF h
  <2>1. /\ h \div Hours = IF h = Hours THEN 1 ELSE 0
        /\ h % Hours = IF h = Hours THEN 0 ELSE h
    BY <1>0, <1>2, CarryOf
  <2> QED
    BY <1>0, <2>1
<1>4. d \in 1 .. 32
  BY <1>0
<1> HIDE DEF h, d
<1>5. /\ IsDay(date.year, date.mon, date.mday)
      /\ DayNumber(date.year, date.mon, date.mday) = DayNumber(t.year, t.mon, d)
      /\ d <= DaysIn(t.year, t.mon) => date = [year |-> t.year, mon |-> t.mon, mday |-> d]
  BY <1>4, CarriedDay
<1>6. CarryMonth(t.year, t.mon, d) = date
  BY DEF CarryMonth, MonthsPerYear
<1> HIDE DEF date
<1>7. u = [year |-> date.year, mon |-> date.mon, mday |-> date.mday,
           hour |-> h % Hours, min |-> t.min % Minutes,
           wday |-> WeekDay(date.year, date.mon, date.mday)]
  BY <1>1, <1>3, <1>6 DEF Normal
<1> HIDE DEF u
<1>8. h % Hours \in 0 .. Hours - 1 /\ t.min % Minutes \in 0 .. Minutes - 1
  BY <1>0, <1>1, <1>2, <1>3
<1>9. IsTime(u)
  <2>1. u \in TimesOn(u.year, u.mon, u.mday)
    BY <1>7, <1>8 DEF TimesOn
  <2> QED
    BY <1>5, <1>7, <2>1 DEF IsTime
<1>10. Day(u) = DayNumber(t.year, t.mon, d)
  BY <1>5, <1>7 DEF Day
<1>11. /\ d <= DaysIn(t.year, t.mon) => u.year = t.year /\ u.mon = t.mon /\ u.mday = d
       /\ u.hour = IF h = Hours THEN 0 ELSE h
       /\ u.min = IF t.min = Minutes THEN 0 ELSE t.min
  BY <1>1, <1>3, <1>5, <1>7
<1> QED
  BY <1>9, <1>10, <1>11 DEF u, h, d

LEMMA NormalTime ==
    ASSUME NEW t, IsTime(t)
    PROVE  Normal(t) = t
<1> DEFINE u == Normal(t)
<1>1. /\ t.year \in Int /\ t.mon \in 0 .. 11 /\ t.mday \in 1 .. 31
      /\ t.mday <= DaysIn(t.year, t.mon)
      /\ t.hour \in 0 .. Hours - 1 /\ t.min \in 0 .. Minutes - 1
  BY TimeFields
<1>2. Hours \in Nat \ {0} /\ Minutes \in Nat \ {0}
  BY CronAssumption
<1>3. /\ t.mday \in 1 .. 32 /\ t.hour \in 0 .. Hours /\ t.min \in 0 .. Minutes
      /\ t.min # Minutes /\ t.hour # Hours
  BY <1>1, <1>2
<1>4. /\ IsTime(u) /\ u.year = t.year /\ u.mon = t.mon /\ u.mday = t.mday
      /\ u.hour = t.hour /\ u.min = t.min
  BY <1>1, <1>3, Normalised
<1> HIDE DEF u
<1>5. /\ t \in TimesOn(t.year, t.mon, t.mday)
      /\ u \in TimesOn(t.year, t.mon, t.mday)
  BY <1>4 DEF IsTime
<1>6. u = t
  BY <1>4, <1>5 DEF TimesOn
<1> QED
  BY <1>6 DEF u

(* Day 0 of a month is the last of the month before.                       *)
LEMMA BackToLastOfMonth ==
    ASSUME NEW t, t.year \in Int, t.mon \in 1 .. 12, t.mday = 0,
           t.hour = 0, t.min = 0
    PROVE  LET u == Normal(t)
           IN  /\ IsTime(u)
               /\ u.year = t.year /\ u.mon = t.mon - 1
               /\ u.hour = 0 /\ u.min = 0
<1> DEFINE u == Normal(t)
           n == DaysIn(t.year, t.mon - 1)
<1>0. Hours \in Nat \ {0} /\ Minutes \in Nat \ {0}
  BY CronAssumption
<1>1. 0 \div Minutes = 0 /\ 0 % Minutes = 0 /\ 0 \div Hours = 0 /\ 0 % Hours = 0
  <2>1. 0 \in 0 .. Minutes /\ 0 # Minutes /\ 0 \in 0 .. Hours /\ 0 # Hours
    BY <1>0
  <2> QED
    BY <1>0, <2>1, CarryOf
<1>2. n \in 28 .. 31
  BY LengthOfMonth
<1>3. CarryMonth(t.year, t.mon, 0) = [year |-> t.year, mon |-> t.mon - 1, mday |-> n]
  <2>1. CASE t.mon = 12
    <3>1. n = 31 /\ t.mon - 1 = 11 /\ t.year + 1 - 1 = t.year
      BY <2>1 DEF DaysIn
    <3>2. CarryMonth(t.year, t.mon, 0) = CarryDay(t.year + 1, 0, 0)
      BY <2>1 DEF CarryMonth, MonthsPerYear
    <3>3. DaysIn(t.year + 1, 0) \in 28 .. 31
      BY LengthOfMonth
    <3>4. CarryDay(t.year + 1, 0, 0) = [year |-> t.year + 1 - 1, mon |-> 11, mday |-> 31]
      BY <3>3 DEF CarryDay
    <3> HIDE DEF n
    <3> QED
      BY <3>1, <3>2, <3>4
  <2>2. CASE t.mon < 12
    <3>1. CarryMonth(t.year, t.mon, 0) = CarryDay(t.year, t.mon, 0)
      BY <2>2 DEF CarryMonth, MonthsPerYear
    <3>2. DaysIn(t.year, t.mon) \in 28 .. 31 /\ t.mon \in 1 .. 11
      BY <2>2, LengthOfMonth
    <3>3. CarryDay(t.year, t.mon, 0) = [year |-> t.year, mon |-> t.mon - 1, mday |-> n]
      BY <3>2 DEF CarryDay
    <3> QED
      BY <3>1, <3>3
  <2> QED
    BY <2>1, <2>2
<1>4. t.hour + t.min \div Minutes = 0
  BY <1>1
<1>5. u = [year |-> t.year, mon |-> t.mon - 1, mday |-> n, hour |-> 0, min |-> 0,
           wday |-> WeekDay(t.year, t.mon - 1, n)]
  BY <1>1, <1>3, <1>4 DEF Normal
<1> HIDE DEF u
<1>6. IsDay(u.year, u.mon, u.mday)
  BY <1>2, <1>5 DEF IsDay, MonthsPerYear
<1>7. u \in TimesOn(u.year, u.mon, u.mday)
  BY <1>0, <1>5 DEF TimesOn
<1> QED
  BY <1>5, <1>6, <1>7 DEF IsTime, u
-----------------------------------------------------------------------------
(***************************************************************************)
(* lookup goes to the next number of the field, or one on if there is none.*)
(***************************************************************************)
LEMMA LookupNext ==
    ASSUME NEW max \in Nat, NEW field \in SUBSET (0 .. max - 1),
           NEW v \in Nat, v <= max, v \notin field
    PROVE  /\ Lookup(field, v, max) \in v + 1 .. max + 1
           /\ Lookup(field, v, max) \in field \/ Lookup(field, v, max) = v + 1
           /\ \A i \in field : i < v \/ Lookup(field, v, max) <= i
           /\ Lookup(field, v, max) = max + 1 => v = max
<1> DEFINE later == {i \in v + 1 .. max - 1 : i \in field}
           L == Lookup(field, v, max)
<1>1. CASE later = {}
  <2>1. L = v + 1
    BY <1>1 DEF Lookup
  <2>2. \A i \in field : i < v
    <3> SUFFICES ASSUME NEW i \in field, i >= v PROVE FALSE
      OBVIOUS
    <3>1. i \in v + 1 .. max - 1
      OBVIOUS
    <3> QED
      BY <1>1, <3>1
  <2> HIDE DEF L
  <2> QED
    BY <2>1, <2>2 DEF L
<1>2. CASE later # {}
  <2>1. later \in SUBSET Nat
    OBVIOUS
  <2>2. PICK i \in later : \A j \in later : i <= j
    <3>1. PICK i \in later : \A j \in later : ~ (<<j, i>> \in OpToRel(<, Nat))
      BY <1>2, <2>1, NatLessThanWellFounded, WFMin
    <3>2. \A j \in later : ~ (j < i)
      BY <2>1, <3>1 DEF OpToRel
    <3> QED
      BY <2>1, <3>2
  <2>3. L = CHOOSE k \in later : \A j \in later : k <= j
    BY <1>2 DEF Lookup
  <2>4. L \in later /\ \A j \in later : L <= j
    BY <2>2, <2>3
  <2> HIDE DEF L
  <2>5. \A j \in field : j < v \/ L <= j
    <3> SUFFICES ASSUME NEW j \in field, j >= v PROVE L <= j
      BY <2>4
    <3>1. j \in v + 1 .. max - 1
      OBVIOUS
    <3> QED
      BY <2>4, <3>1
  <2> QED
    BY <2>4, <2>5 DEF L
<1> QED
  BY <1>1, <1>2

Fields(s) ==
    /\ DOMAIN s = {"min", "hour", "dom", "mon", "dow"}
    /\ s.min \in SUBSET (0 .. Minutes - 1) /\ s.hour \in SUBSET (0 .. Hours - 1)
    /\ s.dom \in SUBSET (0 .. DomMax - 1) /\ s.mon \in SUBSET (0 .. MonthsPerYear - 1)
    /\ s.dow \in SUBSET (0 .. DaysPerWeek - 1)

LEMMA ParsedFields ==
    ASSUME NEW line \in Lines
    PROVE  Fields(Parse(line))
<1>1. ASSUME NEW ranges \in {line.min, line.hour, line.dom, line.mon, line.dow},
             NEW max \in Nat
      PROVE  ParseField(ranges, max) \in SUBSET (0 .. max - 1)
  <2> SUFFICES ASSUME NEW i \in ParseField(ranges, max) PROVE i \in 0 .. max - 1
    OBVIOUS
  <2>1. PICK r \in ranges : i \in r.from .. r.to /\ i < max
    BY DEF ParseField
  <2>2. r.from \in Nat
    BY InputAssumption
  <2> QED
    BY <2>1, <2>2
<1>2. Hours \in Nat /\ Minutes \in Nat
  BY CronAssumption
<1>3. Parse(line).min \in SUBSET (0 .. Minutes - 1)
  BY <1>1, <1>2 DEF Parse
<1>4. Parse(line).hour \in SUBSET (0 .. Hours - 1)
  BY <1>1, <1>2 DEF Parse
<1>5. Parse(line).dom \in SUBSET (0 .. DomMax - 1)
  BY <1>1 DEF Parse, DomMax
<1>6. Parse(line).mon \in SUBSET (0 .. MonthsPerYear - 1)
  BY <1>1 DEF Parse, MonthsPerYear
<1>7. Parse(line).dow \in SUBSET (0 .. DaysPerWeek - 1)
  BY <1>1 DEF Parse, DaysPerWeek
<1>8. DOMAIN Parse(line) = {"min", "hour", "dom", "mon", "dow"}
  BY DEF Parse
<1> QED
  BY <1>3, <1>4, <1>5, <1>6, <1>7, <1>8 DEF Fields

(* Two times that are not one before the other are the same.               *)
LEMMA SameTime ==
    ASSUME NEW t, NEW u, IsTime(t), IsTime(u), ~Earlier(t, u), ~Earlier(u, t)
    PROVE  t = u
<1>0. Hours \in Nat \ {0} /\ Minutes \in Nat \ {0}
  BY CronAssumption
<1>1. /\ Day(t) \in Int /\ t.hour \in 0 .. Hours - 1 /\ t.min \in 0 .. Minutes - 1
      /\ Day(u) \in Int /\ u.hour \in 0 .. Hours - 1 /\ u.min \in 0 .. Minutes - 1
      /\ t.year \in Int /\ t.mon \in 0 .. 11 /\ t.mday \in 1 .. 31
      /\ u.year \in Int /\ u.mon \in 0 .. 11 /\ u.mday \in 1 .. 31
  BY TimeFields
<1>2. Day(t) = Day(u) /\ t.hour = u.hour /\ t.min = u.min
  BY <1>0, <1>1 DEF Earlier
<1>3. /\ IsDay(t.year, t.mon, t.mday) /\ IsDay(u.year, u.mon, u.mday)
      /\ t \in TimesOn(t.year, t.mon, t.mday) /\ u \in TimesOn(u.year, u.mon, u.mday)
  BY DEF IsTime
<1>4. ~(Day(t) < Day(u)) /\ ~(Day(u) < Day(t))
  BY <1>1, <1>2
<1>5. t.year = u.year /\ t.mon = u.mon /\ t.mday = u.mday
  <2>1. ~(Day(t) < Day(u)) => ~(\/ t.year < u.year
                                \/ t.year = u.year /\ t.mon < u.mon
                                \/ t.year = u.year /\ t.mon = u.mon /\ t.mday < u.mday)
    BY <1>3, DaysInOrder DEF Day
  <2>2. ~(Day(u) < Day(t)) => ~(\/ u.year < t.year
                                \/ u.year = t.year /\ u.mon < t.mon
                                \/ u.year = t.year /\ u.mon = t.mon /\ u.mday < t.mday)
    BY <1>3, DaysInOrder DEF Day
  <2> QED
    BY <1>1, <1>4, <2>1, <2>2
<1> QED
  BY <1>2, <1>3, <1>5 DEF TimesOn
-----------------------------------------------------------------------------
(***************************************************************************)
(* What one turn of the walk does, for each field that does not agree.     *)
(***************************************************************************)
InRange(t) ==
    /\ t.mon \in 0 .. MonthsPerYear /\ t.mday \in 0 .. DomMax + 1
    /\ t.hour \in 0 .. Hours /\ t.min \in 0 .. Minutes

(* From t up to u, times agree only behind February.                       *)
PassesOver(t, u) ==
    \A x : IsTime(x) /\ Agrees(x) /\ ~Earlier(x, t) /\ Earlier(x, u) => BehindFebruary(x)

(* A time not before t and before midnight of day u is on a day in between.*)
LEMMA DaysPassed ==
    ASSUME NEW t, NEW x, IsTime(t), IsTime(x), ~Earlier(x, t)
    PROVE  /\ Day(t) <= Day(x)
           /\ \/ t.year < x.year
              \/ t.year = x.year /\ t.mon < x.mon
              \/ t.year = x.year /\ t.mon = x.mon /\ t.mday <= x.mday
<1>1. /\ Day(t) \in Int /\ t.year \in Int /\ t.mon \in 0 .. 11 /\ t.mday \in 1 .. 31
      /\ Day(x) \in Int /\ x.year \in Int /\ x.mon \in 0 .. 11 /\ x.mday \in 1 .. 31
  BY TimeFields
<1>2. IsDay(t.year, t.mon, t.mday) /\ IsDay(x.year, x.mon, x.mday)
  BY DEF IsTime
<1>3. Day(x) < Day(t) <=> \/ x.year < t.year
                          \/ x.year = t.year /\ x.mon < t.mon
                          \/ x.year = t.year /\ x.mon = t.mon /\ x.mday < t.mday
  BY <1>2, DaysInOrder DEF Day
<1>4. ~(Day(x) < Day(t))
  BY DEF Earlier
<1> QED
  BY <1>1, <1>3, <1>4

LEMMA BeforeMidnight ==
    ASSUME NEW u, NEW x, IsTime(x), Day(u) \in Int, u.hour = 0, u.min = 0, Earlier(x, u)
    PROVE  Day(x) < Day(u)
<1>1. Day(x) \in Int /\ x.hour \in 0 .. Hours - 1 /\ x.min \in 0 .. Minutes - 1
  BY TimeFields
<1> QED
  BY <1>1 DEF Earlier

LEMMA NextDay ==
    ASSUME NEW y \in Int, NEW m \in 0 .. 11, NEW d \in Int
    PROVE  DayNumber(y, m, d + 1) = DayNumber(y, m, d) + 1
<1>1. /\ NewYear(y) \in Int /\ DaysBefore(y, m) \in Int
      /\ DayNumber(y, m, d) = NewYear(y) + DaysBefore(y, m) + d - 1
  BY DayOfYear
<1>2. d + 1 \in Int
  OBVIOUS
<1>3. DayNumber(y, m, d + 1) = NewYear(y) + DaysBefore(y, m) + (d + 1) - 1
  BY <1>2, DayOfYear
<1> QED
  BY <1>1, <1>3

(* A time whose minute is moved up, to the hour's end at most.             *)
LEMMA MinuteMoved ==
    ASSUME NEW t, IsTime(t), NEW k \in 1 .. Minutes
    PROVE  LET s == [t EXCEPT !.min = k]
               u == Normal(s)
           IN  /\ IsTime(u) /\ InRange(s)
               /\ k < Minutes => Day(u) = Day(t) /\ u.hour = t.hour /\ u.min = k
               /\ k = Minutes /\ t.hour + 1 < Hours
                    => Day(u) = Day(t) /\ u.hour = t.hour + 1 /\ u.min = 0
               /\ k = Minutes /\ t.hour + 1 = Hours
                    => Day(u) = Day(t) + 1 /\ u.hour = 0 /\ u.min = 0
<1> DEFINE s == [t EXCEPT !.min = k]
           u == Normal(s)
           h == IF s.min = Minutes THEN s.hour + 1 ELSE s.hour
<1>0. Hours \in Nat \ {0} /\ Minutes \in Nat \ {0}
  BY CronAssumption
<1>1. /\ t.year \in Int /\ t.mon \in 0 .. 11 /\ t.mday \in 1 .. 31
      /\ t.hour \in 0 .. Hours - 1 /\ Day(t) \in Int
  BY TimeFields
<1>2. /\ s.year = t.year /\ s.mon = t.mon /\ s.mday = t.mday /\ s.hour = t.hour
      /\ s.min = k
  <2>1. DOMAIN t = {"year", "mon", "mday", "wday", "hour", "min"}
    BY DEF IsTime, TimesOn
  <2> QED
    BY <2>1
<1> HIDE DEF s
<1>3. /\ s.mday \in 1 .. 31 /\ s.mday \in 1 .. 32 /\ s.hour \in 0 .. Hours
      /\ s.min \in 0 .. Minutes /\ s.hour < Hours
      /\ s.year \in Int /\ s.mon \in 0 .. 11
  BY <1>0, <1>1, <1>2
<1>4. /\ IsTime(u) /\ u.hour = (IF h = Hours THEN 0 ELSE h)
      /\ u.min = IF s.min = Minutes THEN 0 ELSE s.min
      /\ Day(u) = DayNumber(s.year, s.mon, IF h = Hours THEN s.mday + 1 ELSE s.mday)
  BY <1>3, Normalised
<1>5. DayNumber(t.year, t.mon, t.mday + 1) = Day(t) + 1
  <2>1. t.mday \in Int
    BY <1>1
  <2> QED
    BY <1>1, <2>1, NextDay DEF Day
<1> HIDE DEF u
<1>6. InRange(s)
  BY <1>0, <1>3, <1>1, <1>2 DEF InRange, MonthsPerYear, DomMax
<1>7. k < Minutes => Day(u) = Day(t) /\ u.hour = t.hour /\ u.min = k
  BY <1>0, <1>1, <1>2, <1>4 DEF Day
<1>8. k = Minutes /\ t.hour + 1 < Hours => Day(u) = Day(t) /\ u.hour = t.hour + 1 /\ u.min = 0
  BY <1>0, <1>1, <1>2, <1>4 DEF Day
<1>9. k = Minutes /\ t.hour + 1 = Hours => Day(u) = Day(t) + 1 /\ u.hour = 0 /\ u.min = 0
  BY <1>0, <1>1, <1>2, <1>4, <1>5
<1> QED
  BY <1>4, <1>6, <1>7, <1>8, <1>9 DEF u, s

LEMMA MonthStep ==
    ASSUME NEW t, IsTime(t), Fields(spec), t.mon \notin spec.mon
    PROVE  LET u == Normal(Step(t))
           IN  /\ IsTime(u) /\ InRange(Step(t))
               /\ u.mon \notin spec.mon
               /\ PassesOver(t, u)
<1> DEFINE L == Lookup(spec.mon, t.mon, MonthsPerYear)
           s == Step(t)
           u == Normal(s)
<1>1. /\ t.year \in Int /\ t.mon \in 0 .. 11 /\ t.mday \in 1 .. 31
      /\ spec.mon \in SUBSET (0 .. 11)
  BY TimeFields DEF Fields, MonthsPerYear
<1>2. /\ L \in t.mon + 1 .. 12
      /\ \A i \in spec.mon : i < t.mon \/ L <= i
  <2>1. t.mon \in Nat /\ t.mon <= 12 /\ 12 \in Nat /\ t.mon # 12 /\ spec.mon \in SUBSET (0 .. 12 - 1)
    BY <1>1
  <2>2. /\ Lookup(spec.mon, t.mon, 12) \in t.mon + 1 .. 12 + 1
        /\ Lookup(spec.mon, t.mon, 12) # 12 + 1
        /\ \A i \in spec.mon : i < t.mon \/ Lookup(spec.mon, t.mon, 12) <= i
    BY <2>1, LookupNext
  <2> QED
    BY <2>1, <2>2 DEF MonthsPerYear
<1> HIDE DEF L
<1>3. /\ s.year = t.year /\ s.mon = L /\ s.mday = 0 /\ s.hour = 0 /\ s.min = 0
  <2>1. s = [t EXCEPT !.mon = L, !.mday = 0, !.wday = 0, !.hour = 0, !.min = 0]
    BY DEF Step, L
  <2>2. DOMAIN t = {"year", "mon", "mday", "wday", "hour", "min"}
    BY DEF IsTime, TimesOn
  <2> QED
    BY <2>1, <2>2
<1> HIDE DEF s
<1>4. /\ IsTime(u) /\ u.year = t.year /\ u.mon = L - 1 /\ u.hour = 0 /\ u.min = 0
  BY <1>1, <1>2, <1>3, BackToLastOfMonth
<1> HIDE DEF u
<1>5. u.mon \notin spec.mon
  BY <1>1, <1>2, <1>4
<1>6. InRange(s)
  BY <1>1, <1>2, <1>3, CronAssumption DEF InRange, MonthsPerYear, DomMax
<1>7. ASSUME NEW x, IsTime(x), Agrees(x), ~Earlier(x, t), Earlier(x, u)
      PROVE  FALSE
  <2>1. /\ x.year \in Int /\ x.mon \in 0 .. 11 /\ x.mday \in 1 .. 31
        /\ Day(u) \in Int /\ u.mday \in 1 .. 31
    BY <1>4, <1>7, TimeFields
  <2>2. Day(x) < Day(u)
    BY <1>4, <1>7, <2>1, BeforeMidnight
  <2>3. x.year < u.year \/ (x.year = u.year /\ x.mon <= u.mon)
    <3>1. IsDay(x.year, x.mon, x.mday) /\ IsDay(u.year, u.mon, u.mday)
      BY <1>4, <1>7 DEF IsTime
    <3>2. DayNumber(x.year, x.mon, x.mday) < DayNumber(u.year, u.mon, u.mday)
            <=> \/ x.year < u.year
                \/ x.year = u.year /\ x.mon < u.mon
                \/ x.year = u.year /\ x.mon = u.mon /\ x.mday < u.mday
      BY <3>1, DaysInOrder
    <3> QED
      BY <1>1, <1>2, <1>4, <2>1, <2>2, <3>2 DEF Day
  <2>4. x.year > t.year \/ (x.year = t.year /\ t.mon <= x.mon)
    BY <1>1, <1>7, <2>1, DaysPassed
  <2>5. x.mon \in t.mon .. L - 1
    BY <1>1, <1>2, <1>4, <2>1, <2>3, <2>4
  <2>6. x.mon \in spec.mon
    BY <1>7 DEF Agrees
  <2> QED
    BY <1>1, <1>2, <2>5, <2>6
<1> QED
  BY <1>4, <1>5, <1>6, <1>7 DEF PassesOver, u, s

LEMMA DayStep ==
    ASSUME NEW t, IsTime(t), Fields(spec), t.mon \in spec.mon, t.mday \notin spec.dom
    PROVE  LET u == Normal(Step(t))
           IN  /\ IsTime(u) /\ InRange(Step(t))
               /\ Earlier(t, u)
               /\ PassesOver(t, u)
<1> DEFINE L == Lookup(spec.dom, t.mday, DomMax)
           n == DaysIn(t.year, t.mon)
           s == Step(t)
           u == Normal(s)
<1>1. /\ t.year \in Int /\ t.mon \in 0 .. 11 /\ t.mday \in 1 .. 31
      /\ t.mday <= n /\ n \in 28 .. 31
      /\ spec.dom \in SUBSET (0 .. 30)
  BY TimeFields, LengthOfMonth DEF Fields, DomMax
<1>2. /\ L \in t.mday + 1 .. 32
      /\ L \in spec.dom \/ L = t.mday + 1
      /\ \A i \in spec.dom : i < t.mday \/ L <= i
  <2>1. t.mday \in Nat /\ t.mday <= 31 /\ 31 \in Nat /\ spec.dom \in SUBSET (0 .. 31 - 1)
    BY <1>1
  <2>2. /\ Lookup(spec.dom, t.mday, 31) \in t.mday + 1 .. 31 + 1
        /\ Lookup(spec.dom, t.mday, 31) \in spec.dom \/ Lookup(spec.dom, t.mday, 31) = t.mday + 1
        /\ \A i \in spec.dom : i < t.mday \/ Lookup(spec.dom, t.mday, 31) <= i
    BY <2>1, LookupNext
  <2> QED
    BY <2>1, <2>2 DEF DomMax
<1> HIDE DEF L, n
<1>3. /\ s.year = t.year /\ s.mon = t.mon /\ s.mday = L /\ s.hour = 0 /\ s.min = 0
  <2>1. s = [t EXCEPT !.mday = L, !.hour = 0, !.min = 0]
    BY DEF Step, L
  <2>2. DOMAIN t = {"year", "mon", "mday", "wday", "hour", "min"}
    BY DEF IsTime, TimesOn
  <2> QED
    BY <2>1, <2>2
<1> HIDE DEF s
<1>0. Hours \in Nat \ {0} /\ Minutes \in Nat \ {0}
  BY CronAssumption
<1>4. /\ IsTime(u) /\ Day(u) = DayNumber(t.year, t.mon, L)
      /\ u.hour = 0 /\ u.min = 0 /\ Day(u) \in Int
  <2>1. /\ s.mday \in 1 .. 32 /\ s.hour \in 0 .. Hours /\ s.min \in 0 .. Minutes
        /\ s.min # Minutes /\ s.hour # Hours /\ s.year \in Int /\ s.mon \in 0 .. 11
    BY <1>0, <1>1, <1>2, <1>3
  <2>2. /\ IsTime(u) /\ Day(u) = DayNumber(s.year, s.mon, s.mday)
        /\ u.hour = 0 /\ u.min = 0
    BY <1>3, <2>1, Normalised
  <2> HIDE DEF u
  <2> QED
    BY <1>3, <2>2, TimeFields
<1> HIDE DEF u
<1>5. InRange(s)
  BY <1>0, <1>1, <1>2, <1>3 DEF InRange, MonthsPerYear, DomMax
<1>6. ASSUME NEW d \in Int
      PROVE  /\ DayNumber(t.year, t.mon, d) \in Int
             /\ DayNumber(t.year, t.mon, d) = Day(t) - t.mday + d
             /\ Day(t) \in Int
  <2>1. t.mday \in Int
    BY <1>1
  <2>2. /\ NewYear(t.year) \in Int /\ DaysBefore(t.year, t.mon) \in Int
        /\ DayNumber(t.year, t.mon, d) = NewYear(t.year) + DaysBefore(t.year, t.mon) + d - 1
    BY <1>1, <1>6, DayOfYear
  <2>3. DayNumber(t.year, t.mon, t.mday) = NewYear(t.year) + DaysBefore(t.year, t.mon) + t.mday - 1
    BY <1>1, <2>1, DayOfYear
  <2> QED
    BY <1>6, <2>1, <2>2, <2>3 DEF Day
<1>7. Earlier(t, u)
  BY <1>1, <1>2, <1>4, <1>6 DEF Earlier
<1>8. ASSUME NEW x, IsTime(x), Agrees(x), ~Earlier(x, t), Earlier(x, u)
      PROVE  BehindFebruary(x)
  <2>1. /\ x.year \in Int /\ x.mon \in 0 .. 11 /\ x.mday \in 1 .. 31 /\ Day(x) \in Int
        /\ IsDay(x.year, x.mon, x.mday)
    BY <1>8, TimeFields DEF IsTime
  <2>2. Day(x) < DayNumber(t.year, t.mon, L)
    BY <1>4, <1>8, BeforeMidnight
  <2>3. \/ t.year < x.year
        \/ t.year = x.year /\ t.mon < x.mon
        \/ t.year = x.year /\ t.mon = x.mon /\ t.mday <= x.mday
    BY <1>8, DaysPassed
  <2>4. x.mday \in spec.dom
    BY <1>8 DEF Agrees
  <2>5. CASE L <= n + 1
    <3>1. DayNumber(t.year, t.mon, L) = DayNumber(t.year, t.mon, L - 1) + 1
      <4>1. L \in Int /\ L - 1 \in Int /\ t.mday \in Int
        BY <1>1, <1>2
      <4>2. /\ DayNumber(t.year, t.mon, L) = Day(t) - t.mday + L
            /\ DayNumber(t.year, t.mon, L - 1) = Day(t) - t.mday + (L - 1)
            /\ Day(t) \in Int
        BY <4>1, <1>6
      <4> HIDE DEF Day
      <4> QED
        BY <4>1, <4>2
    <3>2. ~(DayNumber(t.year, t.mon, L - 1) < Day(x))
      BY <1>1, <1>2, <1>6, <2>1, <2>2, <3>1
    <3>3. IsDay(t.year, t.mon, L - 1)
      BY <1>1, <1>2, <2>5 DEF IsDay, MonthsPerYear, n
    <3>4. ~(\/ t.year < x.year
            \/ t.year = x.year /\ t.mon < x.mon
            \/ t.year = x.year /\ t.mon = x.mon /\ L - 1 < x.mday)
      BY <2>1, <3>2, <3>3, DaysInOrder DEF Day
    <3>5. x.mday \in t.mday .. L - 1
      BY <1>1, <1>2, <2>1, <2>3, <3>4
    <3> QED
      BY <1>1, <1>2, <2>4, <3>5
  <2>6. CASE L > n + 1
    <3>1. L \in spec.dom /\ L <= 30
      BY <1>1, <1>2, <2>6
    <3>2. n = 28 /\ L = 30
      BY <1>1, <1>2, <2>6, <3>1
    <3>3. t.mon = 1 /\ ~IsLeap(t.year)
      BY <3>2, LengthOfMonth DEF n
    <3>4. spec.dom \cap {28, 29, 30} = {30}
      BY <1>1, <1>2, <3>1, <3>2
    <3>5. IsDay(t.year, 2, 2) /\ DayNumber(t.year, 2, 2) = DayNumber(t.year, 1, 30)
      <4>1. DaysIn(t.year, 2) = 31 /\ DaysIn(t.year, 1) = 28
        BY <3>3, <3>2 DEF DaysIn
      <4>2. /\ DaysBefore(t.year, 1) \in Int
            /\ DaysBefore(t.year, 2) = DaysBefore(t.year, 1) + 28
        <5>1. 1 \in 0 .. 11 /\ 1 < 11 /\ 1 + 1 = 2
          OBVIOUS
        <5>2. /\ DaysBefore(t.year, 1) \in Int
              /\ DaysBefore(t.year, 1 + 1) = DaysBefore(t.year, 1) + DaysIn(t.year, 1)
          BY <1>1, <5>1, DaysBeforeNext
        <5> QED
          BY <4>1, <5>1, <5>2
      <4>3. DayNumber(t.year, 2, 2) = DayNumber(t.year, 1, 30)
        BY <1>1, <4>2 DEF DayNumber
      <4> QED
        BY <1>1, <4>1, <4>3 DEF IsDay, MonthsPerYear
    <3>6. \/ x.year < t.year
          \/ x.year = t.year /\ x.mon < 2
          \/ x.year = t.year /\ x.mon = 2 /\ x.mday < 2
      BY <2>1, <2>2, <3>2, <3>3, <3>5, DaysInOrder DEF Day
    <3>7. CASE x.mon = 1
      <4>1. x.year = t.year
        BY <1>1, <2>1, <2>3, <3>3, <3>6, <3>7
      <4>2. x.mday <= 28
        BY <2>1, <3>2, <3>3, <3>7, <4>1 DEF IsDay, n
      <4>3. t.mday <= x.mday
        BY <1>1, <2>1, <2>3, <3>3, <3>7, <4>1
      <4> QED
        BY <1>1, <1>2, <2>1, <2>4, <3>2, <4>2, <4>3
    <3>8. CASE x.mon # 1
      <4>1. x.year = t.year /\ x.mon = 2 /\ x.mday = 1
        BY <1>1, <2>1, <2>3, <3>3, <3>6, <3>8
      <4> QED
        BY <3>3, <3>4, <4>1 DEF BehindFebruary
    <3> QED
      BY <3>7, <3>8
  <2> QED
    BY <1>1, <1>2, <2>5, <2>6
<1> QED
  BY <1>4, <1>5, <1>7, <1>8 DEF PassesOver, u, s

(* The day of the week is not carried: mktime computes it anew.            *)
LEMMA WeekdayStep ==
    ASSUME NEW t, IsTime(t), Fields(spec),
           t.mon \in spec.mon, t.mday \in spec.dom, t.wday \notin spec.dow
    PROVE  LET u == Normal(Step(t))
           IN  /\ IsTime(u) /\ InRange(Step(t))
               /\ u.mday \in spec.dom /\ u.wday \notin spec.dow
               /\ PassesOver(t, u)
<1> DEFINE s == Step(t)
           u == Normal(s)
<1>0. Hours \in Nat \ {0} /\ Minutes \in Nat \ {0}
  BY CronAssumption
<1>1. /\ t.year \in Int /\ t.mon \in 0 .. 11 /\ t.mday \in 1 .. 31
      /\ t.mday <= DaysIn(t.year, t.mon)
      /\ t.wday = WeekDay(t.year, t.mon, t.mday)
  BY TimeFields
<1>2. /\ s.year = t.year /\ s.mon = t.mon /\ s.mday = t.mday /\ s.hour = 0 /\ s.min = 0
  <2>1. s = [t EXCEPT !.wday = Lookup(spec.dow, t.wday, DaysPerWeek), !.hour = 0, !.min = 0]
    BY DEF Step
  <2>2. DOMAIN t = {"year", "mon", "mday", "wday", "hour", "min"}
    BY DEF IsTime, TimesOn
  <2> QED
    BY <2>1, <2>2
<1> HIDE DEF s
<1>3. /\ IsTime(u) /\ u.year = t.year /\ u.mon = t.mon /\ u.mday = t.mday
      /\ u.hour = 0 /\ u.min = 0
  <2>1. /\ s.mday \in 1 .. 32 /\ s.hour \in 0 .. Hours /\ s.min \in 0 .. Minutes
        /\ s.min # Minutes /\ s.hour # Hours /\ s.year \in Int /\ s.mon \in 0 .. 11
        /\ s.mday <= DaysIn(s.year, s.mon)
    BY <1>0, <1>1, <1>2
  <2> QED
    BY <1>2, <2>1, Normalised
<1> HIDE DEF u
<1>4. u.wday = t.wday
  BY <1>1, <1>3, TimeFields
<1>5. InRange(s)
  BY <1>0, <1>1, <1>2 DEF InRange, MonthsPerYear, DomMax
<1>6. ASSUME NEW x, IsTime(x), ~Earlier(x, t), Earlier(x, u)
      PROVE  FALSE
  <2>1. Day(u) \in Int /\ Day(t) \in Int /\ Day(u) = Day(t) /\ Day(x) \in Int
    BY <1>3, <1>6, TimeFields DEF Day
  <2>2. Day(x) < Day(u)
    BY <1>3, <1>6, <2>1, BeforeMidnight
  <2>3. Day(t) <= Day(x)
    BY <1>6, DaysPassed
  <2> QED
    BY <2>1, <2>2, <2>3
<1> QED
  BY <1>3, <1>4, <1>5, <1>6 DEF PassesOver, u, s

LEMMA HourStep ==
    ASSUME NEW t, IsTime(t), Fields(spec),
           t.mon \in spec.mon, t.mday \in spec.dom, t.wday \in spec.dow,
           t.hour \notin spec.hour
    PROVE  LET u == Normal(Step(t))
           IN  /\ IsTime(u) /\ InRange(Step(t))
               /\ Earlier(t, u)
               /\ PassesOver(t, u)
<1> DEFINE L == Lookup(spec.hour, t.hour, Hours)
           s == Step(t)
           u == Normal(s)
<1>0. Hours \in Nat \ {0} /\ Minutes \in Nat \ {0}
  BY CronAssumption
<1>1. /\ t.year \in Int /\ t.mon \in 0 .. 11 /\ t.mday \in 1 .. 31
      /\ t.mday <= DaysIn(t.year, t.mon)
      /\ t.hour \in 0 .. Hours - 1 /\ t.min \in 0 .. Minutes - 1 /\ Day(t) \in Int
      /\ spec.hour \in SUBSET (0 .. Hours - 1)
  BY TimeFields DEF Fields
<1>2. /\ L \in t.hour + 1 .. Hours
      /\ \A i \in spec.hour : i < t.hour \/ L <= i
  <2>1. t.hour \in Nat /\ t.hour <= Hours /\ t.hour # Hours /\ Hours \in Nat
    BY <1>0, <1>1
  <2>2. /\ L \in t.hour + 1 .. Hours + 1 /\ L # Hours + 1
        /\ \A i \in spec.hour : i < t.hour \/ L <= i
    BY <1>1, <2>1, LookupNext
  <2> QED
    BY <2>1, <2>2
<1> HIDE DEF L
<1>3. /\ s.year = t.year /\ s.mon = t.mon /\ s.mday = t.mday /\ s.hour = L /\ s.min = 0
  <2>1. s = [t EXCEPT !.hour = L, !.min = 0]
    BY DEF Step, L
  <2>2. DOMAIN t = {"year", "mon", "mday", "wday", "hour", "min"}
    BY DEF IsTime, TimesOn
  <2> QED
    BY <2>1, <2>2
<1> HIDE DEF s
<1>4. /\ IsTime(u) /\ u.min = 0
      /\ u.hour = IF L = Hours THEN 0 ELSE L
      /\ Day(u) = IF L = Hours THEN Day(t) + 1 ELSE Day(t)
  <2>1. /\ s.mday \in 1 .. 31 /\ s.mday \in 1 .. 32 /\ s.hour \in 0 .. Hours
        /\ s.min \in 0 .. Minutes
        /\ s.min # Minutes /\ s.year \in Int /\ s.mon \in 0 .. 11
    BY <1>0, <1>1, <1>2, <1>3
  <2>2. /\ IsTime(u) /\ u.min = 0 /\ u.hour = IF L = Hours THEN 0 ELSE L
        /\ Day(u) = DayNumber(s.year, s.mon, IF L = Hours THEN s.mday + 1 ELSE s.mday)
    BY <1>3, <2>1, Normalised
  <2>3. t.mday \in Int
    BY <1>1
  <2>4. DayNumber(t.year, t.mon, t.mday + 1) = Day(t) + 1
    BY <1>1, <2>3, NextDay DEF Day
  <2> QED
    BY <1>3, <2>2, <2>4 DEF Day
<1> HIDE DEF u
<1>5. InRange(s)
  BY <1>0, <1>1, <1>2, <1>3 DEF InRange, MonthsPerYear, DomMax
<1>6. Earlier(t, u)
  BY <1>0, <1>1, <1>2, <1>4 DEF Earlier
<1>7. ASSUME NEW x, IsTime(x), Agrees(x), ~Earlier(x, t), Earlier(x, u)
      PROVE  FALSE
  <2>1. /\ Day(x) \in Int /\ x.hour \in 0 .. Hours - 1 /\ x.min \in 0 .. Minutes - 1
    BY <1>7, TimeFields
  <2>2. x.hour \in spec.hour
    BY <1>7 DEF Agrees
  <2>3. Day(x) = Day(t) /\ t.hour <= x.hour
    BY <1>0, <1>1, <1>2, <1>4, <1>7, <2>1 DEF Earlier
  <2>4. x.hour < L
    BY <1>0, <1>1, <1>2, <1>4, <1>7, <2>1, <2>3 DEF Earlier
  <2> QED
    BY <1>1, <1>2, <2>1, <2>2, <2>3, <2>4
<1> QED
  BY <1>4, <1>5, <1>6, <1>7 DEF PassesOver, u, s

LEMMA MinuteStep ==
    ASSUME NEW t, IsTime(t), Fields(spec),
           t.mon \in spec.mon, t.mday \in spec.dom, t.wday \in spec.dow,
           t.hour \in spec.hour, t.min \notin spec.min
    PROVE  LET u == Normal(Step(t))
           IN  /\ IsTime(u) /\ InRange(Step(t))
               /\ Earlier(t, u)
               /\ PassesOver(t, u)
<1> DEFINE L == Lookup(spec.min, t.min, Minutes)
           s == Step(t)
           u == Normal(s)
<1>0. Hours \in Nat \ {0} /\ Minutes \in Nat \ {0}
  BY CronAssumption
<1>1. /\ t.hour \in 0 .. Hours - 1 /\ t.min \in 0 .. Minutes - 1
      /\ spec.min \in SUBSET (0 .. Minutes - 1)
  BY TimeFields DEF Fields
<1>2. /\ L \in t.min + 1 .. Minutes
      /\ \A i \in spec.min : i < t.min \/ L <= i
  <2>1. t.min \in Nat /\ t.min <= Minutes /\ t.min # Minutes /\ Minutes \in Nat
    BY <1>0, <1>1
  <2>2. /\ L \in t.min + 1 .. Minutes + 1 /\ L # Minutes + 1
        /\ \A i \in spec.min : i < t.min \/ L <= i
    BY <1>1, <2>1, LookupNext
  <2> QED
    BY <2>1, <2>2
<1> HIDE DEF L
<1>3. s = [t EXCEPT !.min = L]
  BY DEF Step, L
<1> HIDE DEF s
<1>4. L \in 1 .. Minutes
  BY <1>1, <1>2
<1>5. /\ IsTime(u) /\ InRange(s)
      /\ L < Minutes => Day(u) = Day(t) /\ u.hour = t.hour /\ u.min = L
      /\ L = Minutes /\ t.hour + 1 < Hours => Day(u) = Day(t) /\ u.hour = t.hour + 1 /\ u.min = 0
      /\ L = Minutes /\ t.hour + 1 = Hours => Day(u) = Day(t) + 1 /\ u.hour = 0 /\ u.min = 0
  BY <1>3, <1>4, MinuteMoved
<1> HIDE DEF u
<1>6. Day(t) \in Int
  BY TimeFields
<1>7. Earlier(t, u)
  BY <1>0, <1>1, <1>2, <1>5, <1>6 DEF Earlier
<1>8. ASSUME NEW x, IsTime(x), Agrees(x), ~Earlier(x, t), Earlier(x, u)
      PROVE  FALSE
  <2>1. /\ Day(x) \in Int /\ x.hour \in 0 .. Hours - 1 /\ x.min \in 0 .. Minutes - 1
    BY <1>8, TimeFields
  <2>2. x.min \in spec.min
    BY <1>8 DEF Agrees
  <2>3. Day(x) = Day(t) /\ t.hour = x.hour /\ t.min <= x.min
    BY <1>0, <1>1, <1>2, <1>5, <1>6, <1>8, <2>1 DEF Earlier
  <2>4. x.min < L
    BY <1>0, <1>1, <1>2, <1>5, <1>6, <1>8, <2>1, <2>3 DEF Earlier
  <2> QED
    BY <1>1, <1>2, <2>1, <2>2, <2>3, <2>4
<1> QED
  BY <1>5, <1>7, <1>8 DEF PassesOver, u, s

(* A turn of the walk at a time that does not agree: it stands still, or   *)
(* goes on, and passes over nothing but a 1 March behind February.         *)
LEMMA StepEffect ==
    ASSUME NEW t, IsTime(t), Fields(spec), ~Agrees(t)
    PROVE  LET u == Normal(Step(t))
               still == t.mon \notin spec.mon \/ (t.mday \in spec.dom /\ t.wday \notin spec.dow)
           IN  /\ IsTime(u) /\ InRange(Step(t))
               /\ PassesOver(t, u)
               /\ still => u.mon \notin spec.mon \/ (u.mday \in spec.dom /\ u.wday \notin spec.dow)
               /\ still \/ Earlier(t, u)
<1>1. CASE t.mon \notin spec.mon
  BY <1>1, MonthStep
<1>2. CASE t.mon \in spec.mon /\ t.mday \notin spec.dom
  BY <1>2, DayStep
<1>3. CASE t.mon \in spec.mon /\ t.mday \in spec.dom /\ t.wday \notin spec.dow
  BY <1>3, WeekdayStep
<1>4. CASE /\ t.mon \in spec.mon /\ t.mday \in spec.dom /\ t.wday \in spec.dow
           /\ t.hour \notin spec.hour
  BY <1>4, HourStep
<1>5. CASE /\ t.mon \in spec.mon /\ t.mday \in spec.dom /\ t.wday \in spec.dow
           /\ t.hour \in spec.hour
  <2>1. t.min \notin spec.min
    BY <1>5 DEF Agrees
  <2> QED
    BY <1>5, <2>1, MinuteStep
<1> QED
  BY <1>1, <1>2, <1>3, <1>4, <1>5
-----------------------------------------------------------------------------
(***************************************************************************)
(* The inductive invariant.                                                *)
(***************************************************************************)
WalkInv ==
    /\ Fields(spec) /\ IsTime(start) /\ done \in BOOLEAN
    /\ InRange(tm) /\ IsTime(Normal(tm))
    /\ \A x : IsTime(x) /\ Agrees(x) /\ Earlier(start, x) /\ Earlier(x, Normal(tm))
                => BehindFebruary(x)
    /\ done => IsTime(tm) /\ Agrees(tm)
    /\ StandsStill \/ Earlier(start, Normal(tm))

LEMMA EarlierTransitive ==
    ASSUME NEW s, NEW t, NEW u, IsTime(s), IsTime(t), IsTime(u),
           Earlier(s, t), Earlier(t, u)
    PROVE  Earlier(s, u)
<1>1. /\ Day(s) \in Int /\ s.hour \in 0 .. Hours - 1 /\ s.min \in 0 .. Minutes - 1
      /\ Day(t) \in Int /\ t.hour \in 0 .. Hours - 1 /\ t.min \in 0 .. Minutes - 1
      /\ Day(u) \in Int /\ u.hour \in 0 .. Hours - 1 /\ u.min \in 0 .. Minutes - 1
  BY TimeFields
<1> HIDE DEF Day
<1> QED
  BY <1>1, CronAssumption DEF Earlier

LEMMA WalkInvInit ==
    Init => WalkInv
<1> SUFFICES ASSUME Init PROVE WalkInv
  OBVIOUS
<1>0. Hours \in Nat \ {0} /\ Minutes \in Nat \ {0}
  BY CronAssumption
<1>1. Fields(spec)
  BY ParsedFields DEF Init
<1>2. PICK date \in Starts, h \in 0 .. Hours - 1, m \in 0 .. Minutes - 1 :
        start = Normal([year |-> date.year, mon |-> date.mon, mday |-> date.mday,
                        hour |-> h, min |-> m])
  BY DEF Init
<1> DEFINE now == [year |-> date.year, mon |-> date.mon, mday |-> date.mday,
                   hour |-> h, min |-> m]
<1>3. IsTime(start)
  <2>1. /\ date.year \in Int /\ date.mon \in 0 .. 11
        /\ date.mday \in 1 .. DaysIn(date.year, date.mon)
    BY InputAssumption DEF MonthsPerYear
  <2>2. date.mday \in 1 .. 31
    BY <2>1, LengthOfMonth
  <2>3. /\ now.year \in Int /\ now.mon \in 0 .. 11 /\ now.mday \in 1 .. 32
        /\ now.hour \in 0 .. Hours /\ now.min \in 0 .. Minutes
        /\ now.min # Minutes /\ now.hour # Hours
    BY <1>0, <2>1, <2>2
  <2> HIDE DEF now
  <2>4. IsTime(Normal(now))
    BY <2>3, Normalised
  <2> QED
    BY <1>2, <2>4 DEF now
<1>4. /\ start.hour \in 0 .. Hours - 1 /\ start.min \in 0 .. Minutes - 1
      /\ Day(start) \in Int
  BY <1>3, TimeFields
<1> DEFINE k == start.min + 1
           u == Normal([start EXCEPT !.min = k])
<1>5. tm = [start EXCEPT !.min = k]
  BY DEF Init
<1>6. k \in 1 .. Minutes
  BY <1>0, <1>4
<1>7. k = start.min + 1
  OBVIOUS
<1> HIDE DEF k
<1>8. /\ IsTime(u) /\ InRange(tm)
      /\ k < Minutes => Day(u) = Day(start) /\ u.hour = start.hour /\ u.min = k
      /\ k = Minutes /\ start.hour + 1 < Hours
           => Day(u) = Day(start) /\ u.hour = start.hour + 1 /\ u.min = 0
      /\ k = Minutes /\ start.hour + 1 = Hours
           => Day(u) = Day(start) + 1 /\ u.hour = 0 /\ u.min = 0
  BY <1>3, <1>5, <1>6, MinuteMoved
<1>9. u = Normal(tm)
  BY <1>5
<1> HIDE DEF u
<1>10. Earlier(start, Normal(tm))
  BY <1>0, <1>4, <1>6, <1>7, <1>8, <1>9 DEF Earlier
<1>11. ASSUME NEW x, IsTime(x), Earlier(start, x), Earlier(x, Normal(tm))
       PROVE  FALSE
  <2>1. /\ Day(x) \in Int /\ x.hour \in 0 .. Hours - 1 /\ x.min \in 0 .. Minutes - 1
    BY <1>11, TimeFields
  <2> QED
    BY <1>0, <1>4, <1>6, <1>7, <1>8, <1>9, <1>11, <2>1 DEF Earlier
<1>12. done = FALSE
  BY DEF Init
<1> QED
  BY <1>1, <1>3, <1>8, <1>9, <1>10, <1>11, <1>12 DEF WalkInv

LEMMA WalkInvNext ==
    WalkInv /\ [Next]_vars => WalkInv'
<1> SUFFICES ASSUME WalkInv, [Next]_vars PROVE WalkInv'
  OBVIOUS
<1> DEFINE t == Normal(tm)
<1>1. CASE UNCHANGED vars
  <2>1. spec' = spec /\ start' = start /\ tm' = tm /\ done' = done
    BY <1>1 DEF vars
  <2>2. \A x : Agrees(x)' <=> Agrees(x)
    BY <2>1 DEF Agrees
  <2>3. \A x : BehindFebruary(x)' <=> BehindFebruary(x)
    BY <2>1 DEF BehindFebruary
  <2>4. StandsStill' <=> StandsStill
    BY <2>1 DEF StandsStill
  <2> QED
    BY <2>1, <2>2, <2>3, <2>4 DEF WalkInv
<1>2. CASE Iterate
  <2> DEFINE u == Normal(tm')
  <2>1. /\ IsTime(t) /\ Fields(spec) /\ spec' = spec /\ start' = start /\ ~done
        /\ IsTime(start)
    BY <1>2 DEF Iterate, WalkInv
  <2>2. \A x : Agrees(x)' <=> Agrees(x)
    BY <2>1 DEF Agrees
  <2>3. \A x : BehindFebruary(x)' <=> BehindFebruary(x)
    BY <2>1 DEF BehindFebruary
  <2>4. /\ IsTime(u) /\ InRange(tm')
        /\ PassesOver(t, u)
        /\ done' \in BOOLEAN
        /\ done' => tm' = t /\ Agrees(t)
        /\ StandsStill => StandsStill'
        /\ StandsStill' \/ t = u \/ Earlier(t, u)
    <3>1. CASE Agrees(t)
      <4>1. tm' = t /\ done' = TRUE
        BY <1>2, <3>1 DEF Iterate
      <4>2. u = t
        BY <2>1, <4>1, NormalTime
      <4>3. InRange(t)
        BY <2>1, TimeFields, CronAssumption DEF InRange, MonthsPerYear, DomMax
      <4>4. ~StandsStill
        BY <3>1 DEF StandsStill, Agrees
      <4>5. PassesOver(t, t)
        BY DEF PassesOver
      <4> HIDE DEF t, u
      <4> QED
        BY <2>1, <3>1, <4>1, <4>2, <4>3, <4>4, <4>5
    <3>2. CASE ~Agrees(t)
      <4>1. tm' = Step(t) /\ done' = FALSE
        BY <1>2, <3>2 DEF Iterate
      <4>2. /\ StandsStill <=> t.mon \notin spec.mon \/ (t.mday \in spec.dom /\ t.wday \notin spec.dow)
            /\ StandsStill' <=> u.mon \notin spec.mon \/ (u.mday \in spec.dom /\ u.wday \notin spec.dow)
        BY <2>1 DEF StandsStill
      <4>3. u = Normal(Step(t))
        BY <4>1
      <4> HIDE DEF t, u
      <4> QED
        BY <2>1, <3>2, <4>1, <4>2, <4>3, StepEffect
    <3> QED
      BY <3>1, <3>2
  <2> HIDE DEF u
  <2>5. ASSUME NEW x, IsTime(x), Agrees(x), Earlier(start, x), Earlier(x, u)
        PROVE  BehindFebruary(x)
    <3>1. CASE Earlier(x, t)
      BY <2>5, <3>1 DEF WalkInv
    <3>2. CASE ~Earlier(x, t)
      BY <2>4, <2>5, <3>2 DEF PassesOver
    <3> QED
      BY <3>1, <3>2
  <2>6. StandsStill' \/ Earlier(start, u)
    <3> SUFFICES ASSUME ~StandsStill' PROVE Earlier(start, u)
      OBVIOUS
    <3>1. ~StandsStill /\ Earlier(start, t)
      BY <2>4 DEF WalkInv
    <3>2. t = u \/ Earlier(t, u)
      BY <2>4
    <3> HIDE DEF t
    <3> QED
      BY <2>1, <2>4, <3>1, <3>2, EarlierTransitive
  <2>7. Normal(tm)' = u
    BY DEF u
  <2> HIDE DEF t
  <2> QED
    BY <2>1, <2>2, <2>3, <2>4, <2>5, <2>6, <2>7 DEF WalkInv
<1> QED
  BY <1>1, <1>2 DEF Next
-----------------------------------------------------------------------------
(***************************************************************************)
(* The theorems.                                                           *)
(***************************************************************************)
THEOREM WalkAlways ==
    Spec => []WalkInv
BY WalkInvInit, WalkInvNext, PTL DEF Spec

(* A walk keeps to the calendar: months, days, hours and minutes stay      *)
(* within what mktime is to carry.                                         *)
THEOREM WalkTypeCorrect ==
    Spec => []TypeOK
<1>1. WalkInv => TypeOK
  BY DEF WalkInv, TypeOK, Fields, InRange, IsTime
<1> QED
  BY <1>1, WalkAlways, PTL

(* next passes over no time the line names, for any line and any start,    *)
(* but a 1 March that it takes for 30 February.                            *)
THEOREM NoTimeSkipped ==
    Spec => []NothingSkipped
<1>1. WalkInv => NothingSkipped
  <2> SUFFICES ASSUME WalkInv, NEW x \in Skipped PROVE BehindFebruary(x)
    BY DEF NothingSkipped
  <2> DEFINE here == Normal(tm)
  <2>0. IsTime(here) /\ IsTime(start)
    BY DEF WalkInv
  <2>1. PICK date \in DaysBetween(start, here) :
          /\ x \in TimesOn(date.year, date.mon, date.mday)
          /\ Agrees(x) /\ Stamp(start) < Stamp(x) /\ Stamp(x) < Stamp(here)
    BY DEF Skipped
  <2> HIDE DEF here
  <2>2. /\ date.year \in start.year .. here.year
        /\ date.mon \in 0 .. MonthsPerYear - 1 /\ date.mday \in 1 .. DomMax
        /\ date.mday <= DaysIn(date.year, date.mon)
    BY <2>1 DEF DaysBetween
  <2>3. IsDay(date.year, date.mon, date.mday)
    BY <2>0, <2>2, TimeFields, LengthOfMonth DEF IsDay
  <2>4. /\ x.year = date.year /\ x.mon = date.mon /\ x.mday = date.mday
    BY <2>1 DEF TimesOn
  <2>5. IsTime(x)
    BY <2>1, <2>3, <2>4 DEF IsTime
  <2>6. Earlier(start, x) /\ Earlier(x, here)
    BY <2>0, <2>1, <2>5, StampsInOrder
  <2> QED
    BY <2>1, <2>5, <2>6 DEF WalkInv, here
<1> QED
  BY <1>1, WalkAlways, PTL

(* What next yields is a time that agrees with the line, after now.        *)
THEOREM YieldsAgreeingTime ==
    Spec => []Yielded
<1>1. WalkInv => Yielded
  <2> SUFFICES ASSUME WalkInv, done PROVE Agrees(tm) /\ Stamp(tm) > Stamp(start)
    BY DEF Yielded
  <2>1. IsTime(tm) /\ Agrees(tm) /\ IsTime(start)
    BY DEF WalkInv
  <2>2. Normal(tm) = tm
    BY <2>1, NormalTime
  <2>3. ~StandsStill
    BY <2>1, <2>2 DEF StandsStill, Agrees
  <2>4. Earlier(start, tm)
    BY <2>2, <2>3 DEF WalkInv
  <2>5. Stamp(start) < Stamp(tm)
    BY <2>1, <2>4, StampsInOrder
  <2> QED
    BY <2>1, <2>5
<1> QED
  BY <1>1, WalkAlways, PTL

(* A walk that stands still never ends, whatever the line and the start:   *)
(* next does not return.                                                   *)
THEOREM StandsStillForever ==
    Spec => StillForever
<1>1. WalkInv /\ [Next]_vars => (StandsStill => StandsStill' /\ ~done') \/ UNCHANGED vars
  <2> SUFFICES ASSUME WalkInv, Iterate, StandsStill PROVE StandsStill' /\ ~done'
    BY DEF Next
  <2> DEFINE t == Normal(tm)
             u == Normal(tm')
  <2>1. /\ IsTime(t) /\ Fields(spec) /\ spec' = spec
    BY DEF Iterate, WalkInv
  <2>2. ~Agrees(t)
    BY DEF StandsStill, Agrees
  <2>3. tm' = Step(t) /\ done' = FALSE
    BY <2>2 DEF Iterate
  <2>4. /\ StandsStill <=> t.mon \notin spec.mon \/ (t.mday \in spec.dom /\ t.wday \notin spec.dow)
        /\ StandsStill' <=> u.mon \notin spec.mon \/ (u.mday \in spec.dom /\ u.wday \notin spec.dow)
    BY <2>1 DEF StandsStill
  <2>5. u = Normal(Step(t))
    BY <2>3
  <2> HIDE DEF t, u
  <2> QED
    BY <2>1, <2>2, <2>3, <2>4, <2>5, StepEffect
<1> QED
  BY <1>1, WalkAlways, PTL DEF Spec, StillForever
=============================================================================
