-------------------------------- MODULE Cron --------------------------------
(***************************************************************************)
(* When a project is due: src/src/common/cron.  The parser turns the five  *)
(* fields of a cron line into sets of numbers (the bit fields of the code) *)
(* and `next' walks a broken-down time forward until all five agree.  Each *)
(* turn of its loop is a step here.                                        *)
(*                                                                         *)
(* Times are local, without daylight saving; mktime and the calendar are   *)
(* the C library's.  Fields count as in struct tm: months from 0, days of  *)
(* the month from 1, days of the week from 0 (Sunday).                     *)
(***************************************************************************)
EXTENDS Integers, Sequences, FiniteSets

CONSTANTS
    Hours, Minutes,  \* per day, per hour: 24 and 60 in the code
    Years,           \* bound: the years the walk may visit
    Lines,           \* cron lines to parse
    Starts           \* dates [year, mon, mday] the walk starts from

ASSUME CronAssumption ==
    /\ {Hours, Minutes} \subseteq Nat \ {0}
    /\ Years \subseteq Nat /\ Years # {}

-----------------------------------------------------------------------------
(***************************************************************************)
(* Parsing.  A field is a list of ranges [from, to, step]; "*" is the one  *)
(* from 0 to as far as the field goes.  What reaches `max' has no bit.     *)
(***************************************************************************)
Star(step, max) == {[from |-> 0, to |-> max - 1, step |-> step]}

ParseField(ranges, max) ==
    UNION {{i \in r.from .. r.to : i < max /\ (i - r.from) % r.step = 0} : r \in ranges}

MonthsPerYear == 12
DaysPerWeek == 7
DomMax == 31

Parse(line) ==
    [min  |-> ParseField(line.min, Minutes),
     hour |-> ParseField(line.hour, Hours),
     dom  |-> ParseField(line.dom, DomMax),
     mon  |-> ParseField(line.mon, MonthsPerYear),
     dow  |-> ParseField(line.dow, DaysPerWeek)]
-----------------------------------------------------------------------------
(***************************************************************************)
(* The calendar.                                                           *)
(***************************************************************************)
IsLeap(y) == y % 4 = 0 /\ (y % 100 # 0 \/ y % 400 = 0)

DaysIn(y, m) ==
    CASE m = 1 -> IF IsLeap(y) THEN 29 ELSE 28
      [] m \in {3, 5, 8, 10} -> 30
      [] OTHER -> 31

DaysBefore(y, m) ==
    <<0, 31, 59, 90, 120, 151, 181, 212, 243, 273, 304, 334>>[m + 1]
        + (IF m > 1 /\ IsLeap(y) THEN 1 ELSE 0)

(* Days since 1 January of year 1, a Monday. *)
DayNumber(y, m, d) ==
    LET z == y - 1
    IN  365 * z + z \div 4 - z \div 100 + z \div 400 + DaysBefore(y, m) + d - 1

WeekDay(y, m, d) == (DayNumber(y, m, d) + 1) % DaysPerWeek

(* Bring a date whose day is at most a month off back into the calendar. *)
CarryDay(y, m, d) ==
    CASE d < 1 /\ m = 0 -> [year |-> y - 1, mon |-> 11, mday |-> 31]
      [] d < 1 /\ m > 0 -> [year |-> y, mon |-> m - 1, mday |-> DaysIn(y, m - 1)]
      [] d > DaysIn(y, m) /\ m = 11 ->
            [year |-> y + 1, mon |-> 0, mday |-> d - 31]
      [] d > DaysIn(y, m) /\ m < 11 ->
            [year |-> y, mon |-> m + 1, mday |-> d - DaysIn(y, m)]
      [] OTHER -> [year |-> y, mon |-> m, mday |-> d]

CarryMonth(y, m, d) ==
    IF m = MonthsPerYear THEN CarryDay(y + 1, 0, d) ELSE CarryDay(y, m, d)

(* mktime, then localtime: carry every field that is too large; the day of *)
(* the week is an output only.                                             *)
Normal(t) ==
    LET hour == t.hour + t.min \div Minutes
        date == CarryMonth(t.year, t.mon, t.mday + hour \div Hours)
    IN  [year |-> date.year, mon |-> date.mon, mday |-> date.mday,
         hour |-> hour % Hours, min |-> t.min % Minutes,
         wday |-> WeekDay(date.year, date.mon, date.mday)]

(* The minute's rank, to compare times. *)
Stamp(t) == (DayNumber(t.year, t.mon, t.mday) * Hours + t.hour) * Minutes + t.min
-----------------------------------------------------------------------------
(* Numbers are not negative, and `time' yields a day that exists.          *)
ASSUME InputAssumption ==
    /\ \A line \in Lines :
         \A ranges \in {line.min, line.hour, line.dom, line.mon, line.dow} :
           \A r \in ranges : r.from \in Nat
    /\ \A date \in Starts :
         /\ date.year \in Nat /\ date.mon \in 0 .. MonthsPerYear - 1
         /\ date.mday \in 1 .. DaysIn(date.year, date.mon)

VARIABLES
    spec,   \* the five sets
    start,  \* the current minute, as next was called
    tm,     \* the walk
    done

vars == <<spec, start, tm, done>>

(* Mutant: the walk starts at the current minute.                          *)
InitNow ==
    /\ spec \in {Parse(line) : line \in Lines}
    /\ \E date \in Starts, h \in 0 .. Hours - 1, m \in 0 .. Minutes - 1 :
          start = Normal([year |-> date.year, mon |-> date.mon, mday |-> date.mday,
                          hour |-> h, min |-> m])
    /\ tm = start
    /\ done = FALSE

Init ==
    /\ spec \in {Parse(line) : line \in Lines}
    /\ \E date \in Starts, h \in 0 .. Hours - 1, m \in 0 .. Minutes - 1 :
          start = Normal([year |-> date.year, mon |-> date.mon, mday |-> date.mday,
                          hour |-> h, min |-> m])
    /\ tm = [start EXCEPT !.min = @ + 1]
    /\ done = FALSE

(* Mutants: the value two further, or the same one, when no bit is left.   *)
LookupTwoOn(field, v, max) ==
    LET later == {i \in v + 1 .. max - 1 : i \in field}
    IN  CASE v \in field -> v
          [] v \notin field /\ later = {} -> v + 2
          [] OTHER -> CHOOSE i \in later : \A j \in later : i <= j

LookupStays(field, v, max) ==
    LET later == {i \in v + 1 .. max - 1 : i \in field}
    IN  IF v \in field \/ later = {} THEN v
        ELSE CHOOSE i \in later : \A j \in later : i <= j

(***************************************************************************)
(* lookup: the value if its bit is set, else the next one that is, else    *)
(* the one after it.  Only the first is a success.                         *)
(***************************************************************************)
Lookup(field, v, max) ==
    LET later == {i \in v + 1 .. max - 1 : i \in field}
    IN  CASE v \in field -> v
          [] v \notin field /\ later = {} -> v + 1
          [] OTHER -> CHOOSE i \in later : \A j \in later : i <= j

(* Mutant: the time of day is kept when the day changes.                   *)
StepKeepsTime(t) ==
    CASE t.mon \notin spec.mon ->
            [t EXCEPT !.mon = Lookup(spec.mon, @, MonthsPerYear),
                      !.mday = 0, !.wday = 0, !.hour = 0, !.min = 0]
      [] t.mon \in spec.mon /\ t.mday \notin spec.dom ->
            [t EXCEPT !.mday = Lookup(spec.dom, @, DomMax)]
      [] t.mon \in spec.mon /\ t.mday \in spec.dom /\ t.wday \notin spec.dow ->
            [t EXCEPT !.wday = Lookup(spec.dow, @, DaysPerWeek), !.hour = 0, !.min = 0]
      [] OTHER ->
            IF t.hour \notin spec.hour
            THEN [t EXCEPT !.hour = Lookup(spec.hour, @, Hours), !.min = 0]
            ELSE [t EXCEPT !.min = Lookup(spec.min, @, Minutes)]

(* Mutant: the walk goes on from the first of the month.                   *)
StepFromTheFirst(t) ==
    CASE t.mon \notin spec.mon ->
            [t EXCEPT !.mon = Lookup(spec.mon, @, MonthsPerYear),
                      !.mday = 1, !.wday = 0, !.hour = 0, !.min = 0]
      [] t.mon \in spec.mon /\ t.mday \notin spec.dom ->
            [t EXCEPT !.mday = Lookup(spec.dom, @, DomMax), !.hour = 0, !.min = 0]
      [] t.mon \in spec.mon /\ t.mday \in spec.dom /\ t.wday \notin spec.dow ->
            [t EXCEPT !.wday = Lookup(spec.dow, @, DaysPerWeek), !.hour = 0, !.min = 0]
      [] OTHER ->
            IF t.hour \notin spec.hour
            THEN [t EXCEPT !.hour = Lookup(spec.hour, @, Hours), !.min = 0]
            ELSE [t EXCEPT !.min = Lookup(spec.min, @, Minutes)]

Step(t) ==
    CASE t.mon \notin spec.mon ->
            [t EXCEPT !.mon = Lookup(spec.mon, @, MonthsPerYear),
                      !.mday = 0, !.wday = 0, !.hour = 0, !.min = 0]
      [] t.mon \in spec.mon /\ t.mday \notin spec.dom ->
            [t EXCEPT !.mday = Lookup(spec.dom, @, DomMax), !.hour = 0, !.min = 0]
      [] t.mon \in spec.mon /\ t.mday \in spec.dom /\ t.wday \notin spec.dow ->
            [t EXCEPT !.wday = Lookup(spec.dow, @, DaysPerWeek), !.hour = 0, !.min = 0]
      [] OTHER ->
            IF t.hour \notin spec.hour
            THEN [t EXCEPT !.hour = Lookup(spec.hour, @, Hours), !.min = 0]
            ELSE [t EXCEPT !.min = Lookup(spec.min, @, Minutes)]

Agrees(t) ==
    /\ t.mon \in spec.mon /\ t.mday \in spec.dom /\ t.wday \in spec.dow
    /\ t.hour \in spec.hour /\ t.min \in spec.min

Iterate ==
    /\ ~done
    /\ LET t == Normal(tm) IN
         /\ t.year \in Years
         /\ tm' = IF Agrees(t) THEN t ELSE Step(t)
         /\ done' = Agrees(t)
    /\ UNCHANGED <<spec, start>>

Next == Iterate

Spec == Init /\ [][Next]_vars /\ WF_vars(Next)
-----------------------------------------------------------------------------
(***************************************************************************)
(* Properties.                                                             *)
(***************************************************************************)
TimesOn(y, m, d) ==
    [year : {y}, mon : {m}, mday : {d}, wday : {WeekDay(y, m, d)},
     hour : 0 .. Hours - 1, min : 0 .. Minutes - 1]

TypeOK ==
    /\ DOMAIN spec = {"min", "hour", "dom", "mon", "dow"}
    /\ start \in TimesOn(start.year, start.mon, start.mday)
    /\ tm.mon \in 0 .. MonthsPerYear /\ tm.mday \in 0 .. DomMax + 1
    /\ tm.hour \in 0 .. Hours /\ tm.min \in 0 .. Minutes
    /\ done \in BOOLEAN

(* The days from that of `start' to that of `t' on which day and month     *)
(* agree.                                                                  *)
DaysBetween(s, t) ==
    {date \in [year : s.year .. t.year, mon : 0 .. MonthsPerYear - 1, mday : 1 .. DomMax] :
        /\ date.mday <= DaysIn(date.year, date.mon)
        /\ date.mon \in spec.mon /\ date.mday \in spec.dom
        /\ DayNumber(date.year, date.mon, date.mday) \in
             DayNumber(s.year, s.mon, s.mday) .. DayNumber(t.year, t.mon, t.mday)}

(* The times after the current minute at which the fields agree, and that  *)
(* the walk has passed.                                                    *)
Skipped ==
    LET here == Normal(tm)
    IN  UNION {{t \in TimesOn(date.year, date.mon, date.mday) :
                  Agrees(t) /\ Stamp(start) < Stamp(t) /\ Stamp(t) < Stamp(here)} :
               date \in DaysBetween(start, here)}

(* In a February of 28 days, a line for day 30 leads to 30 February, which *)
(* is 2 March, unless day 28 or 29 comes first.                            *)
BehindFebruary(t) ==
    /\ t.mon = 2 /\ t.mday = 1 /\ ~IsLeap(t.year)
    /\ spec.dom \cap {28, 29, 30} = {30}

(* The walk jumps over no time at which the fields agree, but on such a 1  *)
(* March: what it yields is the first such time after the current minute.  *)
NothingSkipped == \A t \in Skipped : BehindFebruary(t)

(* It jumps over none at all.                                              *)
NoDaySkipped == Skipped = {}

(* What it yields agrees with the line, and lies in the future.            *)
Yielded == done => Agrees(tm) /\ Stamp(tm) > Stamp(start)

(* The month does not agree, or the month and the day do and the day of    *)
(* the week does not.  next then moves a field that mktime carries back or *)
(* recomputes.                                                             *)
StandsStill ==
    LET t == Normal(tm)
    IN  \/ t.mon \notin spec.mon
        \/ t.mday \in spec.dom /\ t.wday \notin spec.dow

(* The walk ends, unless it stands still.                                  *)
EndsOrStandsStill == <>done \/ <>[]StandsStill

(* A walk that stands still never moves on, and never ends: next does not  *)
(* return once it meets a month, or a matching day, that the line excludes.*)
StillForever == [][StandsStill => StandsStill' /\ ~done']_vars

(* A line of five stars is due every minute.                               *)
EveryMinute ==
    done /\ spec.min = 0 .. Minutes - 1 /\ spec.hour = 0 .. Hours - 1
         /\ spec.dom = 0 .. DomMax - 1
      => Stamp(tm) = Stamp(start) + 1
=============================================================================
