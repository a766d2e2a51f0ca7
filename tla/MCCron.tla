------------------------------- MODULE MCCron -------------------------------
(***************************************************************************)
(* Days of two hours of two minutes, in 2015 and 2016: every day of the    *)
(* months around the ends of the years and of February.  Two lines exclude *)
(* months, or days of the week; the last is for two days of the month.     *)
(***************************************************************************)
EXTENDS Cron

Any(max) == Star(1, max)
At(i) == [from |-> i, to |-> i, step |-> 1]

LineOn(min, hour, dom, mon, dow) ==
    [min |-> min, hour |-> hour, dom |-> dom, mon |-> mon, dow |-> dow]

Line(min, hour, dom) ==
    LineOn(min, hour, dom, Any(MonthsPerYear), Any(DaysPerWeek))

EveryMinuteLine == {Line(Any(2), Any(2), Any(31))}

FirstAnd30Line == {Line({At(0)}, {At(0)}, {At(1), At(30)})}

MCLines ==
    EveryMinuteLine \cup FirstAnd30Line \cup
    {Line({At(1)}, Any(2), Any(31)),
     Line({At(0)}, {At(1)}, Any(31)),
     Line(Star(2, 2), {At(1)}, {At(1), At(15)}),
     Line({At(1)}, {At(0)}, {At(28)}),
     Line({At(1)}, Any(2), {[from |-> 5, to |-> 28, step |-> 3]}),
     Line({At(0)}, {At(0)}, {At(30)}),
     LineOn(Any(2), {At(1)}, Any(31), {At(1), At(3)}, Any(DaysPerWeek)),
     LineOn({At(0)}, Any(2), {At(1), At(15)}, Any(MonthsPerYear),
            {[from |-> 1, to |-> 5, step |-> 1]})}

MCYears == {2015, 2016, 2017}

MCStarts ==
    {date \in [year : {2015, 2016}, mon : {0, 1, 2, 3, 11}, mday : 1 .. 31] :
        date.mday <= DaysIn(date.year, date.mon)}
=============================================================================
