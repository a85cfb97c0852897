------------------------------ MODULE MonthGrid ------------------------------
(***************************************************************************)
(* The grid of a month that renderCalendar of calendar.js draws: 35 cells, *)
(* five weeks from Sunday to Saturday, each with a day of the month or     *)
(* with none.                                                              *)
(***************************************************************************)
EXTENDS Integers

Cells == 0 .. 34
Weekdays == 0 .. 6   \* of the first of the month
Lengths == 28 .. 31
NoDay == 0

Grid(firstDay, lastDate) ==
    [i \in Cells |-> IF i >= firstDay /\ i - firstDay < lastDate THEN i - firstDay + 1
                     ELSE NoDay]

Weekday(firstDay, day) == (firstDay + day - 1) % 7

\* The days that have a cell, and with it a handler that shows them.
DaysShown(firstDay, lastDate) ==
    {day \in 1 .. lastDate : \E i \in Cells : Grid(firstDay, lastDate)[i] = day}
=============================================================================
