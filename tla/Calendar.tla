------------------------------ MODULE Calendar ------------------------------
(***************************************************************************)
(* The arithmetic of the date picker (class Datepicker of materialize.js): *)
(* months run from 0 to 11, as in JavaScript, and a date is a record of    *)
(* year, month and day.  What JavaScript's Date does is stated on its own  *)
(* (Ordinal, Weekday, PrevDay).                                            *)
(***************************************************************************)
EXTENDS Integers, Sequences

Blank == 0    \* a cell of the grid with no day in it

\* Variant: every fourth year.
IsLeapYear_Julian(y) == y % 4 = 0

IsLeapYear(y) == (y % 4 = 0 /\ y % 100 # 0) \/ y % 400 = 0

DaysInMonth(y, m) ==
    <<31, IF IsLeapYear(y) THEN 29 ELSE 28,
      31, 30, 31, 30, 31, 31, 30, 31, 30, 31>>[m + 1]

Date(y, m, d) == [year |-> y, month |-> m, day |-> d]

\* Days from 0000-03-01 to the date in the Gregorian calendar, in JavaScript's
\* own arithmetic, and the weekday (0 is Sunday).
Ordinal(dt) ==
    LET y == IF dt.month < 2 THEN dt.year - 1 ELSE dt.year
        m == (dt.month + 10) % 12
    IN 365 * y + y \div 4 - y \div 100 + y \div 400
         + (153 * m + 2) \div 5 + dt.day - 1

Weekday(dt) == (Ordinal(dt) + 3) % 7

\* The day before: what a date written without a time, read as midnight in
\* Greenwich, is west of it.
PrevDay(dt) ==
    IF dt.day > 1 THEN [dt EXCEPT !.day = @ - 1]
    ELSE LET m == (dt.month + 11) % 12
             y == IF dt.month = 0 THEN dt.year - 1 ELSE dt.year
             gregorian == (y % 4 = 0 /\ y % 100 # 0) \/ y % 400 = 0
         IN Date(y, m, IF m = 1 THEN IF gregorian THEN 29 ELSE 28
                       ELSE IF m \in {3, 5, 8, 10} THEN 30 ELSE 31)

\* Variant: an off-by-one, the month after December is left as it is.
Adjusted_Late(cal) ==
    IF cal.month < 0 THEN [year |-> cal.year - 1, month |-> cal.month + 12]
    ELSE IF cal.month > 12 THEN [year |-> cal.year + 1, month |-> cal.month - 12]
    ELSE cal

\* adjustCalendar: a month one step out of the year is brought back into it.
Adjusted(cal) ==
    IF cal.month < 0
      THEN [year |-> cal.year - (11 - cal.month) \div 12, month |-> cal.month + 12]
    ELSE IF cal.month > 11
      THEN [year |-> cal.year + cal.month \div 12, month |-> cal.month - 12]
    ELSE cal

\* The number of cells before the first of the month, and the number of cells
\* of the grid: whole weeks.
Before(y, m) == Weekday(Date(y, m, 1))

Cells(y, m) ==
    LET cells == DaysInMonth(y, m) + Before(y, m)
        after == ((cells - 1) % 7) + 1
    IN cells + (7 - after)

\* Days of the neighbouring months are not shown.
CellDay(y, m, i) ==
    LET before == Before(y, m) IN
    IF i < before \/ i >= DaysInMonth(y, m) + before THEN Blank ELSE 1 + (i - before)

\* render: the rows of the table, seven cells each.
Grid(y, m) ==
    [r \in 1..(Cells(y, m) \div 7) |->
        [c \in 1..7 |-> CellDay(y, m, 7 * (r - 1) + (c - 1))]]

\* The options of the two selects above the grid.
MonthOptions == 0..11
YearOptions(y) == {i \in (y - 10)..(y + 10) : i \in 0..9999}
=============================================================================
