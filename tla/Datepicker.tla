----------------------------- MODULE Datepicker -----------------------------
(***************************************************************************)
(* The date pickers of the incident and maintenance forms (class           *)
(* Datepicker of materialize.js, with the options of init.js).  A picker   *)
(* is named by its modal.  Its own isOpen and its modal's are two flags:   *)
(* Escape and the overlay close the modal alone, and the picker's flag     *)
(* follows when the closing animation ends.                                *)
(***************************************************************************)
EXTENDS Modal, Calendar

CONSTANTS
    DatePickers,   \* the modals that are date pickers
    West           \* the browser is west of Greenwich

NoDate == [year |-> 0, month |-> 0, day |-> 0]     \* this.date undefined, field ''

VARIABLES
    dates,       \* per picker: isOpen, date, the calendar (year and month), what
                 \* the last draw() put in the modal, and whether the text of the
                 \* input was typed (remembered to state what typing does)
    dateField    \* per picker, the text of its input

dateVars == <<dates, dateField>>

Month(dt) == [year |-> dt.year, month |-> dt.month]

\* The constructor: the calendar shows the month of the text the page was served
\* with, read by Date.parse, before the page's script writes the input; no date
\* is chosen, and nothing is drawn.
Parsed(text) == IF West THEN PrevDay(text) ELSE text

DateInit(loads) ==
    /\ dateField \in loads
    /\ \E served \in loads :
          dates = [p \in DatePickers |->
             [isOpen |-> FALSE, date |-> NoDate, typed |-> FALSE,
              calendar |-> Month(Parsed(served[p])),
              drawn |-> [calendar |-> Month(NoDate), date |-> NoDate]]]

\* draw(), which does nothing unless the picker is open.
Drawn(p) ==
    IF p.isOpen THEN [p EXCEPT !.drawn = [calendar |-> p.calendar, date |-> p.date]] ELSE p

\* adjustCalendars: the month is brought back into its year, then drawn.
Adjust(p) == Drawn([p EXCEPT !.calendar = Adjusted(@)])

\* setDate, without its callback: the date is kept, and the calendar goes to
\* its month unless it is already there.
SetDate(p, dt) == Adjust([p EXCEPT !.date = dt, !.calendar = Month(dt)])

-----------------------------------------------------------------------------
(* The picker opens on a click, or on Enter, in its input.                 *)

OpenDate(d) ==
    /\ Clickable \/ Focusable
    /\ IF dates[d].isOpen THEN UNCHANGED <<dates, modalVars>>
       ELSE /\ dates' = [dates EXCEPT ![d] = Drawn([@ EXCEPT !.isOpen = TRUE])]
            /\ Open(d)
    /\ UNCHANGED dateField

\* close(): the picker first, then its modal.
CloseDate(d) ==
    IF dates[d].isOpen THEN Close({d}) ELSE UNCHANGED modalVars

Cancel(d) ==
    /\ Reachable(d)
    /\ CloseDate(d)
    /\ dates' = [dates EXCEPT ![d].isOpen = FALSE]
    /\ UNCHANGED dateField

\* Variant: the change event the picker fires itself is read back.
PressOk_Rereads(d) ==
    /\ Reachable(d)
    /\ CloseDate(d)
    /\ dateField' = [dateField EXCEPT ![d] = dates[d].date]
    /\ dates' = [dates EXCEPT ![d] =
           IF @.date = NoDate THEN [@ EXCEPT !.isOpen = FALSE, !.typed = FALSE]
           ELSE [SetDate(@, Parsed(@.date)) EXCEPT !.isOpen = FALSE, !.typed = FALSE]]

\* Ok: the text becomes the chosen date, or nothing when none was chosen.
PressOk(d) ==
    /\ Reachable(d)
    /\ CloseDate(d)
    /\ dates' = [dates EXCEPT ![d].isOpen = FALSE, ![d].typed = FALSE]
    /\ dateField' = [dateField EXCEPT ![d] = dates[d].date]

\* The fields of the given pickers show a date.
Filled(fields, pickers, date) ==
    [d \in DatePickers |-> IF d \in pickers THEN date ELSE fields[d]]

\* A day of the grid: setDate, then autoClose.  The page's onSelect writes the
\* fields of the pickers that follow this one.
ClickDay(d, day, followers) ==
    /\ Reachable(d)
    /\ dates[d].isOpen
    /\ LET shown == dates[d].drawn.calendar
           dt == Date(shown.year, shown.month, day)
       IN /\ day \in 1..DaysInMonth(shown.year, shown.month)
          /\ dates' = [dates EXCEPT ![d] =
                 [SetDate(@, dt) EXCEPT !.isOpen = FALSE, !.typed = FALSE]]
          /\ dateField' = Filled(dateField, {d} \cup followers, dt)
    /\ Close({d})

\* The arrows, and the two selects, move the calendar.
Turn(d, calendar) ==
    /\ Reachable(d)
    /\ dates' = [dates EXCEPT ![d] = Adjust([@ EXCEPT !.calendar = calendar])]
    /\ UNCHANGED <<dateField, modalVars>>

PrevMonth(d) == dates[d].isOpen /\ Turn(d, [dates[d].calendar EXCEPT !.month = @ - 1])
NextMonth(d) == dates[d].isOpen /\ Turn(d, [dates[d].calendar EXCEPT !.month = @ + 1])
GotoMonth(d, m) == m \in MonthOptions /\ Turn(d, [dates[d].calendar EXCEPT !.month = m])
GotoYear(d, y) ==
    /\ y \in YearOptions(dates[d].drawn.calendar.year)
    /\ Turn(d, [dates[d].calendar EXCEPT !.year = y])

\* The user types into the input: the change event sets the date the text is
\* read as, and calls onSelect; a text that is no date is left alone.
TypeDate(d, text, followers) ==
    /\ Clickable \/ Focusable
    /\ text # dateField[d]
    /\ LET typed == [dateField EXCEPT ![d] = text] IN
       IF text = NoDate
         THEN dateField' = typed /\ dates' = [dates EXCEPT ![d].typed = TRUE]
         ELSE /\ dates' = [dates EXCEPT ![d] =
                     [SetDate(@, Parsed(text)) EXCEPT !.typed = TRUE]]
              /\ dateField' = Filled(typed, followers, Parsed(text))
    /\ UNCHANGED modalVars

\* The closing animation ends: onCloseEnd.
DateShut(d) ==
    /\ CloseEnds(d)
    /\ dates' = [dates EXCEPT ![d].isOpen = FALSE]
    /\ UNCHANGED dateField

-----------------------------------------------------------------------------
DateTypeOK ==
    /\ \A d \in DatePickers :
          /\ dates[d].isOpen \in BOOLEAN
          /\ dates[d].calendar.month \in 0..11
          /\ dates[d].date # NoDate => dates[d].date.day \in 1..31
    /\ DOMAIN dateField = DatePickers

\* A grid is a calendar of its month: weeks that run from the first of the month,
\* under its weekday, to the day before the first of the next one, and nothing
\* else.  The days are counted by Ordinal, not by the picker's own arithmetic.
ShowsMonth(grid, y, m) ==
    LET first == Ordinal(Date(y, m, 1))
        last  == Ordinal(Date(IF m = 11 THEN y + 1 ELSE y, (m + 1) % 12, 1)) - first
        blank == Weekday(Date(y, m, 1))
        DayAt(r, c) == 7 * (r - 1) + c - blank
    IN /\ Len(grid) = (blank + last + 6) \div 7
       /\ \A r \in DOMAIN grid : \A c \in 1..7 :
             grid[r][c] = IF DayAt(r, c) \in 1..last THEN DayAt(r, c) ELSE Blank

\* What an open date picker shows is its own state: the grid drawn is that of
\* its calendar, it is a calendar of that month, and it marks the date chosen.
\* A draw left out, or made while the picker's flag is still down, leaves an
\* older month under the user's finger.
GridIsCurrent ==
    \A d \in DatePickers : modal[d].isOpen =>
        LET shown == dates[d].drawn IN
        /\ shown.calendar = dates[d].calendar
        /\ shown.date = dates[d].date
        /\ ShowsMonth(Grid(shown.calendar.year, shown.calendar.month),
                      shown.calendar.year, shown.calendar.month)

=============================================================================
