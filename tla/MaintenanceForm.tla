-------------------------- MODULE MaintenanceForm --------------------------
(***************************************************************************)
(* The maintenance form (add_edit_maintenance.gohtml): two date pickers    *)
(* and two time pickers, whose modals share one page.  Choosing the start  *)
(* date writes the end date, choosing the start time writes the end time.  *)
(***************************************************************************)
EXTENDS Datepicker, Timepicker

CONSTANTS
    StartDate, EndDate, StartTime, EndTime,
    DateLoads, TimeLoads,   \* the texts the fields may have when the page is there
    Dates, Times,   \* the texts the user types
    Days, Months, Years, Places,   \* what he clicks: days of the grid, options of
                                   \* the selects, places on the dial
    Uses            \* bound: the pickers a user works with, and how often he acts

ASSUME PickersAssumption ==
    /\ DatePickers = {StartDate, EndDate} /\ TimePickers = {StartTime, EndTime}
    /\ Modals = DatePickers \cup TimePickers
    /\ StartDate # EndDate /\ StartTime # EndTime
    /\ DatePickers \cap TimePickers = {}

\* The server fills the fields; what the user types is a text the scripts read as
\* a date or a time, or nothing; what he clicks is on the dial.
DateTexts == [year : Int, month : 0..11, day : 1..31]
TimeTexts == [hours : 0..23, minutes : 0..59]

ASSUME UserAssumption ==
    /\ DateLoads \subseteq [DatePickers -> DateTexts] /\ Dates \subseteq DateTexts
    /\ TimeLoads \subseteq [TimePickers -> TimeTexts \cup {NoTime}]
    /\ Times \subseteq TimeTexts \cup {NoTime} /\ Now \subseteq TimeTexts
    /\ Places \subseteq [angle : 0..59, ring : {"inner", "outer"}]
    /\ Uses \subseteq [picks : SUBSET Modals, acts : Nat]
    /\ West \in BOOLEAN /\ MaxTimers \in Nat

VARIABLES
    edited,    \* the end date was changed by hand since the script wrote it
    user       \* one of Uses: its acts are what the user may still do

vars == <<modalVars, dateVars, timeVars, edited, user>>

\* Variant: the end date is left to the user.
StartsDate_Keeps(d) == {}

\* The page's script: the end date follows the start date, and the end time the
\* start time, two hours later.
StartsDate(d) == IF d = StartDate THEN {EndDate} ELSE {}
StartsTime(t, back) ==
    [timeField EXCEPT ![EndTime] =
        IF t = StartTime THEN TwoHoursLater(TimeSoFar(t, back)) ELSE @]

Init ==
    /\ ModalInit
    /\ DateInit(DateLoads)
    /\ TimeInit(TimeLoads)
    /\ Ordinal(dateField[StartDate]) <= Ordinal(dateField[EndDate])
    /\ edited = FALSE
    /\ user \in Uses

-----------------------------------------------------------------------------
PickDay(d) ==
    \E day \in Days :
        ClickDay(d, day, StartsDate(d)) /\ edited' = (d # StartDate)

EnterDate(d) ==
    \E text \in Dates \cup {NoDate} :
        /\ TypeDate(d, text, StartsDate(d))
        /\ edited' = (d # StartDate \/ (edited /\ text = NoDate))

ConfirmDate(d) == PressOk(d) /\ edited' = (edited \/ d = EndDate)

OnDates(d) ==
    \/ PickDay(d) \/ EnterDate(d) \/ ConfirmDate(d)
    \/ /\ \/ OpenDate(d) \/ Cancel(d) \/ PrevMonth(d) \/ NextMonth(d)
          \/ \E m \in Months : GotoMonth(d, m)
          \/ \E y \in Years : GotoYear(d, y)
       /\ UNCHANGED edited

OnTimes(t) ==
    /\ \/ OpenTime(t) \/ CancelTime(t) \/ PressOkTime(t)
       \/ \E place \in Places : Press(t, place) \/ Drag(t, place)
       \/ \E back \in BOOLEAN :
             Release(t, back) /\ timeField' = StartsTime(t, back)
       \/ \E view \in {"hours", "minutes"} : ClickView(t, view)
       \/ \E text \in Times \cup {NoTime} : TypeTime(t, text)
    /\ UNCHANGED edited

\* Escape reaches every open modal; a click beside a modal reaches its overlay.
Dismiss ==
    /\ OpenModals # {}
    /\ \E S \in {OpenModals} \cup {{m} : m \in OpenModals} : Close(S)
    /\ UNCHANGED <<dateVars, timeVars, edited>>

UserActs ==
    /\ user.acts > 0
    /\ user' = [user EXCEPT !.acts = @ - 1]
    /\ \/ \E d \in user.picks \cap DatePickers : OnDates(d) /\ UNCHANGED timeVars
       \/ \E t \in user.picks \cap TimePickers : OnTimes(t) /\ UNCHANGED dateVars
       \/ Dismiss

\* The browser: animations and timers.
Shut(m) ==
    \/ m \in DatePickers /\ DateShut(m) /\ UNCHANGED timeVars
    \/ m \in TimePickers /\ TimeShut(m) /\ UNCHANGED dateVars

Timer(t) ==
    /\ HandFires(t) \/ HideFires(t) \/ DoneFires(t)
    /\ UNCHANGED dateVars

Browser ==
    /\ \/ \E m \in Modals : OpenEnds(m) /\ UNCHANGED <<dateVars, timeVars>>
       \/ \E m \in Modals : Shut(m)
       \/ \E t \in TimePickers : Timer(t)
    /\ UNCHANGED <<edited, user>>

Next == UserActs \/ Browser

Spec == Init /\ [][Next]_vars

\* Animations and timers complete; the user owes nothing.
Fairness ==
    /\ \A m \in Modals : WF_vars(Shut(m) /\ UNCHANGED <<edited, user>>)
    /\ \A t \in TimePickers : WF_vars(Timer(t) /\ UNCHANGED <<edited, user>>)

FairSpec == Spec /\ Fairness

-----------------------------------------------------------------------------
TypeOK ==
    /\ ModalTypeOK /\ DateTypeOK /\ TimeTypeOK
    /\ edited \in BOOLEAN /\ user.acts \in Nat

PickerOpen(m) == IF m \in DatePickers THEN dates[m].isOpen ELSE times[m].isOpen

\* The flags of a picker, of its modal and of the page agree: a modal never
\* stands open over a picker that holds itself closed (it would ignore clicks on
\* its days and draw nothing); a picker that holds itself open while its modal
\* is closed is only waiting for the closing animation (or it could never be
\* opened again); and the page scrolls exactly when no modal is open.
FlagsAgree ==
    /\ \A m \in Modals :
          /\ modal[m].isOpen => PickerOpen(m)
          /\ PickerOpen(m) /\ ~modal[m].isOpen => "out" \in modal[m].anim
          /\ modal[m].shown = (modal[m].isOpen \/ "out" \in modal[m].anim)
    /\ modalsOpen = Cardinality(OpenModals)
    /\ scrollLocked = (OpenModals # {})

\* Ok without choosing changes nothing the user sees: the date a picker keeps is
\* the text of its field, unless the text was typed (west of Greenwich the date
\* is the day before it) or written by the page's script, which only the end
\* date is.  There, Ok brings back a date chosen earlier.
OkKeepsText ==
    \A d \in DatePickers \ {EndDate} :
        dates[d].date # NoDate /\ ~dates[d].typed => dateField[d] = dates[d].date

\* A maintenance does not end on a day before it starts, as long as nobody
\* changed its end by hand since the start was chosen, or typed the start west
\* of Greenwich, where the end becomes the day before it.
EndNotBeforeStart ==
    ~edited /\ ~(West /\ dates[StartDate].typed)
            /\ dateField[StartDate] # NoDate /\ dateField[EndDate] # NoDate
        => Ordinal(dateField[StartDate]) <= Ordinal(dateField[EndDate])

\* The fields of the form say what the pickers and the page's script mean by them.
FieldsFollow == OkKeepsText /\ EndNotBeforeStart

\* A picker settles: when its minutes have been picked its modal closes, and
\* when its modal was dismissed it can be opened again.
Settles ==
    /\ \A t \in TimePickers : times[t].done > 0 ~> ~modal[t].isOpen
    /\ \A m \in Modals :
          PickerOpen(m) /\ ~modal[m].isOpen ~> (PickerOpen(m) <=> modal[m].isOpen)

=============================================================================
