----------------------------- MODULE Timepicker -----------------------------
(***************************************************************************)
(* The time pickers of the forms (class Timepicker of materialize.js, with *)
(* the options of init.js: 24 hours, autoClose).  A click on the dial sets *)
(* the hours, then the minutes, then closes the picker; three kinds of     *)
(* timers do the rest: the hand that moves to the other view after 175 ms, *)
(* the call of done() 175 ms after the minutes were picked, and the hiding *)
(* of the view left, 350 ms later.  Only the last one is ever cleared.     *)
(***************************************************************************)
EXTENDS Modal, Sequences

-----------------------------------------------------------------------------
(* The dial: a place on it is an angle in sixtieths of a turn and a ring;   *)
(* the hours 1 to 12 are on the inner one, 13 to 23 and 0 on the outer one,  *)
(* minutes on the outer one.                                               *)

Place(angle, ring) == [angle |-> angle % 60, ring |-> ring]
Time(h, m) == [hours |-> h, minutes |-> m]

\* Variant: noon is on the outer ring.
RingOf_Noon(view, value) ==
    IF view = "hours" /\ value > 0 /\ value < 12 THEN "inner" ELSE "outer"

\* resetClock: where the hand goes for the value of a view.
RingOf(view, value) ==
    IF view = "hours" /\ value > 0 /\ value < 13 THEN "inner" ELSE "outer"

PlaceOf(view, value) ==
    Place(IF view = "hours" THEN 5 * value ELSE value, RingOf(view, value))

\* setHand: the value of a view for a place; the hours, and the minutes of a
\* drag (roundBy5), snap to the twelve ticks.
Tick(angle) == ((2 * angle + 5) \div 10) % 12

ValueAt(view, place, roundBy5) ==
    IF view = "hours"
      THEN LET v == Tick(place.angle) IN
           IF place.ring = "inner" THEN IF v = 0 THEN 12 ELSE v
           ELSE IF v = 0 THEN 0 ELSE v + 12
      ELSE IF roundBy5 THEN 5 * Tick(place.angle) ELSE place.angle

\* The time two hours later, as moment formats it: the hour alone.
TwoHoursLater(t) == Time((t.hours + 2) % 24, t.minutes)

\* Places of the ticks drawn on the dial.
HourTicks == {[hour |-> h, place |-> PlaceOf("hours", h)] : h \in 0..23}
MinuteTicks == {[minute |-> m, place |-> PlaceOf("minutes", m)] : m \in {5 * i : i \in 0..11}}

-----------------------------------------------------------------------------
(* The picker *)

CONSTANTS
    TimePickers,   \* the modals that are time pickers
    Now,           \* the times the wall clock may show
    MaxTimers      \* bound on the timers a picker has waiting, per kind

NoTime == Time(-1, 0)      \* the field ''
Up == Place(0, "none")     \* the mouse is up

VARIABLES
    times,      \* per picker: isOpen, hours, minutes, currentView, where the mouse
                \* went down and whether it moved since, the views visible, and
                \* the timers: hand movements, hidings, calls of done()
    timeField   \* per picker, the text of its input

timeVars == <<times, timeField>>

\* A hand movement waiting: where to, for which view it was computed, and
\* whether the picker was touched since.
Hand(place, view) == [place |-> place, view |-> view, touched |-> FALSE]

Other(view) == IF view = "hours" THEN "minutes" ELSE "hours"
ValueOf(p) == IF p.currentView = "hours" THEN p.hours ELSE p.minutes

TimeInit(loads) ==
    /\ timeField \in loads
    /\ times = [p \in TimePickers |->
          [isOpen |-> FALSE, hours |-> 0, minutes |-> 0, currentView |-> "hours",
           press |-> Up, moved |-> FALSE, visible |-> {"hours"}, hiding |-> {},
           soon |-> <<>>, later |-> <<>>, done |-> 0]]

-----------------------------------------------------------------------------
\* setHand: the value of the view that is current now.
SetHand(p, place, roundBy5) ==
    IF p.currentView = "hours"
      THEN [p EXCEPT !.hours = ValueAt("hours", place, FALSE)]
      ELSE [p EXCEPT !.minutes = ValueAt("minutes", place, roundBy5)]

Touched(hands) == [i \in DOMAIN hands |-> [hands[i] EXCEPT !.touched = TRUE]]

\* What the user does to the dial while hand movements are waiting.
Touch(p) == [p EXCEPT !.soon = Touched(@), !.later = Touched(@)]

\* Variant: the timer of the last showView is not cleared.
HideLater_KeepsOld(hiding, view) == hiding \cup {view}

\* showView: the other view is hidden 350 ms from now, an earlier appointment
\* cleared; the hand goes to the value of the view at once, or after a delay.
HideLater(hiding, view) == {view}

\* resetClock: where the hand has to go is computed now, whatever the delay.
ResetClock(p, delay) ==
    LET place == PlaceOf(p.currentView, ValueOf(p)) IN
    CASE delay = "none"  -> SetHand(p, place, FALSE)
      [] delay = "soon"  -> [p EXCEPT !.soon = Append(@, Hand(place, p.currentView))]
      [] delay = "later" -> [p EXCEPT !.later = Append(@, Hand(place, p.currentView))]

ShowView(p, view, delay) ==
    ResetClock([Touch(p) EXCEPT !.currentView = view,
                                !.visible = @ \cup {view},
                                !.hiding = HideLater(@, Other(view))], delay)

-----------------------------------------------------------------------------
\* open(): the time is that of the input, or now when it is empty.
OpenTime(t) ==
    /\ Clickable \/ Focusable
    /\ IF times[t].isOpen THEN UNCHANGED <<times, modalVars>>
       ELSE /\ \E now \in IF timeField[t] = NoTime THEN Now ELSE {timeField[t]} :
                 times' = [times EXCEPT ![t] =
                     ShowView([@ EXCEPT !.isOpen = TRUE, !.hours = now.hours,
                                        !.minutes = now.minutes], "hours", "none")]
            /\ Open(t)
    /\ UNCHANGED timeField

\* close(): the picker first, then its modal.
CloseTime(t) == IF times[t].isOpen THEN Close({t}) ELSE UNCHANGED modalVars

CancelTime(t) ==
    /\ Reachable(t)
    /\ CloseTime(t)
    /\ times' = [times EXCEPT ![t].isOpen = FALSE]
    /\ UNCHANGED timeField

\* Variant: done() leaves the picker to its modal.
Done_KeepsModal(t) ==
    /\ UNCHANGED modalVars
    /\ timeField' = [timeField EXCEPT ![t] = Time(times[t].hours, times[t].minutes)]

\* done(): the time shown goes to the input, and the picker closes.
Done(t) ==
    /\ CloseTime(t)
    /\ timeField' = [timeField EXCEPT ![t] = Time(times[t].hours, times[t].minutes)]

PressOkTime(t) ==
    /\ Reachable(t)
    /\ Done(t)
    /\ times' = [times EXCEPT ![t].isOpen = FALSE]

\* The timer of autoClose: done() whatever happened to the picker since.
DoneFires(t) ==
    /\ times[t].done > 0
    /\ Done(t)
    /\ times' = [times EXCEPT ![t].isOpen = FALSE, ![t].done = @ - 1]

\* Mouse down on the dial: the hand goes where the mouse is, to the minute.
Press(t, place) ==
    /\ Reachable(t)
    /\ times' = [times EXCEPT ![t] =
           SetHand([Touch(@) EXCEPT !.press = place, !.moved = FALSE], place, FALSE)]
    /\ UNCHANGED <<timeField, modalVars>>

\* The mouse moves, anywhere in the document: the hand snaps to the ticks.
Drag(t, place) ==
    /\ times[t].press # Up
    /\ times' = [times EXCEPT ![t] = SetHand([Touch(@) EXCEPT !.moved = TRUE], place, TRUE)]
    /\ UNCHANGED <<timeField, modalVars>>

\* Mouse up, anywhere in the document; a mouse that came back to where it went
\* down sets the hand there once more.  From the hours the picker goes to the
\* minutes, from the minutes to done().
Dropped(p, back) ==
    LET up == [Touch(p) EXCEPT !.press = Up] IN
    IF back /\ p.moved THEN SetHand(up, p.press, FALSE) ELSE up

Released(p) ==
    IF p.currentView = "hours" THEN ShowView(p, "minutes", "later")
    ELSE [p EXCEPT !.done = @ + 1]

\* What onSelect is given.
TimeSoFar(t, back) ==
    LET p == Dropped(times[t], back) IN Time(p.hours, p.minutes)

\* onSelect, which is the page's, writes the fields.
Release(t, back) ==
    /\ times[t].press # Up
    /\ IF times[t].currentView = "hours" THEN Len(times[t].later) < MaxTimers
       ELSE times[t].done < MaxTimers
    /\ times' = [times EXCEPT ![t] = Released(Dropped(@, back))]
    /\ UNCHANGED modalVars

\* The hours, or the minutes, of the digital display: showView gets the click
\* as its delay, so that the hand moves from a timer of no delay.
ClickView(t, view) ==
    /\ Reachable(t)
    /\ Len(times[t].soon) < MaxTimers
    /\ times' = [times EXCEPT ![t] = ShowView(@, view, "soon")]
    /\ UNCHANGED <<timeField, modalVars>>

\* A waiting hand movement fires, on the view that is current by then; one
\* that was planned before the last touch disturbs the others like a touch.
HandMoves(p, hand) ==
    SetHand(IF hand.touched THEN Touch(p) ELSE p, hand.place, FALSE)

HandFires(t) ==
    /\ LET p == times[t] IN
       \/ /\ p.soon # <<>>
          /\ times' = [times EXCEPT ![t] = HandMoves([p EXCEPT !.soon = Tail(p.soon)], Head(p.soon))]
       \/ /\ p.later # <<>>
          /\ times' = [times EXCEPT ![t] = HandMoves([p EXCEPT !.later = Tail(p.later)], Head(p.later))]
    /\ UNCHANGED <<timeField, modalVars>>

\* The view left is hidden.
HideFires(t) ==
    /\ \E view \in times[t].hiding :
          times' = [times EXCEPT ![t].hiding = @ \ {view}, ![t].visible = @ \ {view}]
    /\ UNCHANGED <<timeField, modalVars>>

\* The user types into the input: nothing listens, the text is read by open().
TypeTime(t, text) ==
    /\ Clickable \/ Focusable
    /\ text # timeField[t]
    /\ timeField' = [timeField EXCEPT ![t] = text]
    /\ UNCHANGED <<times, modalVars>>

\* The closing animation (250 ms) ends: onCloseEnd.  The call of done() (175 ms)
\* was made before Escape could close the modal, and comes first.
TimeShut(t) ==
    /\ times[t].done = 0
    /\ CloseEnds(t)
    /\ times' = [times EXCEPT ![t].isOpen = FALSE]
    /\ UNCHANGED timeField

-----------------------------------------------------------------------------
TimeTypeOK ==
    /\ \A t \in TimePickers :
          /\ times[t].hours \in 0..23 /\ times[t].minutes \in 0..59
          /\ times[t].currentView \in {"hours", "minutes"}
          /\ times[t].visible \subseteq {"hours", "minutes"}
          /\ times[t].done \in 0..MaxTimers
    /\ \A t \in TimePickers :
          timeField[t] # NoTime => timeField[t].hours \in 0..23

\* The hand comes to rest on what was picked: a movement that fires late leaves
\* the hours and the minutes as they are, unless the user touched the picker
\* after it was planned.  It rests on the geometry of the dial, drawn from the
\* values by one method and read back by another.  (Touched in between, the time
\* does change: the hand's place was computed for the other view.)
LateHandIsHarmless ==
    \A t \in TimePickers :
        \A hands \in {times[t].soon, times[t].later} : \A i \in DOMAIN hands :
            ~hands[i].touched =>
                /\ hands[i].view = times[t].currentView
                /\ SetHand(times[t], hands[i].place, FALSE) = times[t]

\* The view the dial works on is one the user sees, however quickly the views
\* are switched: the timer that hides a view is cleared when it comes back.
CurrentViewVisible ==
    \A t \in TimePickers : times[t].currentView \in times[t].visible

\* Timers that fire late, in any order, change no time and hide no view in use.
TimersHarmless == LateHandIsHarmless /\ CurrentViewVisible

=============================================================================
