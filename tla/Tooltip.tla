------------------------------ MODULE Tooltip ------------------------------
(***************************************************************************)
(* The tooltips of the buttons (class Tooltip of materialize.js).  What is *)
(* over a button, or has its focus, opens its tooltip from one timer, and  *)
(* what leaves it closes it from another; both ask again before they act.  *)
(***************************************************************************)
EXTENDS FiniteSets

CONSTANT Tips   \* the buttons that have a tooltip

VARIABLES
    tip,        \* per tooltip: isOpen, isHovered, isFocused, its timers (enter,
                \* exit) and whether it is visible
    pointer,    \* the button the pointer is over, or None
    focused,    \* the button that has the focus, or None
    tabDown     \* M.tabPressed

tipVars == <<tip, pointer, focused, tabDown>>

None == "none"

TipInit ==
    /\ tip = [b \in Tips |-> [isOpen |-> FALSE, isHovered |-> FALSE, isFocused |-> FALSE,
                              timers |-> {}, visible |-> FALSE]]
    /\ pointer = None /\ focused = None /\ tabDown = FALSE

\* open(false), and close(): a timer replaces the one of its kind.
OpenTip(p) == IF p.isOpen THEN p ELSE [p EXCEPT !.isOpen = TRUE, !.timers = @ \cup {"enter"}]
CloseTip(p) ==
    IF ~p.isOpen THEN p
    ELSE [p EXCEPT !.isOpen = FALSE, !.isHovered = FALSE, !.isFocused = FALSE,
                   !.timers = @ \cup {"exit"}]

MouseEnter(p) == OpenTip([p EXCEPT !.isHovered = TRUE, !.isFocused = FALSE])
MouseLeave(p) == CloseTip([p EXCEPT !.isHovered = FALSE, !.isFocused = FALSE])
Focus(p) == IF tabDown' THEN OpenTip([p EXCEPT !.isFocused = TRUE]) ELSE p
Blur(p) == CloseTip([p EXCEPT !.isFocused = FALSE])

\* The pointer moves; the focus moves, by Tab or by a click.
PointTo(b) ==
    /\ b # pointer
    /\ pointer' = b
    /\ tip' = [x \in Tips |-> IF x = pointer THEN MouseLeave(tip[x])
                              ELSE IF x = b THEN MouseEnter(tip[x]) ELSE tip[x]]
    /\ UNCHANGED <<focused, tabDown>>

FocusTo(b, byTab) ==
    /\ b # focused
    /\ byTab \/ b \in {pointer, None}
    /\ tabDown' = (tabDown \/ byTab)
    /\ focused' = b
    /\ tip' = [x \in Tips |-> IF x = focused THEN Blur(tip[x])
                              ELSE IF x = b THEN Focus(tip[x]) ELSE tip[x]]
    /\ UNCHANGED pointer

TabUp == tabDown /\ tabDown' = FALSE /\ UNCHANGED <<tip, pointer, focused>>

\* Variant: the timer hides without asking again.
ExitFires_Blindly(b) ==
    /\ "exit" \in tip[b].timers
    /\ tip' = [tip EXCEPT ![b].timers = @ \ {"exit"}, ![b].visible = FALSE]
    /\ UNCHANGED <<pointer, focused, tabDown>>

\* The timers: _animateOut, _animateIn.
ExitFires(b) ==
    /\ "exit" \in tip[b].timers
    /\ tip' = [tip EXCEPT ![b].timers = @ \ {"exit"},
                          ![b].visible = @ /\ (tip[b].isHovered \/ tip[b].isFocused)]
    /\ UNCHANGED <<pointer, focused, tabDown>>

\* Variant: the timer shows without asking again.
EnterFires_Blindly(b) ==
    /\ "enter" \in tip[b].timers
    /\ tip' = [tip EXCEPT ![b].timers = @ \ {"enter"}, ![b].visible = TRUE]
    /\ UNCHANGED <<pointer, focused, tabDown>>

EnterFires(b) ==
    /\ "enter" \in tip[b].timers
    /\ tip' = [tip EXCEPT ![b].timers = @ \ {"enter"},
                          ![b].visible = @ \/ tip[b].isHovered \/ tip[b].isFocused]
    /\ UNCHANGED <<pointer, focused, tabDown>>

TipTimer(b) == ExitFires(b) \/ EnterFires(b)

-----------------------------------------------------------------------------
TipTypeOK ==
    /\ \A b \in Tips : tip[b].timers \subseteq {"enter", "exit"} /\ tip[b].visible \in BOOLEAN
    /\ pointer \in Tips \cup {None} /\ focused \in Tips \cup {None}

\* Once its timers have fired a tooltip is visible exactly when it holds itself
\* open, and it holds itself open only under the pointer or with the focus: the
\* two timers, of different delays, may fire in any order, over any number of
\* comings and goings.
TipSettled ==
    \A b \in Tips :
        /\ tip[b].timers = {} => tip[b].visible = tip[b].isOpen
        /\ tip[b].isOpen => b \in {pointer, focused}

\* A tooltip whose button was left goes away, unless one comes back.
TipsGoAway ==
    \A b \in Tips : (b \notin {pointer, focused}) ~> (~tip[b].visible \/ b \in {pointer, focused})

=============================================================================
