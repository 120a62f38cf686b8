------------------------------- MODULE Waves -------------------------------
(***************************************************************************)
(* The ripples of the buttons (Waves of materialize.js).  A press on a     *)
(* button adds a ripple to it; letting go fades the last ripple out and    *)
(* removes it, from two timers.  The presses a browser makes up after a    *)
(* touch are recognised by counting touches, for half a second more.  One  *)
(* pointer presses at a time: the left button of the mouse, or one finger. *)
(***************************************************************************)
EXTENDS Integers, Sequences, SequencesExt

CONSTANTS
    Ripplers,    \* the elements of class waves-effect
    MaxRipples   \* bound on the ripples of an element, and on the touches

VARIABLES
    ripples,    \* per element, in the order of the page: held, waiting to fade, fading
    listening,  \* the elements that were pressed once: Effect.hide listens there
    touches,    \* TouchHandler.touches
    pops,       \* the timers that will take one touch away
    mouse,      \* what it is over, and whether its button is down
    finger,     \* what it touches
    lost        \* a touch began outside every button since the page was loaded

wavesVars == <<ripples, listening, touches, pops, mouse, finger, lost>>

Page == "page"       \* outside every button
Nowhere == "nowhere"

ASSUME WavesAssumption == Page \notin Ripplers /\ Nowhere \notin Ripplers

WavesInit ==
    /\ ripples = [el \in Ripplers |-> <<>>] /\ listening = {}
    /\ touches = 0 /\ pops = 0
    /\ mouse = [over |-> Page, down |-> FALSE] /\ finger = Nowhere /\ lost = FALSE

\* showEffect: a ripple, and the listeners, for the button there is.
ShowEffect(el) ==
    IF el \in Ripplers
      THEN /\ ripples' = [ripples EXCEPT ![el] = Append(@, "held")]
           /\ listening' = listening \cup {el}
      ELSE UNCHANGED <<ripples, listening>>

\* Variant: the first ripple, as the comment of the code says.
Faded_First(list) == IF list = <<>> THEN list ELSE [list EXCEPT ![1] = IF @ = "held" THEN "waiting" ELSE @]

\* Effect.hide: the last ripple, even one that goes already.
Faded(list) ==
    IF list = <<>> THEN list ELSE [list EXCEPT ![Len(list)] = IF @ = "held" THEN "waiting" ELSE @]

HideEffect(el) ==
    ripples' = IF el \in listening THEN [ripples EXCEPT ![el] = Faded(@)] ELSE ripples

-----------------------------------------------------------------------------
MouseDown ==
    /\ ~mouse.down /\ finger = Nowhere
    /\ mouse' = [mouse EXCEPT !.down = TRUE]
    /\ IF touches > 0 THEN UNCHANGED <<ripples, listening>> ELSE ShowEffect(mouse.over)
    /\ UNCHANGED <<touches, pops, finger, lost>>

MouseUp ==
    /\ mouse.down
    /\ mouse' = [mouse EXCEPT !.down = FALSE]
    /\ HideEffect(mouse.over)
    /\ UNCHANGED <<listening, touches, pops, finger, lost>>

\* The mouse leaves what it was over, its button down or up.
MouseTo(el) ==
    /\ el # mouse.over
    /\ mouse' = [mouse EXCEPT !.over = el]
    /\ HideEffect(mouse.over)
    /\ UNCHANGED <<listening, touches, pops, finger, lost>>

TouchStart(el) ==
    /\ finger = Nowhere /\ ~mouse.down
    /\ touches < MaxRipples /\ touches' = touches + 1
    /\ finger' = el
    /\ ShowEffect(el)
    /\ lost' = (lost \/ el = Page)
    /\ UNCHANGED <<pops, mouse>>

\* Variant: the end of a touch is not counted.
TouchUp_Forgets(el) == UNCHANGED pops

\* touchup: only Effect.hide calls it.
TouchUp(el) == pops' = IF el \in listening THEN pops + 1 ELSE pops

\* The finger leaves, or the browser takes the touch for a scroll.
TouchEnd ==
    /\ finger # Nowhere
    /\ finger' = Nowhere
    /\ HideEffect(finger)
    /\ TouchUp(finger)
    /\ UNCHANGED <<listening, touches, mouse, lost>>

TouchPops ==
    /\ pops > 0 /\ pops' = pops - 1
    /\ touches' = IF touches > 0 THEN touches - 1 ELSE touches
    /\ UNCHANGED <<ripples, listening, mouse, finger, lost>>

\* The timers of a ripple.
RippleFades(el, i) ==
    /\ ripples[el][i] = "waiting"
    /\ ripples' = [ripples EXCEPT ![el][i] = "fading"]
    /\ UNCHANGED <<listening, touches, pops, mouse, finger, lost>>

RippleGoes(el, i) ==
    /\ ripples[el][i] = "fading"
    /\ ripples' = [ripples EXCEPT ![el] = RemoveAt(@, i)]
    /\ UNCHANGED <<listening, touches, pops, mouse, finger, lost>>

WavesActs ==
    /\ \/ MouseDown \/ MouseUp \/ TouchEnd
       \/ \E el \in Ripplers \cup {Page} : MouseTo(el) \/ TouchStart(el)
    /\ \A el \in Ripplers : Len(ripples'[el]) <= MaxRipples

WavesTimes ==
    \/ TouchPops
    \/ \E el \in Ripplers : \E i \in DOMAIN ripples[el] : RippleFades(el, i) \/ RippleGoes(el, i)

-----------------------------------------------------------------------------
\* No ripple stays behind: one that does not go belongs to a button that is
\* pressed, however fast the presses follow one another, and whether the pointer
\* was let go on the button, left it, or was a finger.
RippleHasPress ==
    \A el \in Ripplers : "held" \in ToSet(ripples[el]) =>
        (mouse.down /\ mouse.over = el) \/ finger = el

\* The mouse has its effect back half a second after a touch: what is counted
\* are the finger that is down and the timers.  It never comes back after a touch
\* that began outside every button, of which no end is counted.
TouchesComeBack ==
    ~lost => touches = pops + (IF finger = Nowhere THEN 0 ELSE 1)
=============================================================================
