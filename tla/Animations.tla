----------------------------- MODULE Animations -----------------------------
(***************************************************************************)
(* What the widgets expect of the animation engine: an element plays one   *)
(* animation at a time; starting another replaces it; an animation that is *)
(* not replaced ends, and only then is its callback run, once.             *)
(***************************************************************************)
CONSTANTS
    Targets,   \* the elements animated
    Motions      \* the animations, such as "in" and "out"

VARIABLES
    playing,   \* per element: the animation it plays, or Still
    last       \* the callback run last: its element and its animation

Still == "still"
NoCallback == <<Still, Still>>

Init == playing = [t \in Targets |-> Still] /\ last = NoCallback

Start(t, name) == playing' = [playing EXCEPT ![t] = name] /\ UNCHANGED last

\* The callback may start an animation itself.
Complete(t) ==
    LET ended == [playing EXCEPT ![t] = Still] IN
    /\ playing[t] # Still
    /\ last' = <<t, playing[t]>>
    /\ \/ playing' = ended
       \/ \E u \in Targets, name \in Motions : playing' = [ended EXCEPT ![u] = name]

Next == \E t \in Targets : Complete(t) \/ \E name \in Motions : Start(t, name)

\* An element does not play for ever.
Spec == Init /\ [][Next]_<<playing, last>> /\ \A t \in Targets : WF_<<playing, last>>(Complete(t))
=============================================================================
