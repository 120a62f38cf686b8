------------------------------- MODULE Anime -------------------------------
(***************************************************************************)
(* The animation engine (anime.js in materialize.js): the instances that   *)
(* play are a list, which every animation frame goes through while their   *)
(* callbacks take instances out of it and put others in.  A widget starts  *)
(* an animation the way they all do: anime.remove on the element, then the *)
(* new one.  Times are counted from the first tick of an instance.         *)
(***************************************************************************)
EXTENDS Integers, Sequences, SequencesExt

CONSTANTS
    Targets,    \* the elements animated
    Motions,      \* the animations
    Duration,   \* how long each takes
    Delays,     \* bound: the times between two frames
    MaxStarts   \* bound on the animations started

ASSUME AnimeAssumption == Duration \in Nat /\ Delays \subseteq 0..(Duration + 1)

VARIABLES
    running,    \* v: the instances that play, in order
    requested,  \* B: a frame was requested and did not come yet
    loop,       \* the loop of a frame: its next index, and its last one
    called,     \* the callback run last
    starts      \* how many animations were started

animeVars == <<running, requested, loop, called, starts>>

NotTicked == -1
NoLoop == [at |-> 0, bound |-> 0]

AnimeInit ==
    /\ running = <<>> /\ requested = FALSE /\ loop = NoLoop
    /\ called = <<"still", "still">> /\ starts = 0

\* Variant: the instance stays in the list.
Removed_Keeps(list, t) == list

\* anime.remove: an instance with nothing left to animate is paused, which takes
\* it out of the list.
Removed(list, t) == SelectSeq(list, LAMBDA g : g.target # t)

\* anime(): play() puts the instance in the list, and requests a frame if none is.
Played(list, t, name) == Append(Removed(list, t), [target |-> t, name |-> name, age |-> NotTicked])

Begin(t, name) ==
    /\ loop = NoLoop
    /\ starts < MaxStarts /\ starts' = starts + 1
    /\ running' = Played(running, t, name)
    /\ requested' = TRUE
    /\ UNCHANGED <<loop, called>>

\* The frame comes, some time after the one before.
Frame(delay) ==
    /\ requested /\ loop = NoLoop
    /\ IF running = <<>> THEN requested' = FALSE /\ UNCHANGED <<running, loop>>
       ELSE /\ running' = [i \in DOMAIN running |->
                   [running[i] EXCEPT !.age = IF @ = NotTicked \/ @ >= Duration THEN @ ELSE @ + delay]]
            /\ loop' = [at |-> 1, bound |-> Len(running)]
            /\ UNCHANGED requested
    /\ UNCHANGED <<called, starts>>

\* tick: the first one starts the clock of the instance; at the end the instance
\* leaves the list, and then its callback, which may animate too, is run.
Ticks ==
    /\ loop.at \in 1..loop.bound /\ loop.at <= Len(running)
    /\ LET g == running[loop.at]
           ended == RemoveAt(running, loop.at)
       IN IF g.age < Duration
            THEN /\ running' = [running EXCEPT ![loop.at].age = IF @ = NotTicked THEN 0 ELSE @]
                 /\ UNCHANGED <<called, starts>>
            ELSE /\ called' = <<g.target, g.name>>
                 /\ \/ running' = ended /\ UNCHANGED starts
                    \/ \E t \in Targets, name \in Motions :
                          /\ starts < MaxStarts /\ starts' = starts + 1
                          /\ running' = Played(ended, t, name)
    /\ loop' = [loop EXCEPT !.at = @ + 1]
    /\ UNCHANGED requested

\* Variant: no frame is requested once an instance has left the list.
FrameEnds_Stops ==
    /\ loop.at > Len(running) \/ loop.at > loop.bound
    /\ loop # NoLoop
    /\ requested' = (Len(running) >= loop.bound)
    /\ loop' = NoLoop
    /\ UNCHANGED <<running, called, starts>>

\* The list may have become shorter than the loop: the next frame makes up for
\* the instances that moved under it.
FrameEnds ==
    /\ loop.at > Len(running) \/ loop.at > loop.bound
    /\ loop # NoLoop
    /\ requested' = TRUE
    /\ loop' = NoLoop
    /\ UNCHANGED <<running, called, starts>>

Engine == (\E delay \in Delays : Frame(delay)) \/ Ticks \/ FrameEnds
AnimeActs == \E t \in Targets, name \in Motions : Begin(t, name)

-----------------------------------------------------------------------------
AnimeTypeOK ==
    /\ \A i \in DOMAIN running : running[i].target \in Targets /\ running[i].age \in -1..(2 * Duration)
    /\ requested \in BOOLEAN /\ loop.at \in 0..(loop.bound + 1)

\* What an element plays: the animation that replaced the others.
Playing == [t \in Targets |->
    LET of == {i \in DOMAIN running : running[i].target = t}
    IN IF of = {} THEN "still" ELSE running[CHOOSE i \in of : \A k \in of : i <= k].name]
Expected == INSTANCE Animations WITH playing <- Playing, last <- called

\* The engine does what the widgets expect (module Animations), whatever callbacks
\* do to its list while a frame goes through it; in particular it never stops with
\* an instance in the list.
ImplementsAnimations == Expected!Spec
=============================================================================
