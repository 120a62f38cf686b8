------------------------------- MODULE Pages -------------------------------
(***************************************************************************)
(* The pages and their scripts: init.js, what materialize.js attaches to   *)
(* every page, and the engine under its animations.  The scripts of a page *)
(* share the page and nothing else, except where a dialog holds the        *)
(* subscription form; a behaviour therefore follows one script, with       *)
(* everything that may happen to it, and the dialogs with their form.      *)
(***************************************************************************)
EXTENDS Dialogs, Subscribe, Tooltip, TextField, Visit, Anime, Waves

CONSTANTS
    Scripts,    \* bound: the scripts followed
    MarkViews,  \* the views a dropdown is opened in
    FormDialog, \* the dialog of the subscription form, and its tab
    FormTab

ASSUME PagesAssumption ==
    /\ FormDialog \in Modals
    /\ \A v \in MarkViews : /\ v \in [window : Nat, top : Nat, trigger : Nat, list : Nat]
                            /\ v.top + v.trigger <= v.window

VARIABLES
    script,   \* the script this behaviour follows
    list      \* a dropdown that was opened: its view, whether it may cover its
              \* trigger, where it is placed; or NoList

pageVars == <<dialogVars, subVars, tipVars, textVars, visitVars, animeVars, wavesVars>>
vars == <<pageVars, script, list>>

NoList == <<>>

Init ==
    /\ script \in Scripts /\ list = NoList
    /\ IF script = "dialogs" THEN DialogInit
       ELSE ModalInit /\ onPage = {} /\ fragment = Top /\ named = FALSE
            /\ tabs = [m \in Modals |-> TabsServed(TabLinks[m], Active[m])]
    /\ SubInit /\ TipInit /\ AnimeInit /\ WavesInit
    /\ IF script = "fields" THEN TextInit
       ELSE /\ text = [f \in TextFields |-> Loaded(f, NoLines)]
            /\ scripted = [f \in TextFields |-> FALSE]
    /\ IF script = "visit" THEN VisitInit ELSE Unvisited

-----------------------------------------------------------------------------
(* Where a dropdown list is placed (checkPossibleAlignments and             *)
(* _getDropdownPosition of materialize.js), vertically: under the top of    *)
(* its trigger, above its bottom, or cut to the side that has more space.   *)
(* (Horizontally the list has the width of its trigger.)  Positions are     *)
(* lines of the window, from 0; the containers of the pages let their       *)
(* content overflow.                                                        *)

\* A view: the height of the window, the top and the height of the trigger, and
\* the height the list would like.
Views(windows, heights, lists) ==
    {v \in [window : windows, top : 0..20, trigger : heights, list : lists] :
        v.top + v.trigger <= v.window}

\* Variant: the height of the trigger is gained above, as the other branch of
\* checkPossibleAlignments has it.
SpaceOnTop_Gains(v, offset) == v.top + v.trigger - (v.list - offset)

\* What is left below, and above, a list aligned with its trigger; offset is the
\* height of a trigger the list must not cover.
SpaceOnTop(v, offset) == v.top + v.trigger - (v.list + offset)
SpaceOnBottom(v, offset) == v.window - (v.top + v.list + offset)

\* The list's top and height.
Placed(v, cover) ==
    LET offset == IF cover THEN 0 ELSE v.trigger
        above  == SpaceOnTop(v, offset)
        below  == SpaceOnBottom(v, offset)
        up     == v.top + offset - v.list + (IF cover THEN v.trigger ELSE 0)
    IN IF below >= 0 THEN [top |-> v.top + offset, height |-> v.list]
       ELSE IF above >= 0 THEN [top |-> up, height |-> v.list]
       ELSE IF above > below THEN [top |-> up - above, height |-> v.list + above]
       ELSE [top |-> v.top + offset, height |-> v.list + below]

\* The list is inside the window, wherever its trigger is.
InWindow(v, box) == box.top >= 0 /\ box.height >= 0 /\ box.top + box.height <= v.window

-----------------------------------------------------------------------------
\* The form is used while its tab is displayed in the open dialog.
UseForm ==
    /\ Reachable(FormDialog) /\ modal[FormDialog].isOpen
    /\ FormTab \in Shown(tabs[FormDialog])
    /\ \E email \in Emails, byEnter \in BOOLEAN : Submit(email, byEnter)

Dialog ==
    /\ script = "dialogs"
    /\ \/ DialogActs /\ UNCHANGED subVars
       \/ UseForm /\ UNCHANGED dialogVars
    /\ UNCHANGED <<tipVars, textVars, visitVars, animeVars, wavesVars, script, list>>

OpensDialog(m) ==
    /\ script = "dialogs" /\ DialogTimes(m)
    /\ UNCHANGED <<subVars, tipVars, textVars, visitVars, animeVars, wavesVars, script, list>>

Calls(i) ==
    /\ script = "dialogs" /\ i \in DOMAIN calls /\ Call(i)
    /\ UNCHANGED <<dialogVars, tipVars, textVars, visitVars, animeVars, wavesVars, script, list>>

Tip ==
    /\ script = "tips"
    /\ \/ \E b \in Tips \cup {None} : PointTo(b) \/ \E byTab \in BOOLEAN : FocusTo(b, byTab)
       \/ TabUp
    /\ UNCHANGED <<dialogVars, subVars, textVars, visitVars, animeVars, wavesVars, script, list>>

TipTimes(b) ==
    /\ script = "tips" /\ TipTimer(b)
    /\ UNCHANGED <<dialogVars, subVars, textVars, visitVars, animeVars, wavesVars, script, list>>

Field ==
    /\ script = "fields"
    /\ \E f \in TextFields :
          \/ FieldFocus(f) \/ FieldBlur(f)
          \/ \E new \in Texts : FieldKey(f, new) \/ FieldPaste(f, new) \/ FieldWritten(f, new)
    /\ UNCHANGED <<dialogVars, subVars, tipVars, visitVars, animeVars, wavesVars, script, list>>

Visits ==
    /\ script = "visit" /\ VisitActs
    /\ UNCHANGED <<dialogVars, subVars, tipVars, textVars, animeVars, wavesVars, script, list>>

Loading ==
    /\ script = "visit" /\ (Serve \/ LoadTimezone)
    /\ UNCHANGED <<dialogVars, subVars, tipVars, textVars, animeVars, wavesVars, script, list>>

Motion ==
    /\ script = "engine" /\ AnimeActs
    /\ UNCHANGED <<dialogVars, subVars, tipVars, textVars, visitVars, wavesVars, script, list>>

Frames ==
    /\ script = "engine" /\ Engine
    /\ UNCHANGED <<dialogVars, subVars, tipVars, textVars, visitVars, wavesVars, script, list>>

Ripple ==
    /\ script = "waves" /\ (WavesActs \/ WavesTimes)
    /\ UNCHANGED <<dialogVars, subVars, tipVars, textVars, visitVars, animeVars, script, list>>

\* A dropdown is placed when it opens (_placeDropdown), wherever the page was
\* scrolled to.
PlaceList ==
    /\ script = "lists" /\ list = NoList
    /\ \E view \in MarkViews, cover \in BOOLEAN :
          list' = [view |-> view, cover |-> cover, box |-> Placed(view, cover)]
    /\ UNCHANGED <<pageVars, script>>

FoldList == list # NoList /\ list' = NoList /\ UNCHANGED <<pageVars, script>>

-----------------------------------------------------------------------------
Next ==
    \/ Dialog \/ Tip \/ Field \/ Visits \/ Loading \/ Motion \/ Frames \/ Ripple
    \/ PlaceList \/ FoldList
    \/ \E m \in Modals : OpensDialog(m)
    \/ \E i \in 1..MaxCalls : Calls(i)
    \/ \E b \in Tips : TipTimes(b)

Spec == Init /\ [][Next]_vars

\* A call is answered or times out, timers fire, frames come while the page is
\* displayed, the server serves and the page runs its script.
Fairness ==
    /\ \A i \in 1..MaxCalls : WF_vars(Calls(i))
    /\ \A b \in Tips : WF_vars(TipTimes(b))
    /\ WF_vars(Frames) /\ WF_vars(Loading)

FairSpec == Spec /\ Fairness

-----------------------------------------------------------------------------
TypeOK ==
    /\ script \in Scripts
    /\ DialogTypeOK /\ SubTypeOK /\ TipTypeOK /\ TextTypeOK /\ AnimeTypeOK
    /\ script = "visit" => VisitTypeOK

\* An opened list is inside the window, wherever its trigger is scrolled to and
\* however long it would be, whether or not it may cover its trigger.  (One that
\* must not cover it, as that of the completion, does cover it when it opens
\* upwards.)
ListInWindow == list # NoList => InWindow(list.view, list.box)

\* Nothing a pointer, a finger or the focus brought stays once it is gone.
NothingStays == TipSettled /\ RippleHasPress /\ TouchesComeBack

\* Nothing the visitor reads is covered, cut, or out of the window.
NothingHidden == LabelAway /\ TextFits /\ ListInWindow

\* What the visitor waits for comes: an answer, a tooltip's end, a timezone.
PageSettles == ButtonComesBack /\ TipsGoAway /\ VisitSettles

=============================================================================
