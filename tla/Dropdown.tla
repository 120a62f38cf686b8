------------------------------ MODULE Dropdown ------------------------------
(***************************************************************************)
(* A dropdown list (class Dropdown of materialize.js): the list of a       *)
(* select, or the options under an autocompleted input.  A dropdown is a   *)
(* record, and its methods are functions from records to records, which    *)
(* the widgets built on it compose.  Items are numbered from 1; the        *)
(* pages use the mouse and the keyboard (no touch, no hover).              *)
(***************************************************************************)
EXTENDS Integers, Sequences, SequencesExt, FiniteSetsExt

CONSTANT MaxTimers   \* bound on the timers a list has waiting, per kind

\* A closed dropdown: no item has the focus, no letter was typed, no animation
\* runs, and no timer is waiting (closes: those of _handleDocumentClick, resets:
\* those of the letters typed).
Folded == [isOpen |-> FALSE, focusedIndex |-> 0, query |-> <<>>,
           anim |-> {}, shown |-> FALSE, closes |-> 0, resets |-> 0]

\* Variant: the new animation runs beside the old one.
DropAnimate_KeepsOld(running, dir) == running \cup {dir}

\* anime.remove, then the new animation: the old one never completes.
DropAnimate(running, dir) == {dir}

DropOpen(p) ==
    IF p.isOpen THEN p
    ELSE [p EXCEPT !.isOpen = TRUE, !.shown = TRUE, !.anim = DropAnimate(@, "in")]

DropClose(p) ==
    IF ~p.isOpen THEN p
    ELSE [p EXCEPT !.isOpen = FALSE, !.focusedIndex = 0, !.anim = DropAnimate(@, "out")]

\* A click anywhere: while it is open, a dropdown sees it first and closes from
\* a timer, unless the click is in its own list and does not close it.
DocumentClick(p, inside, closeOnClick) ==
    IF p.isOpen /\ (~inside \/ closeOnClick) THEN [p EXCEPT !.closes = @ + 1] ELSE p

\* The timer: what was open when the click came may have been closed since, or
\* closed and opened again.
DeferredClose(p) == DropClose([p EXCEPT !.closes = @ - 1])

-----------------------------------------------------------------------------
\* Variant: the arrow down does not stop at the last item.
Sought_PastTheEnd(p, key, focusable, texts) ==
    IF key = "down" THEN {p.focusedIndex + 1} ELSE {}

\* The item a key looks for, if there is one: with the arrows the next that can
\* have the focus, with a letter the first whose text starts with the letters
\* typed so far.
Sought(p, key, focusable, texts) ==
    LET after  == {i \in focusable : i > p.focusedIndex}
        before == {i \in focusable : i < p.focusedIndex}
        typed  == {i \in DOMAIN texts : IsPrefix(Append(p.query, key), texts[i])}
    IN CASE key = "down" -> IF after = {} THEN {} ELSE {Min(after)}
         [] key = "up"   -> IF before = {} THEN {} ELSE {Max(before)}
         [] key \in {"tab", "esc", "enter"} -> {}
         [] OTHER        -> IF typed = {} THEN {} ELSE {Min(typed)}

\* A key pressed in the open list.  Enter, which clicks the item that has the
\* focus, is left to the widget.  Every key starts a timer that forgets the
\* letters, and none is ever cleared.
ListKeydown(p, key, focusable, texts) ==
    LET found == Sought(p, key, focusable, texts)
        moved == [p EXCEPT !.focusedIndex = IF found = {} THEN @ ELSE Min(found)]
        handled == CASE key \in {"tab", "esc"} -> DropClose(p)
                     [] key \in {"down", "up", "enter"} -> moved
                     [] OTHER -> [moved EXCEPT !.query = Append(@, key)]
    IN IF p.isOpen THEN [handled EXCEPT !.resets = @ + 1] ELSE p

ResetQuery(p) == [p EXCEPT !.query = <<>>, !.resets = @ - 1]

\* The animations complete: what the widget adds is onOpenEnd's; a list that is
\* closed leaves the page.
AnimatedIn(p) == [p EXCEPT !.anim = @ \ {"in"}]
AnimatedOut(p) == [p EXCEPT !.anim = @ \ {"out"}, !.shown = FALSE]

-----------------------------------------------------------------------------
WithinTimers(p) == p.closes <= MaxTimers /\ p.resets <= MaxTimers

DropTypeOK(p, items) ==
    /\ p.isOpen \in BOOLEAN /\ p.shown \in BOOLEAN
    /\ p.focusedIndex \in 0..items
    /\ p.anim \subseteq {"in", "out"}
    /\ p.closes \in 0..MaxTimers /\ p.resets \in 0..MaxTimers

=============================================================================
