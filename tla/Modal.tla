------------------------------- MODULE Modal -------------------------------
(***************************************************************************)
(* The modal dialogs of the pages (class Modal of materialize.js), driven  *)
(* by the user, by the pickers and by the end of their animations.  The    *)
(* operators Open and Close are the methods of the same name, written as   *)
(* relations: the handlers that call them have them as a conjunct.  Every  *)
(* modal of the pages keeps the default options: dismissible, and the page *)
(* behind does not scroll.                                                 *)
(***************************************************************************)
EXTENDS Integers, FiniteSets, FiniteSetsExt

CONSTANT Modals

ASSUME ModalsAssumption == IsFiniteSet(Modals)

VARIABLES
    modal,         \* per modal: isOpen, its rank among the open ones (nth,
                   \* _nthModalOpened), the animations running on it, whether
                   \* it is displayed with its overlay
    modalsOpen,    \* Modal._modalsOpen
    scrollLocked   \* document.body.style.overflow = 'hidden'

modalVars == <<modal, modalsOpen, scrollLocked>>

Closed == [isOpen |-> FALSE, nth |-> 0, anim |-> {}, shown |-> FALSE]

ModalTypeOK ==
    /\ modal \in [Modals -> [isOpen : BOOLEAN, nth : 0..Cardinality(Modals),
                             anim : SUBSET {"in", "out"}, shown : BOOLEAN]]
    /\ modalsOpen \in 0..Cardinality(Modals)
    /\ scrollLocked \in BOOLEAN

ModalInit ==
    /\ modal = [m \in Modals |-> Closed]
    /\ modalsOpen = 0
    /\ scrollLocked = FALSE

OpenModals == {m \in Modals : modal[m].isOpen}

\* Variant: the new animation runs beside the old one.
Animate_KeepsOld(running, dir) == running \cup {dir}

\* anime.remove on the modal and its overlay, then the new animation: what ran
\* before never reaches its complete callback.
Animate(running, dir) == {dir}

Open(m) ==
    IF modal[m].isOpen THEN UNCHANGED modalVars
    ELSE /\ modalsOpen' = modalsOpen + 1
         /\ modal' = [modal EXCEPT ![m] =
                [isOpen |-> TRUE, nth |-> modalsOpen + 1,
                 anim |-> Animate(@.anim, "in"), shown |-> TRUE]]
         /\ scrollLocked' = TRUE

\* Variant: those not open are not skipped.
Close_Again(S) ==
    /\ modalsOpen' = modalsOpen - Cardinality(S)
    /\ modal' = [m \in Modals |->
          IF m \in S
            THEN [modal[m] EXCEPT !.isOpen = FALSE, !.nth = 0,
                                  !.anim = Animate(@, "out")]
            ELSE modal[m]]
    /\ scrollLocked' = (scrollLocked /\ ~(S # {} /\ modalsOpen' = 0))

\* close() of every modal of S, one after the other; those not open return at
\* once.
Close(S) ==
    LET closing == S \cap OpenModals IN
    /\ modalsOpen' = modalsOpen - Cardinality(closing)
    /\ modal' = [m \in Modals |->
          IF m \in closing
            THEN [modal[m] EXCEPT !.isOpen = FALSE, !.nth = 0,
                                  !.anim = Animate(@, "out")]
            ELSE modal[m]]
    /\ scrollLocked' =
          (scrollLocked /\ ~(closing # {} /\ modalsOpen' = 0))

\* The animation that opens a modal ends: onOpenEnd.
OpenEnds(m) ==
    /\ "in" \in modal[m].anim
    /\ modal' = [modal EXCEPT ![m].anim = @ \ {"in"}]
    /\ UNCHANGED <<modalsOpen, scrollLocked>>

\* The animation that closes it ends: it is hidden, its overlay leaves the
\* page, and onCloseEnd is called.
CloseEnds(m) ==
    /\ "out" \in modal[m].anim
    /\ modal' = [modal EXCEPT ![m].anim = @ \ {"out"}, ![m].shown = FALSE]
    /\ UNCHANGED <<modalsOpen, scrollLocked>>

\* While an overlay is displayed it takes every click meant for the page; while
\* a modal is open focus is brought back to it, so no key reaches the page.
Clickable == \A m \in Modals : ~modal[m].shown
Focusable == OpenModals = {}

\* What can be touched of a modal: it is displayed, and no open one is above it.
Reachable(m) ==
    /\ modal[m].shown
    /\ modal[m].isOpen => \A n \in OpenModals : modal[n].nth <= modal[m].nth

=============================================================================
