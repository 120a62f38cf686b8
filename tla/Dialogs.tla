------------------------------ MODULE Dialogs ------------------------------
(***************************************************************************)
(* The dialogs with tabs: the messages of each incident on the admin page  *)
(* (incidents.gohtml), and the ways to subscribe on the public ones.  When *)
(* a dialog has opened, init.js sets up the tabs of all of them, for the   *)
(* address there is by then; the Send button looks for the content whose   *)
(* class is 'active'.  (The boxes that show errors are left out.)          *)
(***************************************************************************)
EXTENDS Modal, Sequences, SequencesExt

-----------------------------------------------------------------------------
(* The tabs in a modal (class Tabs of materialize.js, default options: not  *)
(* swipeable).  A list of tabs is a record and its methods are functions;   *)
(* tab i has link i and content i, in the order of the page.  The link of a *)
(* list that is not set up is a plain link: it changes the address.         *)

\* As the page is served: active is the link with that class, 0 if none; every
\* content is displayed, and none has the class 'active' (marked).
TabsServed(links, active) ==
    [links |-> links, active |-> active, content |-> 0, marked |-> {}, hidden |-> {},
     isSetup |-> FALSE]

\* _setupActiveTabLink: the link the address names, else the one that was
\* active, else the first.  What an earlier content was marked with stays.
SetupActiveTabLink(t, fragment) ==
    LET named  == {i \in DOMAIN t.links : t.links[i] = fragment}
        active == IF named # {} THEN Min(named) ELSE Max({t.active, 1})
    IN [t EXCEPT !.active = active, !.content = active, !.marked = @ \cup {active}]

\* _setupNormalTabs and _teardownNormalTabs: the other contents are hidden; all
\* are displayed again.
SetupNormalTabs(t) == [t EXCEPT !.hidden = @ \cup (DOMAIN t.links \ {t.active}), !.isSetup = TRUE]
TeardownNormalTabs(t) == [t EXCEPT !.hidden = {}, !.isSetup = FALSE]

\* The constructor destroys the instance there was.
NewTabs(t, fragment) ==
    SetupNormalTabs(SetupActiveTabLink(IF t.isSetup THEN TeardownNormalTabs(t) ELSE t, fragment))

\* Variant: the old content keeps its class.
ClickTab_KeepsMark(t, i) ==
    LET old == {t.content} \ {i}
    IN [t EXCEPT !.active = i, !.content = i, !.marked = @ \cup {i},
                 !.hidden = (@ \cup old) \ {i}]

\* _handleTabClick: the content of the link is shown, then the old one hidden,
\* unless they are the same.
ClickTab(t, i) ==
    LET old == {t.content} \ {i}
    IN [t EXCEPT !.active = i, !.content = i, !.marked = (@ \cup {i}) \ old,
                 !.hidden = (@ \cup old) \ {i}]

Shown(t) == DOMAIN t.links \ t.hidden

TabsTypeOK(t) ==
    /\ {t.active, t.content} \subseteq 0..Len(t.links)
    /\ t.marked \cup t.hidden \subseteq DOMAIN t.links
    /\ t.isSetup \in BOOLEAN

-----------------------------------------------------------------------------
(* The dialogs *)

CONSTANTS
    TabLinks,     \* per dialog, the links of its tabs
    Active,    \* per dialog, the tab served with the class 'active', or 0
    Senders,   \* the dialogs with a Send button
    Together,  \* per page, its dialogs
    Fragments  \* the fragments a page may be opened with

\* Every list the pages have is served with a tab at least.
ASSUME DialogsAssumption ==
    /\ TabLinks \in [Modals -> Seq(STRING)] /\ Senders \subseteq Modals
    /\ \A m \in Modals : Len(TabLinks[m]) > 0 /\ Active[m] \in 0..Len(TabLinks[m])

VARIABLES
    onPage,    \* the dialogs of the page
    tabs,      \* per dialog, its list of tabs
    fragment,  \* the fragment of the address
    named      \* the address has named a tab since the page was loaded

dialogVars == <<modalVars, onPage, tabs, fragment, named>>

Top == "!"   \* the fragment of the links that lead nowhere, href="#!"
LinkNames == UNION {ToSet(TabLinks[m]) : m \in Modals}

ASSUME TopAssumption == Top \notin LinkNames

\* The page is loaded: its dialogs are closed, its tabs not set up.
Loads(at) ==
    /\ modal' = [m \in Modals |-> Closed] /\ modalsOpen' = 0 /\ scrollLocked' = FALSE
    /\ tabs' = [m \in Modals |-> TabsServed(TabLinks[m], Active[m])]
    /\ fragment' = at /\ named' = (at \in LinkNames)
    /\ UNCHANGED onPage

DialogInit ==
    /\ ModalInit /\ onPage \in Together
    /\ tabs = [m \in Modals |-> TabsServed(TabLinks[m], Active[m])]
    /\ fragment \in Fragments /\ named = (fragment \in LinkNames)

\* Following a link within the page.
Follow(link) == fragment' = link /\ named' = (named \/ link \in LinkNames)

-----------------------------------------------------------------------------
\* The trigger's own link is not followed.
OpenDialog(m) ==
    /\ Clickable /\ m \in onPage
    /\ Open(m)
    /\ UNCHANGED <<onPage, tabs, fragment, named>>

\* onOpenEnd: $('.modal-tabs').tabs(), every list of the page.
DialogOpened(m) ==
    /\ OpenEnds(m)
    /\ tabs' = [l \in Modals |-> IF l \in onPage THEN NewTabs(tabs[l], fragment) ELSE tabs[l]]
    /\ UNCHANGED <<onPage, fragment, named>>

DialogShut(m) == CloseEnds(m) /\ UNCHANGED <<onPage, tabs, fragment, named>>

\* The Close link, which is followed; the overlay, or Escape.
PressClose(m) ==
    /\ Reachable(m) /\ Close({m}) /\ Follow(Top) /\ UNCHANGED <<onPage, tabs>>
DismissDialogs ==
    /\ OpenModals # {} /\ Close(OpenModals) /\ UNCHANGED <<onPage, tabs, fragment, named>>

\* A click on a tab: before the list is set up it is an ordinary link.
PressTab(m, i) ==
    /\ Reachable(m) /\ i \in DOMAIN TabLinks[m]
    /\ IF tabs[m].isSetup
         THEN tabs' = [tabs EXCEPT ![m] = ClickTab(@, i)] /\ UNCHANGED <<fragment, named>>
         ELSE Follow(TabLinks[m][i]) /\ UNCHANGED tabs
    /\ UNCHANGED <<modalVars, onPage>>

\* Send reads the fields of the first content that is marked, and its link is
\* followed too.  Without one it posts to no incident, which is refused; what is
\* accepted reloads the page, before or after the link is followed.
ReadBySend(m) == Min(tabs[m].marked \cup {Len(TabLinks[m]) + 1})
PressSend(m) ==
    /\ m \in Senders /\ Reachable(m)
    /\ \/ Follow(Top) /\ UNCHANGED <<modalVars, onPage, tabs>>
       \/ /\ ReadBySend(m) \in DOMAIN TabLinks[m]
          /\ \E at \in {fragment, Top} : Loads(at)

DialogActs ==
    \/ DismissDialogs
    \/ \E m \in Modals :
          \/ OpenDialog(m) \/ PressClose(m) \/ PressSend(m)
          \/ \E i \in DOMAIN TabLinks[m] : PressTab(m, i)

DialogTimes(m) == DialogOpened(m) \/ DialogShut(m)

-----------------------------------------------------------------------------
DialogTypeOK ==
    /\ ModalTypeOK
    /\ \A m \in Modals : TabsTypeOK(tabs[m])

\* What Send sends is what the administrator sees: the one content displayed is
\* the one it reads, over any number of openings, tabs and closings in the middle
\* of an animation.  It fails once the address has named a tab (its link was used
\* while the dialog was opening): then two contents are marked.
SentIsShown ==
    \A m \in Senders : modal[m].shown /\ tabs[m].isSetup /\ ~named =>
        Shown(tabs[m]) = {ReadBySend(m)}

\* Escape and the overlay close the dialog for good: once its animations are over
\* a dialog is displayed exactly if it is open, and the page scrolls again when
\* none is.
DialogsSettle ==
    /\ \A m \in Modals : modal[m].anim = {} => modal[m].shown = modal[m].isOpen
    /\ scrollLocked = (OpenModals # {})

\* A dialog never misleads: neither about what it sends, nor by staying or by
\* being gone when it holds itself otherwise.
DialogsHonest == SentIsShown /\ DialogsSettle

=============================================================================
