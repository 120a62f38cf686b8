----------------------------- MODULE FormSelect -----------------------------
(***************************************************************************)
(* A select of the forms (class FormSelect of materialize.js): the page's  *)
(* own <select> is hidden behind a read-only input and a dropdown list,    *)
(* and three things must say the same: the option selected, the text of    *)
(* the input, the item marked in the list.                                 *)
(***************************************************************************)
EXTENDS Integers, Sequences, Dropdown

CONSTANT OptionTexts   \* the options, in order: their texts, as letters

VARIABLE select   \* its dropdown (drop), the option selected (value), the option
                  \* whose text the input shows, the items marked 'selected', and
                  \* what has the focus

NotHere == -2      \* the focus is elsewhere, or is on: the input, the list, item i
OnTrigger == -1
OnList == 0

Items == DOMAIN OptionTexts

\* The server, or the browser, selected an option.
SelectInit ==
    select \in {[drop |-> Folded, value |-> i, text |-> i, marked |-> {i},
                 focus |-> NotHere] : i \in Items}

\* _setValueToInput and _setSelectedStates.
SetValueToInput(s) == [s EXCEPT !.text = s.value]
SetSelectedStates(s) == [s EXCEPT !.marked = {s.value}]

\* close() of a list that is open gives the focus back to the input.
CloseSelect(s) ==
    [s EXCEPT !.drop = DropClose(@), !.focus = IF s.drop.isOpen THEN OnTrigger ELSE @]

SelectBecomes(s) == WithinTimers(s.drop) /\ select' = s

-----------------------------------------------------------------------------
\* A click on the input: the list opens; a list that was open synchronises the
\* select first, and closes from its timer.
ClickSelect ==
    SelectBecomes(SetSelectedStates(SetValueToInput(
        [select EXCEPT !.focus = OnTrigger,
                       !.drop = DropOpen(DocumentClick(@, FALSE, TRUE))])))

\* A click beside the select.
ClickBeside(s) == [s EXCEPT !.focus = NotHere, !.drop = DocumentClick(@, FALSE, TRUE)]

\* Variant: the item that was marked before keeps its mark.
OptionClick_KeepsMarks(s, item) ==
    LET marked == [s EXCEPT !.marked = @ \cup {item}]
    IN IF s.value = item THEN marked ELSE SetValueToInput([marked EXCEPT !.value = item])

\* A click on an item: it is marked, and alone; the change event of an option
\* that was not selected brings its text to the input.
OptionClick(s, item) ==
    LET marked == [s EXCEPT !.marked = {item}]
    IN IF s.value = item THEN marked ELSE SetValueToInput([marked EXCEPT !.value = item])

\* With the mouse: the list may be on its way out, it is there to be clicked.
ClickItem(item) ==
    /\ select.drop.shown
    /\ SelectBecomes(OptionClick(
           [select EXCEPT !.focus = item, !.drop = DocumentClick(@, TRUE, TRUE)], item))

\* A key on the input.
KeyTrigger(key) ==
    /\ select.focus = OnTrigger
    /\ key \in {"down", "enter"}
    /\ ~select.drop.isOpen
    /\ SelectBecomes([select EXCEPT !.drop = DropOpen(@)])

\* A key on the list or on one of its items: Enter clicks the item the dropdown
\* holds as focused, the other keys move the focus or close the list.
KeyEnter(s) ==
    LET item == s.drop.focusedIndex
        clicked == OptionClick([s EXCEPT !.drop = DocumentClick(@, TRUE, TRUE)], item)
    IN IF item = 0 THEN s ELSE clicked

KeyMoves(s, key) ==
    LET drop  == ListKeydown(s.drop, key, Items, OptionTexts)
        found == Sought(s.drop, key, Items, OptionTexts)
    IN IF ~drop.isOpen THEN [CloseSelect(s) EXCEPT !.drop = drop]
       ELSE [s EXCEPT !.drop = drop, !.focus = IF found = {} THEN @ ELSE drop.focusedIndex]

KeyList(key) ==
    /\ select.focus >= OnList
    /\ select.drop.isOpen
    /\ SelectBecomes(KeyMoves(IF key = "enter" THEN KeyEnter(select) ELSE select, key))

\* The timers, and the animations.  An opened list takes the focus, and passes
\* it to the item that is marked; a closed one loses it with its display.
SelectCloses ==
    /\ select.drop.closes > 0
    /\ select' = [CloseSelect(select) EXCEPT !.drop = DeferredClose(select.drop)]

SelectForgets ==
    /\ select.drop.resets > 0
    /\ select' = [select EXCEPT !.drop = ResetQuery(@)]

SelectOpened ==
    LET first == CHOOSE item \in select.marked : \A other \in select.marked : item <= other
    IN /\ "in" \in select.drop.anim
       /\ select' = [select EXCEPT !.focus = first,
                                   !.drop = [AnimatedIn(@) EXCEPT !.focusedIndex = first]]

SelectHidden ==
    /\ "out" \in select.drop.anim
    /\ select' = [select EXCEPT !.drop = AnimatedOut(@),
                                !.focus = IF @ >= OnList THEN NotHere ELSE @]

-----------------------------------------------------------------------------
SelectTypeOK ==
    /\ DropTypeOK(select.drop, Len(OptionTexts))
    /\ select.value \in Items /\ select.text \in Items /\ select.marked \subseteq Items
    /\ select.focus \in {NotHere, OnTrigger, OnList} \cup Items

\* Whatever way an option was chosen, the select tells the form what it shows
\* the user: the option selected is the text of the input and the one item
\* marked in the list.
SelectShowsValue ==
    select.text = select.value /\ select.marked = {select.value}

=============================================================================
