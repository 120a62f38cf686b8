---------------------------- MODULE Autocomplete ----------------------------
(***************************************************************************)
(* The completion of the component names (class Autocomplete of            *)
(* materialize.js, with the options of chips-components.gohtml: no text is *)
(* too short, no limit).  The field is a record w, of which the            *)
(* completion keeps value (the text of the input), options and active (the *)
(* list it rendered, and the option the arrows reached), oldVal, isOpen,   *)
(* mousedown, and drop, its dropdown, which neither takes the focus nor    *)
(* closes on a click in its list.                                          *)
(***************************************************************************)
EXTENDS Integers, Sequences, SequencesExt, FiniteSetsExt, Dropdown

CONSTANT Components   \* the configured names, in order, as sequences of letters

NoText == <<"undefined">>   \* oldVal before the first keyup, and after a reset

\* Where a text is found in a name, 0 if it is not.
Position(name, text) ==
    LET found == {i \in 1..Len(name) :
                    i + Len(text) - 1 <= Len(name) /\ SubSeq(name, i, i + Len(text) - 1) = text}
    IN IF found = {} THEN 0 ELSE Min(found)

\* The names that contain a text, those that contain it earlier first.
Matching(text) ==
    LET at(i)     == Position(Components[i], text)
        found     == {i \in DOMAIN Components : at(i) > 0}
        before(i) == {j \in found : at(j) < at(i) \/ (at(j) = at(i) /\ j <= i)}
    IN [k \in 1..Cardinality(found) |->
           Components[CHOOSE i \in found : Cardinality(before(i)) = k]]

\* Variant: the option the arrows had reached stays active.
ResetAutocomplete_KeepsActive(w) ==
    [w EXCEPT !.options = <<>>, !.oldVal = NoText, !.isOpen = FALSE, !.mousedown = FALSE]

ResetAutocomplete(w) ==
    [w EXCEPT !.options = <<>>, !.active = 0, !.oldVal = NoText,
              !.isOpen = FALSE, !.mousedown = FALSE]

\* _renderDropdown resets first, and so undoes the isOpen = true of its caller:
\* nobody ever sees the flag up.
RenderDropdown(w) == [ResetAutocomplete(w) EXCEPT !.options = Matching(w.value)]

OpenList(w) ==
    [RenderDropdown([w EXCEPT !.isOpen = TRUE]) EXCEPT !.drop = DropOpen(@)]

CloseList(w) == [w EXCEPT !.drop = DropClose(@)]

\* Variant: the list waits for a click.
InputBlur_KeepsList(w) == w

\* The input loses the focus, unless the mouse went down in the list.
InputBlur(w) == IF w.mousedown THEN w ELSE ResetAutocomplete(CloseList(w))

\* A key of the input comes up, or the input gets the focus (which opens the
\* list when it came by Tab): a text that changed is looked up.
InputKeyup(w) ==
    [(IF w.oldVal # w.value THEN OpenList(w) ELSE w) EXCEPT !.oldVal = w.value]

InputFocus(w) ==
    [(IF w.oldVal # w.value /\ w.tabPressed THEN OpenList(w) ELSE w) EXCEPT !.oldVal = w.value]

\* The arrows move among the options.
MoveActive(w, key) ==
    [w EXCEPT !.active = IF key = "up" /\ @ > 1 THEN @ - 1
                         ELSE IF key = "down" /\ @ < Len(w.options) THEN @ + 1 ELSE @]

\* An option is chosen: its text goes to the input, the list closes, and the
\* owner of the input is told.
SelectOption(w, i) == CloseList(ResetAutocomplete([w EXCEPT !.value = w.options[i]]))

=============================================================================
