------------------------------- MODULE Chips -------------------------------
(***************************************************************************)
(* The components of an incident, as chips in front of an autocompleted    *)
(* input (class Chips of materialize.js, set up by chips-components.gohtml)*)
(* The chips are kept three times: chipsData, which the form submits, the  *)
(* collection $chips, and the elements in the page; the index of a chip in *)
(* the page is used as its index in the other two.                         *)
(***************************************************************************)
EXTENDS Autocomplete

CONSTANTS
    Letters,    \* the letters typed
    MaxText     \* bound on the length of a text typed

VARIABLES
    field,      \* the input, its completion, and the chips: data, els ($chips) and
                \* dom; selected (_selectedChip); keydown (Chips._keydown) and
                \* tabPressed (M.tabPressed); what has the focus, and whether it
                \* came to a chip by Tab (strayed); whether the mouse last came up
                \* where no click was seen (unseen)
    held        \* the keys that are down

\* What has the focus: nothing here, the input, the list, or a chip, by its name.
Away == <<>>
Input == <<"input">>
List == <<"list">>

\* _selectedChip: null, an element that is no longer in the page (or none at
\* all), or a chip, by its name.
NoChip == <<"null">>
Gone == <<"gone">>

NoField(names) ==
    [value |-> <<>>, options |-> <<>>, active |-> 0, oldVal |-> NoText,
     isOpen |-> FALSE, mousedown |-> FALSE, drop |-> Folded,
     data |-> names, els |-> names, dom |-> names, selected |-> NoChip,
     keydown |-> FALSE, tabPressed |-> FALSE, focus |-> Away, strayed |-> FALSE,
     unseen |-> FALSE]

ChipsInit(names) == field = NoField(names) /\ held = {}

OnChip(w) == w.focus \in ToSet(w.dom)
Known(name) == name \in ToSet(Components)

\* The index of the selected chip among the elements, 0 if it is not there.
SelectedIndex(w) ==
    Max({0} \cup {i \in DOMAIN w.dom : w.dom[i] = w.selected})

-----------------------------------------------------------------------------
\* Variant: every blur forgets the selected chip.
Leave_Forgets(w) ==
    LET left == IF w.focus = Input THEN InputBlur(w) ELSE w
    IN [left EXCEPT !.focus = Away, !.strayed = FALSE,
                    !.selected = IF w.focus # Away THEN NoChip ELSE @]

\* The focus leaves: the completion closes, and a blur while no key is down
\* forgets the selected chip.
Leave(w) ==
    LET left == IF w.focus = Input THEN InputBlur(w) ELSE w
    IN [left EXCEPT !.focus = Away, !.strayed = FALSE,
                    !.selected = IF w.focus # Away /\ ~w.keydown THEN NoChip ELSE @]

FocusOn(w, place) ==
    LET there == [Leave(w) EXCEPT !.focus = place]
    IN IF w.focus = place THEN w ELSE IF place = Input THEN InputFocus(there) ELSE there

\* Selecting an index where there is no chip leaves an empty selection, and the
\* handler with a TypeError.
SelectChip(w, i) ==
    IF i \in DOMAIN w.els
      THEN [FocusOn([w EXCEPT !.selected = w.els[i]], w.els[i]) EXCEPT !.strayed = FALSE]
      ELSE [w EXCEPT !.selected = Gone]

\* The elements other than el, in their order.
Without(s, el) ==
    LET kept == {i \in DOMAIN s : s[i] # el}
        nth(k) == CHOOSE i \in kept : Cardinality({j \in kept : j <= i}) = k
    IN [k \in 1..Cardinality(kept) |-> s[nth(k)]]

\* Variant: $chips keeps the element that was deleted.
DeleteChip_KeepsElement(w, i, blurs) ==
    LET last == IF i = 0 THEN Len(w.data) ELSE i IN
    IF last \notin DOMAIN w.els THEN w
    ELSE [w EXCEPT !.dom = Without(@, w.els[last]), !.data = RemoveAt(@, last),
                   !.focus = IF @ = w.els[last] THEN Away ELSE @]

\* Index 0 stands for the -1 of an element that is not found, which both eq and
\* splice take for the last.  A browser may, or may not, blur an element that
\* is removed with the focus.
DeleteChip(w, i, blurs) ==
    LET last == IF i = 0 THEN Len(w.data) ELSE i
        chip == w.els[last]
        left == IF w.focus # chip THEN w
                ELSE IF blurs THEN Leave(w) ELSE [w EXCEPT !.focus = Away, !.strayed = FALSE]
    IN IF last \notin DOMAIN w.els THEN w
       ELSE [left EXCEPT !.dom = Without(@, chip),
                         !.els = Without(@, chip),
                         !.data = RemoveAt(@, last),
                         !.selected = IF @ = chip THEN Gone ELSE @]

\* The callback's turn for the i-th chip, if there is one by then.
LookAt(w, i) ==
    IF i <= Len(w.data) /\ ~Known(w.data[i]) THEN DeleteChip(w, i, FALSE) ELSE w

\* Variant: the callback stops before the chip that was just added.
OnChipAdd_StopsEarly(w) ==
    LET after[i \in 0..Len(w.data)] == IF i = 0 THEN w ELSE LookAt(after[i - 1], i)
    IN after[Len(w.data) - 1]

\* The page's callback deletes the chips whose name is not configured, while it
\* iterates over them: after each one it deletes, forEach skips a chip.
OnChipAdd(w) ==
    LET after[i \in 0..Len(w.data)] == IF i = 0 THEN w ELSE LookAt(after[i - 1], i)
    IN after[Len(w.data)]

\* Variant: a name is not looked up among the chips.
IsValid_AnyName(w, name) == name # <<>>

IsValid(w, name) == name # <<>> /\ name \notin ToSet(w.data)

AddChip(w, name) ==
    IF IsValid(w, name)
      THEN OnChipAdd([w EXCEPT !.data = Append(@, name), !.els = Append(@, name),
                               !.dom = Append(@, name)])
      ELSE w

OnAutocomplete(w, name) == FocusOn([AddChip(w, name) EXCEPT !.value = <<>>], Input)
Complete(w, i) == OnAutocomplete(SelectOption(w, i), w.options[i])

-----------------------------------------------------------------------------
\* A key goes down, anywhere in the page.
Pressed(w, key) ==
    [w EXCEPT !.keydown = TRUE, !.tabPressed = @ \/ key \in {"tab", "shift-tab", "up", "down"}]

\* Enter in the input goes through three handlers: the dropdown opens if it is
\* closed, the completion chooses the active option, and the chips add what the
\* input holds by then, unless a list they believe open is in the way.
InputEnter(w) ==
    LET opened == [w EXCEPT !.drop = DropOpen(@)]
        chosen == IF w.active \in DOMAIN w.options
                    THEN Complete(opened, w.active) ELSE opened
    IN IF chosen.isOpen THEN chosen ELSE [AddChip(chosen, chosen.value) EXCEPT !.value = <<>>]

\* Backspace in the input: on a text, its last letter; on none, the last chip.
InputBack(w) ==
    IF w.value # <<>> THEN [w EXCEPT !.value = Front(@)]
    ELSE IF w.data # <<>> THEN SelectChip(w, Len(w.data)) ELSE w

InputKeydown(w, key) ==
    CASE key = "enter" -> InputEnter(w)
      [] key = "back"  -> InputBack(w)
      [] key = "down"  -> MoveActive([w EXCEPT !.drop = DropOpen(@)], key)
      [] key = "up"    -> MoveActive(w, key)
      [] OTHER         -> [w EXCEPT !.value = Append(@, key)]

\* Backspace on a chip, or in the list: the selected chip goes, whatever has the
\* focus, and the one before it is selected.
ChipBack(w) ==
    LET index == SelectedIndex(w)
        deleted == IF w.selected = NoChip THEN w
                   ELSE [DeleteChip(w, index, FALSE) EXCEPT !.selected = NoChip]
        next == IF w.selected = NoChip THEN Len(w.data) + 1 ELSE Max({index - 1, 1})
    IN IF deleted.data = <<>> THEN deleted ELSE SelectChip(deleted, next)

ChipKeydown(w, key) ==
    LET index == SelectedIndex(w) IN
    CASE key = "back" -> ChipBack(w)
      [] key = "left" /\ w.selected # NoChip /\ index > 1 -> SelectChip(w, index - 1)
      [] key = "right" /\ w.selected # NoChip ->
             IF index >= Len(w.data) THEN FocusOn(w, Input) ELSE SelectChip(w, index + 1)
      [] OTHER -> w

\* A key in the list: the dropdown first, whose items cannot have the focus, then
\* the chips.
ListKey(w, key) ==
    LET moved == [w EXCEPT !.drop = ListKeydown(@, key, {}, w.options)]
    IN IF key = "enter" /\ w.drop.isOpen /\ w.drop.focusedIndex \in DOMAIN w.options
         THEN Complete(moved, w.drop.focusedIndex)
         ELSE ChipKeydown(moved, key)

-----------------------------------------------------------------------------
InBounds(w) == WithinTimers(w.drop) /\ Len(w.value) <= MaxText

FieldBecomes(w) == InBounds(w) /\ field' = w

Key(key) ==
    LET w == Pressed(field, key) IN
    /\ held' = held \cup {key}
    /\ \/ /\ field.focus = Input
          /\ key \in {"enter", "back", "down", "up"} \cup Letters
          /\ FieldBecomes(InputKeydown(w, key))
       \/ /\ OnChip(field) /\ key \in {"back", "left", "right"}
          /\ FieldBecomes(ChipKeydown(w, key))
       \/ /\ field.focus = List /\ key \in {"enter", "esc", "back"} \cup Letters
          /\ FieldBecomes(ListKey(w, key))

\* Tab goes through the chips, the input, and the list while it is displayed;
\* in an open list it is taken for Escape.
Stops(w) == w.dom \o <<Input>> \o (IF w.drop.shown THEN <<List>> ELSE <<>>)

NextStop(w, key) ==
    LET at == {i \in DOMAIN Stops(w) : Stops(w)[i] = w.focus}
    IN CASE at = {} /\ key = "tab" -> 1
         [] at = {}              -> Len(Stops(w))
         [] key = "tab"          -> Max(at) + 1
         [] OTHER                -> Max(at) - 1

Tabbed(w, key) ==
    LET to == NextStop(w, key)
        moved == IF to \in DOMAIN Stops(w) THEN FocusOn(w, Stops(w)[to]) ELSE Leave(w)
    IN IF w.focus = List /\ w.drop.isOpen
         THEN [w EXCEPT !.drop = ListKeydown(@, "tab", {}, w.options)]
         ELSE [moved EXCEPT !.strayed = OnChip(moved)]

Tab(key) ==
    /\ held' = held \cup {key}
    /\ FieldBecomes(Tabbed(Pressed(field, key), key))

\* A key comes up; if the window lost the focus before, it never does.
KeyUp(key) ==
    LET w == IF field.focus = Input /\ key \notin {"enter", "up", "down"}
               THEN InputKeyup(field) ELSE field
    IN /\ key \in held
       /\ held' = held \ {key}
       /\ field' = [w EXCEPT !.keydown = FALSE,
              !.tabPressed = @ /\ key \notin {"tab", "shift-tab", "up", "down"}]

-----------------------------------------------------------------------------
(* The mouse.  A click is seen by an open dropdown first.                  *)

Seen(w) == [w EXCEPT !.drop = DocumentClick(@, FALSE, FALSE), !.unseen = FALSE]

ClickOnInput == FieldBecomes(OpenList(Seen(FocusOn(field, Input)))) /\ UNCHANGED held
ClickAround == FieldBecomes(FocusOn(Seen(Leave(field)), Input)) /\ UNCHANGED held

ClickChip(i) ==
    /\ i \in DOMAIN field.dom
    /\ FieldBecomes(SelectChip(Seen(FocusOn(field, field.dom[i])), i))
    /\ UNCHANGED held

ClickClose(i, blurs) ==
    /\ i \in DOMAIN field.dom
    /\ FieldBecomes(FocusOn(DeleteChip(Seen(FocusOn(field, field.dom[i])), i, blurs), Input))
    /\ UNCHANGED held

\* The mouse goes down in the list, which takes the focus without a blur of the
\* completion, and comes up on the same option.
InList(w) == FocusOn([w EXCEPT !.mousedown = TRUE], List)

ClickOption(i) ==
    /\ field.drop.shown /\ i \in DOMAIN field.options
    /\ FieldBecomes(Complete([InList(field) EXCEPT !.mousedown = FALSE], i))
    /\ UNCHANGED held

\* Or it comes up elsewhere: around the chips, somewhere in the page, or outside
\* the window, where there is no click.
DragOff(to) ==
    /\ field.drop.shown /\ field.options # <<>>
    /\ FieldBecomes(CASE to = "around" -> FocusOn(Seen(InList(field)), Input)
                      [] to = "page"   -> Seen(InList(field))
                      [] to = "window" -> [InList(field) EXCEPT !.unseen = TRUE])
    /\ UNCHANGED held

\* The timers, and the animations; the focus is lost with a list that is hidden.
FieldCloses ==
    /\ field.drop.closes > 0
    /\ field' = [field EXCEPT !.drop = DeferredClose(@)]
    /\ UNCHANGED held

FieldForgets ==
    /\ field.drop.resets > 0
    /\ field' = [field EXCEPT !.drop = ResetQuery(@)]
    /\ UNCHANGED held

FieldOpened ==
    /\ "in" \in field.drop.anim
    /\ field' = [field EXCEPT !.drop = AnimatedIn(@)]
    /\ UNCHANGED held

FieldHidden ==
    /\ "out" \in field.drop.anim
    /\ \E blurs \in BOOLEAN :
          field' = [(IF field.focus # List THEN field
                     ELSE IF blurs THEN Leave(field)
                          ELSE [field EXCEPT !.focus = Away, !.strayed = FALSE])
                    EXCEPT !.drop = AnimatedOut(@)]
    /\ UNCHANGED held

-----------------------------------------------------------------------------
ChipsTypeOK ==
    /\ DropTypeOK(field.drop, Len(Components))
    /\ field.active \in 0..Len(Components)
    /\ OnChip(field) \/ field.focus \in {Away, Input, List}
    /\ field.selected \in ToSet(field.dom) \cup {NoChip, Gone}

\* What is deleted is what is seen: the chips in the page are those of chipsData,
\* which is submitted, and of $chips, in the same order, after any mixture of
\* additions and deletions, those of the page's callback included.
ChipsShown == field.dom = field.data /\ field.els = field.data

\* No name twice, and none that is empty, whatever way it comes in: typed, chosen
\* in the list, or both by one Enter.
NamesUnique ==
    /\ <<>> \notin ToSet(field.data)
    /\ \A i, j \in DOMAIN field.data : field.data[i] = field.data[j] => i = j

\* The option the arrows reached is one of those listed, although the list is
\* looked up again while they move.
ActiveIsListed == field.active \in 0..Len(field.options)

\* An open list belongs to the field that has the focus: it stays open elsewhere
\* only until its timer fires, or because the mouse went down in it and was
\* never seen to come up.
ListNeedsFocus ==
    field.drop.isOpen =>
        field.focus \in {Input, List} \/ field.drop.closes > 0 \/ field.mousedown

\* A chip that has the focus is the selected one, so that Backspace and the
\* arrows work on it, unless Tab brought the focus there: Tab selects nothing,
\* and Backspace then deletes another chip, or throws.
FocusIsSelected == OnChip(field) /\ ~field.strayed => field.selected = field.focus

\* Names that are not configured never become more: a typed one is deleted at
\* once (or, after another one the callback has just deleted, takes its place).
Unknown(names) == Cardinality({i \in DOMAIN names : ~Known(names[i])})
UnknownNeverGrows == [][Unknown(field'.data) <= Unknown(field.data)]_<<field, held>>

\* What is submitted is what is seen, each name once.
ChipsSound == ChipsShown /\ NamesUnique

\* The list of the completion follows the field: it is open only for the field in
\* use, and the option Enter would take is one of those it shows.
ListFollowsField == ListNeedsFocus /\ ActiveIsListed

=============================================================================
