---------------------------- MODULE IncidentForm ----------------------------
(***************************************************************************)
(* The incident form (add_edit_incident.gohtml): the chips of the          *)
(* components and the select of the state share the focus, the keyboard    *)
(* and every click, which both see.                                        *)
(***************************************************************************)
EXTENDS FormSelect, Chips

CONSTANTS
    Uses,      \* bound: the components the incident has when the page opens, the
               \* widgets a user works with, and how often he acts
    MaxHeld    \* bound on the keys that are down

\* A component has a name; the names the model gives to the other elements of the
\* page are none of them.
Names == Seq(STRING) \ {Away, Input, List, NoChip, Gone}

\* A letter is not the name of an element either, and an incident comes with
\* different components: the form that stored them takes none twice.
ASSUME FormAssumption ==
    /\ Components \in Seq(Names)
    /\ Letters \subseteq STRING \ {Input[1], List[1], NoChip[1], Gone[1]}
    /\ OptionTexts \in Seq(Seq(STRING))
    /\ Uses \subseteq [names : Seq(Names), works : SUBSET {"field", "select"}, acts : Nat]
    /\ \A use \in Uses : \A i, j \in DOMAIN use.names : use.names[i] = use.names[j] => i = j
    /\ MaxTimers \in Nat /\ MaxText \in Nat

VARIABLE user   \* one of Uses: its acts are what the user may still do

vars == <<select, field, held, user>>

Init == user \in Uses /\ SelectInit /\ ChipsInit(user.names)

-----------------------------------------------------------------------------
\* The mouse, in the select: the field loses the focus, and sees the click.
UseSelect ==
    /\ ClickSelect \/ \E item \in Items : ClickItem(item)
    /\ FieldBecomes(Seen(Leave(field)))
    /\ UNCHANGED held

\* In the field: the select does, when there is a click.
UseField ==
    \/ /\ \/ ClickOnInput \/ ClickAround
          \/ \E i \in DOMAIN field.dom :
                ClickChip(i) \/ \E blurs \in BOOLEAN : ClickClose(i, blurs)
          \/ \E i \in DOMAIN field.options : ClickOption(i)
          \/ \E to \in {"around", "page"} : DragOff(to)
       /\ SelectBecomes(ClickBeside(select))
    \/ DragOff("window") /\ select' = [select EXCEPT !.focus = NotHere]

\* Elsewhere.
UsePage ==
    /\ FieldBecomes(Seen(Leave(field)))
    /\ SelectBecomes(ClickBeside(select))
    /\ UNCHANGED held

\* The keyboard goes to what has the focus.
TypeInSelect ==
    \E key \in {"down", "up", "enter", "esc", "tab"} \cup Letters :
        /\ KeyTrigger(key) \/ KeyList(key)
        /\ field' = Pressed(field, key)
        /\ held' = held \cup {key}

TypeInField ==
    /\ \E key \in {"enter", "back", "down", "up", "left", "right", "esc"} \cup Letters : Key(key)
    /\ UNCHANGED select

Tabs ==
    \E key \in {"tab", "shift-tab"} :
        IF select.focus = NotHere THEN Tab(key) /\ UNCHANGED select
        ELSE /\ ~(select.drop.isOpen /\ select.focus >= OnList)
             /\ select' = [select EXCEPT !.focus = NotHere]
             /\ field' = Pressed(field, key)
             /\ held' = held \cup {key}

Releases == \E key \in held : KeyUp(key) /\ UNCHANGED <<select, user>>

UserActs ==
    /\ user.acts > 0
    /\ user' = [user EXCEPT !.acts = @ - 1]
    /\ \/ "select" \in user.works /\ (UseSelect \/ TypeInSelect)
       \/ "field" \in user.works /\ (UseField \/ TypeInField)
       \/ UsePage \/ Tabs
    /\ Cardinality(held') <= MaxHeld

\* The browser: a select that takes the focus takes it from the field.
SelectTimes ==
    /\ SelectCloses \/ SelectForgets \/ SelectOpened \/ SelectHidden
    /\ field' = IF select'.focus # select.focus /\ select'.focus # NotHere
                  THEN Leave(field) ELSE field
    /\ UNCHANGED <<held, user>>

FieldTimes ==
    /\ FieldCloses \/ FieldForgets \/ FieldOpened \/ FieldHidden
    /\ UNCHANGED <<select, user>>

Next == UserActs \/ Releases \/ SelectTimes \/ FieldTimes

Spec == Init /\ [][Next]_vars

-----------------------------------------------------------------------------
\* Types, and the focus: in one place at a time.
TypeOK ==
    /\ SelectTypeOK /\ ChipsTypeOK
    /\ held \subseteq {"down", "up", "enter", "esc", "tab", "shift-tab", "back",
                       "left", "right"} \cup Letters
    /\ select.focus = NotHere \/ field.focus = Away
    /\ user.acts \in Nat

\* An open select has the keyboard once its list has come in (Escape, Enter and
\* the arrows work), unless a click beside it is about to close it, or was never
\* seen; and it is displayed.  The animations and timers of earlier openings do
\* not disturb it.
ListHasKeyboard ==
    select.drop.isOpen =>
        /\ select.drop.shown
        /\ \/ "in" \in select.drop.anim
           \/ select.focus >= OnList
           \/ select.drop.closes > 0
           \/ field.unseen

\* The select can be used whatever was done to it before: it submits what it
\* shows, and its open list answers the keyboard.
SelectSound == SelectShowsValue /\ ListHasKeyboard

=============================================================================
