----------------------------- MODULE TextField -----------------------------
(***************************************************************************)
(* The text fields of the forms (section Forms of materialize.js): the     *)
(* label that moves out of the way of the text, the mark of a field that   *)
(* is validated, and the height of a textarea, which follows its text.     *)
(* A text is a record of its length and of the lines it takes.             *)
(***************************************************************************)
EXTENDS Integers

CONSTANTS
    TextFields,   \* the fields
    TextAreas,    \* those that are textareas
    Hidden,       \* those in a modal, not displayed when the page is loaded
    Placeholders, \* those with a placeholder
    Texts,        \* the texts, the empty one included
    Rows          \* the lines of a textarea as the page styles it

NoLines == [length |-> 0, lines |-> 1]

ASSUME TextAssumption ==
    /\ TextAreas \subseteq TextFields /\ Rows \in Nat
    /\ Texts \subseteq [length : Nat, lines : Nat] /\ NoLines \in Texts

VARIABLES
    text,      \* per field: its text, the class 'active' of its label, whether it
               \* has the focus, its mark, height, the data original and previous
               \* of a textarea and the text it was last resized for (sized), the
               \* text a change event compares with (before)
    scripted   \* per field: its text is one the page's script wrote

textVars == <<text, scripted>>

\* Variant: the height follows the text only while it grows.
AutoResize_GrowsOnly(f, t, height) ==
    LET original == IF t.original = 0 THEN height ELSE t.original IN
    [t EXCEPT !.original = original,
              !.height = IF original <= t.text.lines /\ t.text.length > t.previous
                           THEN t.text.lines ELSE @,
              !.previous = t.text.length, !.sized = t.text]

\* textareaAutoResize: the original height is read now if it is not known, which
\* a hidden textarea tells as 0.
AutoResize(f, t, height) ==
    LET original == IF t.original = 0 THEN height ELSE t.original IN
    [t EXCEPT !.original = original,
              !.height = IF original <= t.text.lines THEN t.text.lines
                         ELSE IF t.text.length < t.previous THEN original ELSE @,
              !.previous = t.text.length, !.sized = t.text]

\* The page is ready: labels of the fields with a text, and the first resize.
Loaded(f, served) ==
    LET t == [text |-> served, label |-> served.length > 0 \/ f \in Placeholders,
              focus |-> FALSE, mark |-> "", height |-> Rows, before |-> served,
              original |-> IF f \in Hidden THEN 0 ELSE Rows, previous |-> served.length,
              sized |-> served]
    IN IF f \in TextAreas THEN AutoResize(f, t, t.original) ELSE t

TextInit ==
    /\ \E served \in [TextFields -> Texts] : text = [f \in TextFields |-> Loaded(f, served[f])]
    /\ scripted = [f \in TextFields |-> FALSE]

\* validate_field: no field is required, every text is valid.
Validated(t) == [t EXCEPT !.mark = IF t.text.length = 0 THEN "" ELSE "valid"]

FieldFocus(f) ==
    /\ \A g \in TextFields : ~text[g].focus
    /\ text' = [text EXCEPT ![f].focus = TRUE, ![f].label = TRUE, ![f].before = text[f].text]
    /\ UNCHANGED scripted

\* Variant: the label comes back over the text.
Unlabelled_Always(f, t) == [t EXCEPT !.label = f \in Placeholders]

\* The label comes back to an empty field.
Unlabelled(f, t) == [t EXCEPT !.label = @ /\ (t.text.length > 0 \/ f \in Placeholders)]

\* The focus leaves; a text that was edited has its change event first.
Changed(t) ==
    IF t.text = t.before THEN t
    ELSE Validated([t EXCEPT !.label = @ \/ t.text.length > 0, !.before = t.text])

FieldBlur(f) ==
    /\ text[f].focus
    /\ text' = [text EXCEPT ![f] = Validated(Unlabelled(f, [Changed(@) EXCEPT !.focus = FALSE]))]
    /\ UNCHANGED scripted

\* A key: a textarea is resized for the text before it as it goes down, and for
\* the text after it as it comes up.
FieldKey(f, new) ==
    /\ text[f].focus
    /\ text[f].text # new
    /\ LET down == AutoResize(f, text[f], text[f].height)
           up   == AutoResize(f, [down EXCEPT !.text = new], down.height)
       IN text' = [text EXCEPT ![f] = IF f \in TextAreas THEN up ELSE [@ EXCEPT !.text = new]]
    /\ scripted' = [scripted EXCEPT ![f] = FALSE]

\* The mouse pastes or cuts: no key, no resize.
FieldPaste(f, new) ==
    /\ text[f].focus
    /\ text[f].text # new
    /\ text' = [text EXCEPT ![f].text = new]
    /\ scripted' = [scripted EXCEPT ![f] = FALSE]

\* The page's script writes the text, as it does the end of a maintenance: no
\* event follows.
FieldWritten(f, new) ==
    /\ ~text[f].focus /\ f \notin TextAreas
    /\ text' = [text EXCEPT ![f].text = new]
    /\ scripted' = [scripted EXCEPT ![f] = TRUE]

-----------------------------------------------------------------------------
TextTypeOK ==
    \A f \in TextFields :
        /\ text[f].text \in Texts /\ text[f].mark \in {"", "valid"}
        /\ text[f].height \in Nat /\ text[f].original \in Nat
        /\ {text[f].label, text[f].focus, scripted[f]} \subseteq BOOLEAN

\* The label is never over a text, unless the script wrote it.
LabelAway ==
    \A f \in TextFields :
        text[f].text.length > 0 /\ ~scripted[f] => text[f].label

\* A textarea that was resized for the text it has shows all its lines, however
\* the text shrank and grew before, by keys or by the mouse (after which it waits
\* for the next key), and whether or not it was displayed when the page was loaded.
TextFits ==
    \A f \in TextAreas : text[f].sized = text[f].text =>
        text[f].height >= text[f].text.lines

=============================================================================
