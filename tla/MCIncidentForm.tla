--------------------------- MODULE MCIncidentForm ---------------------------
EXTENDS IncidentForm

\* Names that contain one another; an incident may carry names that are no
\* longer configured.
MCComponents == <<<<"a", "b">>, <<"b">>>>
MCLetters == {"b", "x"}
MCOptionTexts == <<<<"b", "a">>, <<"x", "a">>, <<"b", "x">>>>
MCUses ==
    {[names |-> <<<<"b">>>>, works |-> {"field"}, acts |-> 5],
     [names |-> <<<<"x">>, <<"y">>>>, works |-> {"field"}, acts |-> 4],
     [names |-> <<<<"b">>, <<"a", "b">>>>, works |-> {"field", "select"}, acts |-> 4],
     [names |-> <<>>, works |-> {"select"}, acts |-> 7]}
=============================================================================
