------------------------------ MODULE MCPages ------------------------------
EXTENDS Pages

\* An incident with two messages and one without, and the subscription dialog.
MCTabLinks ==
    [incident |-> <<"message-1", "message-2", "new-message-1">>, empty |-> <<"new-message-2">>,
     subscribe |-> <<"support", "email">>]
MCActive == [incident |-> 0, empty |-> 0, subscribe |-> 1]
MCTogether == {{"incident", "empty"}, {"subscribe"}}

MCEmails == {<<>>, <<"a">>, <<"a", "+">>, <<"a", "&">>}
MCAddresses == {<<"a">>, <<"a", "+">>}

MCTexts == {NoLines, [length |-> 1, lines |-> 1], [length |-> 3, lines |-> 3], [length |-> 4, lines |-> 1]}

\* Two zones whose summers begin at different times, one without, a link.
Zone(name, indices, untils, population) ==
    [name |-> name, abbrs |-> <<"S", "D">>, offsets |-> <<-60, -120>>, indices |-> indices,
     untils |-> untils, population |-> population]
MCZoneData == <<Zone("a", <<1, 2, 1, 2, 1>>, <<7, 12, 13, 12>>, 3),
                Zone("b", <<1>>, <<>>, 5),
                Zone("c", <<1, 2, 1, 2, 1>>, <<9, 12, 13, 12>>, 9)>>
MCLinkData == <<<<"a", "x">>>>
MCBrowsers == [clock : {Unpack(MCZoneData[i]) : i \in 1..3}, intl : {"", "a", "x", "utc"},
               writes : BOOLEAN]

MCViews == Views({6, 9}, {1, 2}, {1, 4, 7, 12})
=============================================================================
