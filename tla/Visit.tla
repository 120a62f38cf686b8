------------------------------- MODULE Visit -------------------------------
(***************************************************************************)
(* How the pages get the timezone of the visitor.  The server takes it     *)
(* from the query, or from the session cookie (location.go); the page it   *)
(* serves without one runs loadTimezone (init.js), which appends the one   *)
(* it guesses to the address, whatever there is in it, and goes there.     *)
(***************************************************************************)
EXTENDS Timezone

CONSTANTS
    Browsers,  \* the browsers that visit
    Stale,     \* timezones an earlier visit may have left in the session
    MaxPages   \* bound on the pages the visitor goes to

VARIABLES
    browser,   \* the visitor's browser
    guess,     \* the timezone it guesses, and whether that is one with its clock
    cookies,   \* whether it keeps cookies
    url,       \* the query of the address (none; other: parameters that are not a
               \* timezone; zone: a timezone, of that name) and whether there is a
               \* fragment
    session,   \* the timezone of the session cookie, or NoZone
    visit      \* asked or served; the timezone the page was served in (NoZone,
               \* Server, or a name), whether its script has run, how many pages
               \* the visitor went to

visitVars == <<browser, guess, cookies, url, session, visit>>

NoZone == ""
Server == "server"   \* DefaultLocation
Query(kind, zone) == [kind |-> kind, zone |-> zone]
NoQuery == Query("none", NoZone)
OtherQuery == Query("other", NoZone)
Asked(pages) == [state |-> "asked", zone |-> NoZone, ran |-> FALSE, pages |-> pages]

VisitInit ==
    /\ browser \in Browsers /\ cookies \in BOOLEAN
    /\ guess = [name |-> Guess(browser), tells |-> GuessKeepsTime(browser)]
    /\ url \in [query : {NoQuery, OtherQuery}, fragment : BOOLEAN]
    /\ session \in {NoZone} \cup Stale
    /\ session # NoZone => cookies
    /\ visit = Asked(0)

\* No visit is followed.
Unvisited ==
    /\ browser = NoZone /\ cookies = FALSE /\ guess = [name |-> NoZone, tells |-> TRUE]
    /\ url = [query |-> NoQuery, fragment |-> FALSE] /\ session = NoZone
    /\ visit = [Asked(0) EXCEPT !.state = "served", !.zone = Server]

\* Variant: only the session is looked at.
AskedZone_Session(query) == session

\* The timezone of a request.
AskedZone(query) == IF query.kind = "zone" THEN query.zone ELSE session

\* LocationHandler: a name the server does not know is the server's own zone, and
\* stays in the session all the same.
Serve ==
    /\ visit.state = "asked"
    /\ LET name == AskedZone(url.query) IN
          /\ visit' = [visit EXCEPT !.state = "served",
                             !.zone = IF name = NoZone \/ Known(name) THEN name ELSE Server]
          /\ session' = IF cookies /\ name # NoZone THEN name ELSE session
    /\ UNCHANGED <<browser, guess, cookies, url>>

\* loadTimezone: with a fragment in the address only the fragment changes, and
\* nothing is loaded; another query swallows the parameter.
LoadTimezone ==
    /\ visit.state = "served" /\ visit.zone = NoZone /\ ~visit.ran
    /\ IF url.fragment THEN visit' = [visit EXCEPT !.ran = TRUE] /\ UNCHANGED url
       ELSE /\ visit' = Asked(visit.pages)
            /\ url' = IF url.query.kind = "none"
                        THEN [url EXCEPT !.query = Query("zone", guess.name)] ELSE url
    /\ UNCHANGED <<browser, guess, cookies, session>>

\* The visitor goes to another page.
GoTo(query, at) ==
    /\ visit.state = "served"
    /\ visit.pages < MaxPages
    /\ url' = [query |-> query, fragment |-> at]
    /\ visit' = Asked(visit.pages + 1)
    /\ UNCHANGED <<browser, guess, cookies, session>>

VisitActs == \E query \in {NoQuery, OtherQuery}, at \in BOOLEAN : GoTo(query, at)

-----------------------------------------------------------------------------
VisitTypeOK ==
    /\ visit.state \in {"asked", "served"}
    /\ visit.zone \in Names \cup {NoZone, Server}
    /\ session \in Names \cup Stale \cup {NoZone, NoName}

\* A page is served in the visitor's time: without a stale session, the timezone
\* of a page is one with the same clock as the browser's, when the tables have
\* one.  A session made elsewhere keeps its timezone for ever.
ServedInOwnTime ==
    /\ guess.tells
    /\ session \notin Stale /\ visit.zone # NoZone => visit.zone \in {guess.name, Server}

\* A visit settles on a timezone: from any address without a query or a fragment
\* (cookies or none), unless the visitor goes on.  With another query and no
\* session the page reloads itself for ever.
VisitSettles ==
    (url.query = NoQuery /\ ~url.fragment) ~> (visit.zone # NoZone \/ url.query = OtherQuery \/ url.fragment)

=============================================================================
