----------------------------- MODULE Subscribe -----------------------------
(***************************************************************************)
(* The subscription form of the public pages (init.js), its asynchronous   *)
(* calls, and the server's answer to them (subscribe.go).  The button only *)
(* looks disabled: Enter in the input submits the form again.              *)
(***************************************************************************)
EXTENDS Integers, Sequences, SequencesExt, FiniteSetsExt

CONSTANTS
    Emails,     \* what is typed, as a sequence of characters
    Addresses,  \* the texts that are addresses
    MaxCalls    \* bound on the calls of a page

ASSUME CallsAssumption == MaxCalls \in Nat

VARIABLES
    form,         \* done (the form is replaced), disabled and spinners (its button),
                  \* messages (the errors shown), told (what was registered)
    calls,        \* the calls made: what was sent, the server's answer, and whether
                  \* the page still waits for it
    subscribers   \* the server's list

subVars == <<form, calls, subscribers>>

SubInit ==
    /\ form = [done |-> FALSE, disabled |-> FALSE, spinners |-> 0, messages |-> 0, told |-> <<>>]
    /\ calls = <<>>
    /\ subscribers = {}

\* The text is put in the query as it is: the server reads a space for a plus,
\* and nothing after an ampersand or a hash.
Received(email) ==
    LET ends == {i \in DOMAIN email : email[i] \in {"&", "#"}}
        kept == SubSeq(email, 1, Min({Len(email) + 1} \cup ends) - 1)
    IN [i \in DOMAIN kept |-> IF kept[i] = "+" THEN " " ELSE kept[i]]

\* The click handler of the button, which Enter reaches too.
Submit(email, byEnter) ==
    /\ ~form.done
    /\ byEnter \/ ~form.disabled
    /\ Len(calls) < MaxCalls
    /\ form' = [form EXCEPT !.disabled = TRUE, !.spinners = @ + 1]
    /\ calls' = Append(calls, [to |-> Received(email), answer |-> "none", waits |-> TRUE])
    /\ UNCHANGED subscribers

\* Variant: the error of the store is not returned.
Answers_Swallows(to, stored) ==
    IF to = <<>> \/ to \notin Addresses THEN {"refused"} ELSE {"created", "lost"}

\* SubscribeEmail: no address, no valid address, an error of the store, created.
\* What comes back may not be the server's answer (lost): no JSON then.
Answers(to, stored) ==
    IF to = <<>> \/ to \notin Addresses \/ ~stored THEN {"refused", "lost"}
    ELSE {"created", "lost"}

ServerTakes(i) ==
    /\ calls[i].answer = "none"
    /\ \E stored \in BOOLEAN :
          /\ \E answer \in Answers(calls[i].to, stored) : calls' = [calls EXCEPT ![i].answer = answer]
          /\ subscribers' = IF stored /\ calls[i].to \in Addresses
                              THEN subscribers \cup {calls[i].to} ELSE subscribers
    /\ UNCHANGED form

\* Variant: without JSON the button is not given back.
Failed_GivesUp(shown) ==
    IF ~shown THEN form
    ELSE [form EXCEPT !.disabled = FALSE, !.spinners = 0, !.messages = @ + 1]

\* The error callback; without JSON it stops before it shows the error.  The
\* button of a form that was replaced is no longer in the page.
Failed(shown) ==
    [form EXCEPT !.disabled = FALSE, !.spinners = 0,
                 !.messages = IF shown /\ ~form.done THEN @ + 1 ELSE @]

\* An answer reaches the page that waits for it.
Answered(i) ==
    /\ calls[i].waits /\ calls[i].answer # "none"
    /\ form' = IF calls[i].answer = "created"
                 THEN [form EXCEPT !.done = TRUE, !.told = calls[i].to]
                 ELSE Failed(calls[i].answer = "refused")
    /\ calls' = [calls EXCEPT ![i].waits = FALSE]
    /\ UNCHANGED subscribers

\* Thirty seconds are over; the server may take the call later.
TimedOut(i) ==
    /\ calls[i].waits
    /\ form' = Failed(FALSE)
    /\ calls' = [calls EXCEPT ![i].waits = FALSE]
    /\ UNCHANGED subscribers

Call(i) == ServerTakes(i) \/ Answered(i) \/ TimedOut(i)

-----------------------------------------------------------------------------
SubTypeOK ==
    /\ form.done \in BOOLEAN /\ form.disabled \in BOOLEAN
    /\ form.spinners \in 0..MaxCalls /\ form.messages \in 0..MaxCalls
    /\ \A i \in DOMAIN calls : calls[i].answer \in {"none", "created", "refused", "lost"}
    /\ subscribers \subseteq Addresses

\* A page that says the email is registered: the server has it, whatever calls
\* failed, timed out or were made twice beside the one that succeeded.
DoneMeansSubscribed == form.done => form.told \in subscribers

\* The button never stays disabled for nothing: a form whose button is disabled
\* still waits for a call.  (The reverse fails: the first of two answers enables
\* the button, and takes both spinners away.)
DisabledMeansPending ==
    form.disabled /\ ~form.done => \E i \in DOMAIN calls : calls[i].waits

\* The form never misleads: neither about the subscription, nor about a call that
\* nothing waits for any more.
FormHonest == DoneMeansSubscribed /\ DisabledMeansPending

\* The user can try again, or is done.
ButtonComesBack == form.disabled ~> (~form.disabled \/ form.done)

=============================================================================
