---------------------------- MODULE PagesProofs ----------------------------
(***************************************************************************)
(* Theorems about Pages, for every set of dialogs, tabs, emails, tooltips,  *)
(* fields, buttons and views, and every bound.                              *)
(***************************************************************************)
EXTENDS Pages, FiniteSetTheorems, SequenceTheorems, TLAPS

-----------------------------------------------------------------------------
(* The subscription form *)

\* What the server receives, what a call is, and what the form is.
Sent == {Received(email) : email \in Emails}
Told == {<<>>} \cup Sent
CallRecord == [to : Sent,
               answer : {"none", "created", "refused", "lost"}, waits : BOOLEAN]
FormRecord == [done : BOOLEAN, disabled : BOOLEAN, spinners : Nat, messages : Nat,
               told : Told]

\* The calls the page waits for no more.
Over == {i \in DOMAIN calls : ~calls[i].waits}

\* The inductive invariant: a call is counted before it shows an error, a
\* subscription that was confirmed is in the list, and the form is as honest as
\* it has to be.
FormInv ==
    /\ calls \in Seq(CallRecord) /\ Len(calls) <= MaxCalls
    /\ form \in FormRecord
    /\ form.spinners <= Len(calls) /\ form.messages <= Cardinality(Over)
    /\ subscribers \subseteq Addresses
    /\ \A i \in DOMAIN calls : calls[i].answer = "created" => calls[i].to \in subscribers
    /\ FormHonest

\* What a step of the page is for the form.
FormStep ==
    \/ \E email \in Emails, byEnter \in BOOLEAN : Submit(email, byEnter)
    \/ \E i \in DOMAIN calls : Call(i)
    \/ UNCHANGED subVars

\* A step of the page is one of the form, or leaves it alone.
LEMMA FormSteps ==
    ASSUME [Next]_vars
    PROVE  FormStep
  BY DEF Next, Dialog, Tip, Field, Visits, Loading, Motion, Frames, Ripple, PlaceList, FoldList,
         OpensDialog, Calls, TipTimes, UseForm, vars, pageVars, FormStep

\* A call that is over adds one to those that are.
LEMMA OverGrows ==
    ASSUME NEW n \in Nat, NEW S \in SUBSET (1..n), NEW i \in 1..n, i \notin S
    PROVE  /\ IsFiniteSet(S) /\ Cardinality(S) \in Nat
           /\ Cardinality(S \cup {i}) = Cardinality(S) + 1
           /\ Cardinality(S) < n
  <1>1. IsFiniteSet(1..n) /\ Cardinality(1..n) = n
    BY FS_Interval
  <1>2. IsFiniteSet(S) /\ Cardinality(S) \in Nat
    BY <1>1, FS_Subset, FS_CardinalityType
  <1>3. Cardinality(S \cup {i}) = Cardinality(S) + 1
    BY <1>2, FS_AddElement
  <1>4. Cardinality(S \cup {i}) <= n
    BY <1>1, FS_Subset
  <1> QED BY <1>1, <1>2, <1>3, <1>4

\* The form is submitted.
LEMMA FormSubmit ==
    ASSUME FormInv, NEW email \in Emails, NEW byEnter \in BOOLEAN, Submit(email, byEnter)
    PROVE  FormInv'
  <1> DEFINE call == [to |-> Received(email), answer |-> "none", waits |-> TRUE]
  <1>1. calls \in Seq(CallRecord) /\ Len(calls) < MaxCalls /\ Len(calls) \in Nat
    BY DEF FormInv, Submit
  <1>2. call \in CallRecord
    BY DEF CallRecord, Sent
  <1>3. calls' = Append(calls, call)
    BY DEF Submit
  <1>4. /\ calls' \in Seq(CallRecord) /\ Len(calls') = Len(calls) + 1
        /\ DOMAIN calls = 1..Len(calls) /\ DOMAIN calls' = 1..Len(calls')
        /\ \A i \in DOMAIN calls : calls'[i] = calls[i]
        /\ calls'[Len(calls')] = call
    BY <1>1, <1>2, <1>3
  <1>5. Over' = Over
    BY <1>1, <1>4 DEF Over
  <1>6. form \in FormRecord /\ form.spinners \in Nat /\ form.messages \in Nat
    BY DEF FormInv, FormRecord
  <1>7. /\ form' \in FormRecord /\ form'.done = form.done /\ form'.told = form.told
        /\ form'.spinners = form.spinners + 1 /\ form'.messages = form.messages
    <2> DEFINE n == form.spinners + 1
    <2>1. n \in Nat /\ form' = [form EXCEPT !.disabled = TRUE, !.spinners = n]
      BY <1>6 DEF Submit
    <2> HIDE DEF n
    <2>2. form' \in FormRecord
      BY <1>6, <2>1 DEF FormRecord
    <2>3. form'.done = form.done /\ form'.told = form.told
      BY <1>6, <2>1 DEF FormRecord
    <2>4. form'.spinners = n /\ form'.messages = form.messages
      BY <1>6, <2>1 DEF FormRecord
    <2> QED BY <2>2, <2>3, <2>4 DEF n
  <1>8. subscribers' = subscribers
    BY DEF Submit
  <1>9. FormHonest'
    BY <1>1, <1>4, <1>7, <1>8 DEF FormInv, FormHonest, DoneMeansSubscribed, DisabledMeansPending
  <1>10. \A i \in DOMAIN calls' : calls'[i].answer = "created" => calls'[i].to \in subscribers'
    BY <1>1, <1>4, <1>8 DEF FormInv
  <1>11. form'.spinners <= Len(calls') /\ Len(calls') <= MaxCalls
    BY <1>1, <1>4, <1>7, CallsAssumption DEF FormInv, FormRecord
  <1>12. form'.messages <= Cardinality(Over')
    BY <1>5, <1>7 DEF FormInv
  <1>13. subscribers' \subseteq Addresses
    BY <1>8 DEF FormInv
  <1> QED BY <1>4, <1>7, <1>9, <1>10, <1>11, <1>12, <1>13 DEF FormInv

\* The server takes a call.
LEMMA FormTaken ==
    ASSUME FormInv, NEW i \in DOMAIN calls, ServerTakes(i)
    PROVE  FormInv'
  <1>1. calls \in Seq(CallRecord) /\ i \in 1..Len(calls) /\ calls[i] \in CallRecord
    BY DEF FormInv
  <1>0. PICK stored \in BOOLEAN :
            /\ \E answer \in Answers(calls[i].to, stored) : calls' = [calls EXCEPT ![i].answer = answer]
            /\ subscribers' = IF stored /\ calls[i].to \in Addresses
                                THEN subscribers \cup {calls[i].to} ELSE subscribers
    BY DEF ServerTakes
  <1>2. PICK answer \in Answers(calls[i].to, stored) : calls' = [calls EXCEPT ![i].answer = answer]
    BY <1>0
  <1>3. answer \in {"created", "refused", "lost"}
    BY DEF Answers
  <1>4. [calls[i] EXCEPT !.answer = answer] \in CallRecord
    BY <1>1, <1>3 DEF CallRecord
  <1>5. /\ calls' \in Seq(CallRecord) /\ Len(calls') = Len(calls) /\ DOMAIN calls' = DOMAIN calls
        /\ calls'[i] = [calls[i] EXCEPT !.answer = answer]
        /\ \A k \in DOMAIN calls \ {i} : calls'[k] = calls[k]
    BY <1>1, <1>2, <1>4, ExceptSeq
  <1>6. \A k \in DOMAIN calls : calls'[k].waits = calls[k].waits /\ calls'[k].to = calls[k].to
    BY <1>1, <1>5 DEF CallRecord
  <1>7. Over' = Over
    BY <1>5, <1>6 DEF Over
  <1>8. form' = form
    BY DEF ServerTakes
  <1>9. subscribers \subseteq subscribers' /\ subscribers' \subseteq Addresses
    BY <1>0 DEF FormInv
  <1>10. FormHonest'
    BY <1>5, <1>6, <1>8, <1>9 DEF FormInv, FormHonest, DoneMeansSubscribed, DisabledMeansPending
  <1>11. answer = "created" => calls[i].to \in subscribers'
    BY <1>0 DEF Answers
  <1>12. \A k \in DOMAIN calls' : calls'[k].answer = "created" => calls'[k].to \in subscribers'
    BY <1>1, <1>5, <1>6, <1>9, <1>11 DEF FormInv, CallRecord
  <1> QED BY <1>5, <1>7, <1>8, <1>9, <1>10, <1>12 DEF FormInv

\* The page waits for a call no more: it has its answer, or none in time.
LEMMA FormAnswered ==
    ASSUME FormInv, NEW i \in DOMAIN calls, Answered(i) \/ TimedOut(i)
    PROVE  FormInv'
  <1>1. /\ calls \in Seq(CallRecord) /\ Len(calls) \in Nat /\ DOMAIN calls = 1..Len(calls)
        /\ i \in 1..Len(calls) /\ calls[i] \in CallRecord
    BY DEF FormInv
  <1>2. calls[i].waits /\ calls' = [calls EXCEPT ![i].waits = FALSE] /\ subscribers' = subscribers
    BY DEF Answered, TimedOut
  <1>3. PICK call : call = [calls[i] EXCEPT !.waits = FALSE]
    OBVIOUS
  <1>4. /\ call \in CallRecord /\ ~call.waits
        /\ call.answer = calls[i].answer /\ call.to = calls[i].to
    BY <1>1, <1>3 DEF CallRecord
  <1>5. /\ calls' \in Seq(CallRecord) /\ Len(calls') = Len(calls) /\ DOMAIN calls' = DOMAIN calls
        /\ calls'[i] = call
        /\ \A k \in DOMAIN calls \ {i} : calls'[k] = calls[k]
    BY <1>1, <1>2, <1>3, <1>4, ExceptSeq
  <1>6. Over' = Over \cup {i} /\ i \notin Over
    BY <1>2, <1>4, <1>5 DEF Over
  <1>7. Cardinality(Over) \in Nat /\ Cardinality(Over') = Cardinality(Over) + 1
    <2>1. Over \in SUBSET (1..Len(calls))
      BY <1>1 DEF Over
    <2> QED BY <1>1, <1>6, <2>1, OverGrows
  <1>8. \/ form' = [form EXCEPT !.done = TRUE, !.told = calls[i].to] /\ calls[i].answer = "created"
        \/ \E shown \in BOOLEAN : form' = Failed(shown)
    BY DEF Answered, TimedOut
  <1>9. CASE form' = [form EXCEPT !.done = TRUE, !.told = calls[i].to] /\ calls[i].answer = "created"
    <2>1. /\ form' \in FormRecord /\ form'.done /\ form'.told = calls[i].to
          /\ form'.spinners = form.spinners /\ form'.messages = form.messages
      BY <1>1, <1>9 DEF FormInv, FormRecord, CallRecord, Told
    <2>2. FormHonest'
      BY <1>2, <1>9, <2>1 DEF FormInv, FormHonest, DoneMeansSubscribed, DisabledMeansPending
    <2>3. \A k \in DOMAIN calls' : calls'[k].answer = "created" => calls'[k].to \in subscribers'
      BY <1>2, <1>4, <1>5 DEF FormInv
    <2>4. form'.messages <= Cardinality(Over')
      BY <1>7, <2>1 DEF FormInv, FormRecord
    <2> QED BY <1>2, <1>5, <2>1, <2>2, <2>3, <2>4 DEF FormInv
  <1>10. ASSUME NEW shown \in BOOLEAN, form' = Failed(shown) PROVE FormInv'
    <2>11. form \in FormRecord /\ form.messages \in Nat
      BY DEF FormInv, FormRecord
    <2>12. PICK n \in {form.messages, form.messages + 1} :
              form' = [form EXCEPT !.disabled = FALSE, !.spinners = 0, !.messages = n]
      BY <1>10 DEF Failed
    <2>13. n \in Nat
      BY <2>11
    <2>14. form' \in FormRecord
      BY <2>11, <2>12, <2>13 DEF FormRecord
    <2>15. form'.done = form.done /\ form'.told = form.told /\ form'.disabled = FALSE
      BY <2>11, <2>12, <2>13 DEF FormRecord
    <2>16. form'.spinners = 0 /\ form'.messages = n
      BY <2>11, <2>12, <2>13 DEF FormRecord
    <2>1. /\ form' \in FormRecord /\ form'.done = form.done /\ form'.told = form.told
          /\ ~form'.disabled /\ form'.spinners = 0
          /\ form'.messages \in {form.messages, form.messages + 1}
      BY <2>12, <2>14, <2>15, <2>16
    <2>2. FormHonest'
      BY <1>2, <2>1 DEF FormInv, FormHonest, DoneMeansSubscribed, DisabledMeansPending
    <2>3. \A k \in DOMAIN calls' : calls'[k].answer = "created" => calls'[k].to \in subscribers'
      BY <1>2, <1>4, <1>5 DEF FormInv
    <2>4. form'.messages <= Cardinality(Over')
      BY <1>7, <2>1 DEF FormInv, FormRecord
    <2>5. form'.spinners <= Len(calls')
      BY <1>1, <1>5, <2>1
    <2> QED BY <1>2, <1>5, <2>1, <2>2, <2>3, <2>4, <2>5 DEF FormInv
  <1> QED BY <1>8, <1>9, <1>10

\* A step of the page keeps the form's invariant.
LEMMA FormKept ==
    ASSUME FormInv, [Next]_vars
    PROVE  FormInv'
  <1>1. CASE UNCHANGED subVars
    BY <1>1 DEF subVars, FormInv, FormHonest, DoneMeansSubscribed, DisabledMeansPending, Over
  <1>2. ASSUME NEW i \in DOMAIN calls, Call(i) PROVE FormInv'
    BY <1>2, FormTaken, FormAnswered DEF Call
  <1> QED BY <1>1, <1>2, FormSteps, FormSubmit DEF FormStep

\* Nothing was typed yet.
LEMMA FormStarts ==
    ASSUME SubInit
    PROVE  FormInv
  <1>1. calls = <<>> /\ Over = {} /\ subscribers = {}
    BY DEF SubInit, Over
  <1>2. form \in FormRecord /\ form.spinners = 0 /\ form.messages = 0 /\ ~form.done /\ ~form.disabled
    BY DEF SubInit, FormRecord, Told
  <1>3. Cardinality(Over) = 0
    BY <1>1, FS_EmptySet
  <1> QED
    BY <1>1, <1>2, <1>3, CallsAssumption
    DEF FormInv, FormHonest, DoneMeansSubscribed, DisabledMeansPending

\* The form never misleads, whatever calls fail, time out or are made twice: a page
\* that says the email is registered is right, and a button that is disabled
\* still waits for a call.
THEOREM FormIsHonest == Spec => []FormHonest
  <1>1. Init => FormInv
    BY FormStarts DEF Init
  <1>2. FormInv /\ [Next]_vars => FormInv'
    BY FormKept
  <1>3. FormInv => FormHonest
    BY DEF FormInv
  <1> QED BY <1>1, <1>2, <1>3, PTL DEF Spec

-----------------------------------------------------------------------------
(* The modals *)

ModalRecord == [isOpen : BOOLEAN, nth : 0..Cardinality(Modals),
                anim : SUBSET {"in", "out"}, shown : BOOLEAN]

\* The inductive invariant of the class: a modal is displayed while it is open
\* and until the animation that closes it ends, and the page's counter and lock
\* are those of the open ones.
ModalInv ==
    /\ modal \in [Modals -> ModalRecord]
    /\ \A m \in Modals :
          /\ modal[m].shown <=> modal[m].isOpen \/ "out" \in modal[m].anim
          /\ modal[m].isOpen => "out" \notin modal[m].anim
    /\ modalsOpen = Cardinality(OpenModals)
    /\ scrollLocked = (OpenModals # {})

\* The open modals are counted.
LEMMA OpenCounted ==
    ASSUME ModalInv
    PROVE  /\ IsFiniteSet(OpenModals) /\ modalsOpen \in 0..Cardinality(Modals)
           /\ Cardinality(Modals) \in Nat
           /\ OpenModals # Modals => modalsOpen < Cardinality(Modals)
  <1>1. OpenModals \subseteq Modals
    BY DEF OpenModals
  <1> QED
    BY <1>1, ModalsAssumption, FS_Subset, FS_CardinalityType DEF ModalInv

\* A modal opens.
LEMMA OpenKeeps ==
    ASSUME ModalInv, NEW m \in Modals, Open(m)
    PROVE  ModalInv'
  <1>1. CASE modal[m].isOpen
    BY <1>1 DEF Open, modalVars, ModalInv, OpenModals
  <1>2. CASE ~modal[m].isOpen
    <2>1. /\ modalsOpen' = modalsOpen + 1 /\ scrollLocked' = TRUE
          /\ modal' = [modal EXCEPT ![m] = [isOpen |-> TRUE, nth |-> modalsOpen + 1,
                                            anim |-> {"in"}, shown |-> TRUE]]
      BY <1>2 DEF Open, Animate
    <2>2. modalsOpen + 1 \in 0..Cardinality(Modals)
      <3>1. m \notin OpenModals
        BY <1>2 DEF OpenModals
      <3> QED BY <3>1, OpenCounted
    <2>3. modal' \in [Modals -> ModalRecord]
      <3>1. [isOpen |-> TRUE, nth |-> modalsOpen + 1, anim |-> {"in"}, shown |-> TRUE] \in ModalRecord
        BY <2>2 DEF ModalRecord
      <3> QED BY <2>1, <3>1 DEF ModalInv
    <2>4. /\ modal'[m].isOpen /\ modal'[m].shown /\ modal'[m].anim = {"in"}
          /\ \A n \in Modals \ {m} : modal'[n] = modal[n]
      BY <2>1 DEF ModalInv
    <2>5. OpenModals' = OpenModals \cup {m} /\ m \notin OpenModals
      BY <1>2, <2>4 DEF OpenModals
    <2>6. Cardinality(OpenModals') = modalsOpen'
      BY <2>1, <2>5, OpenCounted, FS_AddElement DEF ModalInv
    <2>7. scrollLocked' = (OpenModals' # {})
      BY <2>1, <2>5
    <2>8. \A n \in Modals : /\ modal'[n].shown <=> modal'[n].isOpen \/ "out" \in modal'[n].anim
                            /\ modal'[n].isOpen => "out" \notin modal'[n].anim
      BY <2>4 DEF ModalInv
    <2> QED BY <2>3, <2>6, <2>7, <2>8 DEF ModalInv
  <1> QED BY <1>1, <1>2

\* Modals are closed.
LEMMA CloseKeeps ==
    ASSUME ModalInv, NEW S, Close(S)
    PROVE  ModalInv'
  <1> DEFINE closing == S \cap OpenModals
  <1>1. /\ modalsOpen' = modalsOpen - Cardinality(closing)
        /\ scrollLocked' = (scrollLocked /\ ~(closing # {} /\ modalsOpen' = 0))
        /\ modal' = [m \in Modals |->
              IF m \in closing
                THEN [modal[m] EXCEPT !.isOpen = FALSE, !.nth = 0, !.anim = {"out"}]
                ELSE modal[m]]
    BY DEF Close, Animate
  <1>2. closing \subseteq OpenModals /\ OpenModals \subseteq Modals
    BY DEF OpenModals
  <1> HIDE DEF closing
  <1>3. ASSUME NEW m \in closing
        PROVE  /\ modal'[m] \in ModalRecord
               /\ ~modal'[m].isOpen /\ modal'[m].anim = {"out"} /\ modal'[m].shown
    <2>1. modal[m] \in ModalRecord /\ modal[m].shown
      BY <1>2, <1>3 DEF ModalInv, OpenModals
    <2>2. modal'[m] = [modal[m] EXCEPT !.isOpen = FALSE, !.nth = 0, !.anim = {"out"}]
      BY <1>1, <1>2, <1>3
    <2>3. 0 \in 0..Cardinality(Modals)
      BY OpenCounted
    <2>4. modal'[m] \in ModalRecord
      BY <2>1, <2>2, <2>3 DEF ModalRecord
    <2>5. ~modal'[m].isOpen /\ modal'[m].shown
      BY <2>1, <2>2 DEF ModalRecord
    <2>6. modal'[m].anim = {"out"}
      BY <2>1, <2>2 DEF ModalRecord
    <2> QED BY <2>4, <2>5, <2>6
  <1>4. \A m \in Modals \ closing : modal'[m] = modal[m]
    BY <1>1
  <1>5. modal' \in [Modals -> ModalRecord]
    BY <1>1, <1>3, <1>4 DEF ModalInv
  <1>6. OpenModals' = OpenModals \ closing
    BY <1>2, <1>3, <1>4 DEF OpenModals
  <1>7. IsFiniteSet(closing) /\ Cardinality(OpenModals') = modalsOpen'
    <2>1. IsFiniteSet(OpenModals) /\ OpenModals \cap closing = closing
      BY <1>2, OpenCounted
    <2>2. IsFiniteSet(closing)
      BY <1>2, <2>1, FS_Subset
    <2>3. Cardinality(OpenModals \ closing) = Cardinality(OpenModals) - Cardinality(closing)
      BY <2>1, FS_Difference
    <2> QED BY <1>1, <1>6, <2>2, <2>3 DEF ModalInv
  <1>8. scrollLocked' = (OpenModals' # {})
    <2>1. IsFiniteSet(OpenModals')
      BY <1>6, OpenCounted, FS_Difference
    <2>2. modalsOpen' = 0 <=> OpenModals' = {}
      BY <1>7, <2>1, FS_EmptySet
    <2>3. scrollLocked = (OpenModals # {})
      BY DEF ModalInv
    <2> QED BY <1>1, <1>2, <1>6, <2>2, <2>3
  <1>9. \A m \in Modals : /\ modal'[m].shown <=> modal'[m].isOpen \/ "out" \in modal'[m].anim
                          /\ modal'[m].isOpen => "out" \notin modal'[m].anim
    BY <1>3, <1>4 DEF ModalInv
  <1> QED BY <1>5, <1>7, <1>8, <1>9 DEF ModalInv

\* An animation ends.
LEMMA EndsKeep ==
    ASSUME ModalInv, NEW m \in Modals, OpenEnds(m) \/ CloseEnds(m)
    PROVE  ModalInv'
  <1>1. modal[m] \in ModalRecord
    BY DEF ModalInv
  <1>2. modalsOpen' = modalsOpen /\ scrollLocked' = scrollLocked
    BY DEF OpenEnds, CloseEnds
  <1>3. PICK new : /\ modal' = [modal EXCEPT ![m] = new]
                   /\ \/ new = [modal[m] EXCEPT !.anim = modal[m].anim \ {"in"}]
                      \/ /\ "out" \in modal[m].anim
                         /\ new = [modal[m] EXCEPT !.anim = modal[m].anim \ {"out"}, !.shown = FALSE]
    <2>1. CASE OpenEnds(m)
      BY <2>1 DEF OpenEnds
    <2>2. CASE CloseEnds(m)
      BY <2>2 DEF CloseEnds
    <2> QED BY <2>1, <2>2
  <1>4. new \in ModalRecord /\ new.isOpen = modal[m].isOpen
    BY <1>1, <1>3 DEF ModalRecord
  <1>5. /\ new.shown <=> new.isOpen \/ "out" \in new.anim
        /\ new.isOpen => "out" \notin new.anim
    <2>1. CASE new = [modal[m] EXCEPT !.anim = modal[m].anim \ {"in"}]
      <3>1. new.anim = modal[m].anim \ {"in"}
        BY <1>1, <2>1 DEF ModalRecord
      <3>2. new.shown = modal[m].shown
        BY <1>1, <2>1 DEF ModalRecord
      <3> QED BY <1>4, <3>1, <3>2 DEF ModalInv
    <2>2. CASE /\ "out" \in modal[m].anim
               /\ new = [modal[m] EXCEPT !.anim = modal[m].anim \ {"out"}, !.shown = FALSE]
      <3>1. new.anim = modal[m].anim \ {"out"}
        BY <1>1, <2>2 DEF ModalRecord
      <3>2. ~new.shown
        BY <1>1, <2>2 DEF ModalRecord
      <3> QED BY <1>4, <2>2, <3>1, <3>2 DEF ModalInv
    <2> QED BY <1>3, <2>1, <2>2
  <1>6. modal' \in [Modals -> ModalRecord] /\ modal'[m] = new
        /\ \A n \in Modals \ {m} : modal'[n] = modal[n]
    BY <1>3, <1>4 DEF ModalInv
  <1>7. OpenModals' = OpenModals
    BY <1>4, <1>6 DEF OpenModals
  <1>8. \A n \in Modals : /\ modal'[n].shown <=> modal'[n].isOpen \/ "out" \in modal'[n].anim
                          /\ modal'[n].isOpen => "out" \notin modal'[n].anim
    BY <1>5, <1>6 DEF ModalInv
  <1> QED BY <1>2, <1>6, <1>7, <1>8 DEF ModalInv

\* Every modal is closed: as the page is loaded.
LEMMA ClosedIsSound ==
    ASSUME modal = [m \in Modals |-> Closed], modalsOpen = 0, scrollLocked = FALSE
    PROVE  ModalInv
  <1>1. Closed \in ModalRecord
    BY ModalsAssumption, FS_CardinalityType DEF Closed, ModalRecord
  <1>2. OpenModals = {}
    BY DEF OpenModals, Closed
  <1> QED BY <1>1, <1>2, FS_EmptySet DEF ModalInv, Closed

-----------------------------------------------------------------------------
(* The tabs *)

\* A list of tabs, whatever it went through.
TabsRecord == [links : Seq(STRING), active : Nat, content : Nat, marked : SUBSET Nat,
               hidden : SUBSET Nat, isSetup : BOOLEAN]

\* The list t has these links.  Once set up, its active tab is the one whose
\* content is displayed, alone; the content is marked, alone too unless the address
\* has named a tab (strayed).
TabsSound(t, links, strayed) ==
    /\ t \in TabsRecord /\ t.links = links
    /\ t.marked \subseteq DOMAIN links
    /\ t.isSetup => /\ t.active \in DOMAIN links /\ t.content = t.active
                    /\ t.hidden = DOMAIN links \ {t.active}
                    /\ t.active \in t.marked
                    /\ ~strayed => t.marked = {t.active}
    /\ ~t.isSetup => /\ t.active \in 0..Len(links) /\ t.content = 0
                     /\ t.hidden = {} /\ t.marked = {}

\* A set of natural numbers has a least one.
LEMMA LeastOf ==
    ASSUME NEW S \in SUBSET Nat, S # {}
    PROVE  Min(S) \in S /\ \A k \in S : Min(S) <= k
  <1>1. PICK n \in S : \A k \in S : <<k, n>> \notin OpToRel(<, Nat)
    BY WFMin, NatLessThanWellFounded, Zenon
  <1>2. \A k \in S : ~(k < n)
    BY <1>1, Zenon DEF OpToRel
  <1>3. \E x \in S : \A k \in S : x <= k
    BY <1>2
  <1> QED BY <1>3 DEF Min

\* The active tab is chosen, in a list none of whose contents is hidden.
LEMMA ActiveChosen ==
    ASSUME NEW t \in TabsRecord, t.marked \subseteq DOMAIN t.links, Len(t.links) > 0,
           t.active \in 0..Len(t.links), NEW at, NEW strayed \in BOOLEAN,
           ~strayed => (t.marked = {} \/ t.marked = {t.active}),
           at \in ToSet(t.links) => strayed,
           NEW u, u = SetupActiveTabLink(t, at)
    PROVE  /\ u \in TabsRecord /\ u.links = t.links /\ u.hidden = t.hidden /\ u.isSetup = t.isSetup
           /\ u.active \in DOMAIN t.links /\ u.content = u.active
           /\ u.active \in u.marked /\ u.marked \subseteq DOMAIN t.links
           /\ ~strayed => u.marked = {u.active}
  <1> DEFINE found  == {i \in DOMAIN t.links : t.links[i] = at}
             active == IF found # {} THEN Min(found) ELSE Max({t.active, 1})
             marks == t.marked \cup {active}
  <1>1. t.links \in Seq(STRING) /\ Len(t.links) \in Nat /\ DOMAIN t.links = 1..Len(t.links)
    BY DEF TabsRecord
  <1>2. found \in SUBSET Nat /\ (found # {} => strayed)
    BY <1>1 DEF ToSet
  <1>3. Max({t.active, 1}) = IF t.active >= 1 THEN t.active ELSE 1
    <2>1. \A x \in {t.active, 1} : (\A y \in {t.active, 1} : x >= y) =>
                                     x = (IF t.active >= 1 THEN t.active ELSE 1)
      BY <1>1
    <2>2. \E x \in {t.active, 1} : \A y \in {t.active, 1} : x >= y
      BY <1>1
    <2> QED BY <2>1, <2>2 DEF Max
  <1>4. active \in DOMAIN t.links /\ active \in Nat
    <2>1. CASE found # {}
      <3>1. active \in found
        BY <1>2, <2>1, LeastOf
      <3> QED BY <1>1, <3>1
    <2>2. CASE found = {}
      <3>1. active = IF t.active >= 1 THEN t.active ELSE 1
        BY <1>3, <2>2
      <3> HIDE DEF active
      <3> QED BY <1>1, <3>1
    <2> QED BY <2>1, <2>2
  <1>5. ~strayed => active = IF t.active >= 1 THEN t.active ELSE 1
    BY <1>2, <1>3
  <1> HIDE DEF active
  <1>6. ~strayed => marks = {active}
    <2>1. t.marked = {t.active} => t.active >= 1
      BY <1>1
    <2> QED BY <1>1, <1>5, <2>1
  <1>7. marks \in SUBSET DOMAIN t.links /\ marks \in SUBSET Nat /\ active \in marks
    BY <1>1, <1>4
  <1>8. u = [t EXCEPT !.active = active, !.content = active, !.marked = marks]
    BY DEF SetupActiveTabLink, active
  <1> HIDE DEF marks
  <1>9. u \in TabsRecord
    BY <1>4, <1>7, <1>8 DEF TabsRecord
  <1>10. u.links = t.links /\ u.hidden = t.hidden /\ u.isSetup = t.isSetup
    BY <1>8 DEF TabsRecord
  <1>11. u.active = active /\ u.content = active /\ u.marked = marks
    BY <1>8 DEF TabsRecord
  <1> QED BY <1>4, <1>6, <1>7, <1>9, <1>10, <1>11

\* A list is set up, again or for the first time.
LEMMA TabsSetUp ==
    ASSUME NEW m \in Modals, NEW t, NEW at, NEW strayed \in BOOLEAN,
           TabsSound(t, TabLinks[m], strayed), at \in LinkNames => strayed
    PROVE  TabsSound(NewTabs(t, at), TabLinks[m], strayed) /\ NewTabs(t, at).isSetup
  <1>1. PICK links : links = TabLinks[m]
    OBVIOUS
  <1>2. links \in Seq(STRING) /\ Len(links) > 0 /\ Len(links) \in Nat /\ DOMAIN links = 1..Len(links)
    BY <1>1, DialogsAssumption
  <1>3. t \in TabsRecord /\ t.links = links /\ t.marked \subseteq DOMAIN links
        /\ t.active \in 0..Len(links)
        /\ (~strayed => (t.marked = {} \/ t.marked = {t.active}))
    BY <1>1, <1>2 DEF TabsSound
  <1>4. at \in ToSet(links) => strayed
    BY <1>1 DEF LinkNames
  <1>5. PICK old : old = IF t.isSetup THEN TeardownNormalTabs(t) ELSE t
    OBVIOUS
  <1>6. /\ old \in TabsRecord /\ old.links = links /\ old.active = t.active /\ old.marked = t.marked
        /\ old.hidden = {} /\ ~old.isSetup
    <2>1. CASE ~t.isSetup
      BY <1>1, <1>3, <1>5, <2>1 DEF TabsSound
    <2>2. CASE t.isSetup
      <3>1. old = [t EXCEPT !.hidden = {}, !.isSetup = FALSE]
        BY <1>5, <2>2 DEF TeardownNormalTabs
      <3>2. old \in TabsRecord
        BY <1>3, <3>1 DEF TabsRecord
      <3>3. old.links = t.links /\ old.active = t.active /\ old.marked = t.marked
        BY <1>3, <3>1 DEF TabsRecord
      <3>4. old.hidden = {} /\ ~old.isSetup
        BY <1>3, <3>1 DEF TabsRecord
      <3> QED BY <1>3, <3>2, <3>3, <3>4
    <2> QED BY <2>1, <2>2
  <1>7. PICK u : u = SetupActiveTabLink(old, at)
    OBVIOUS
  <1>8. /\ u \in TabsRecord /\ u.links = links /\ u.hidden = {}
        /\ u.active \in DOMAIN links /\ u.content = u.active
        /\ u.active \in u.marked /\ u.marked \subseteq DOMAIN links
        /\ ~strayed => u.marked = {u.active}
    BY <1>2, <1>3, <1>4, <1>6, <1>7, ActiveChosen
  <1>9. PICK new : new = NewTabs(t, at)
    OBVIOUS
  <1>10. new = [u EXCEPT !.hidden = u.hidden \cup (DOMAIN u.links \ {u.active}), !.isSetup = TRUE]
    BY <1>5, <1>7, <1>9 DEF NewTabs, SetupNormalTabs
  <1>11. u.hidden \cup (DOMAIN u.links \ {u.active}) \in SUBSET Nat
    BY <1>2, <1>8
  <1>12. new \in TabsRecord
    BY <1>8, <1>10, <1>11 DEF TabsRecord
  <1>13. new.links = links /\ new.active = u.active /\ new.content = u.content /\ new.marked = u.marked
    BY <1>8, <1>10 DEF TabsRecord
  <1>14. new.hidden = DOMAIN links \ {u.active} /\ new.isSetup
    <2>1. new.hidden = u.hidden \cup (DOMAIN u.links \ {u.active})
      BY <1>8, <1>10 DEF TabsRecord
    <2>2. new.isSetup
      BY <1>8, <1>10 DEF TabsRecord
    <2> QED BY <1>8, <2>1, <2>2
  <1>15. TabsSound(new, links, strayed) /\ new.isSetup
    BY <1>8, <1>12, <1>13, <1>14 DEF TabsSound
  <1> QED BY <1>1, <1>9, <1>15

\* A tab is clicked, in a list that is set up.
LEMMA TabsClicked ==
    ASSUME NEW links \in Seq(STRING), NEW t, NEW i \in DOMAIN links, NEW strayed \in BOOLEAN,
           TabsSound(t, links, strayed), t.isSetup
    PROVE  TabsSound(ClickTab(t, i), links, strayed)
  <1> DEFINE old == {t.content} \ {i}
             marks == (t.marked \cup {i}) \ old
             hides == (t.hidden \cup old) \ {i}
  <1>1. Len(links) \in Nat /\ DOMAIN links = 1..Len(links) /\ i \in Nat
    OBVIOUS
  <1>2. /\ t \in TabsRecord /\ t.links = links /\ t.marked \subseteq DOMAIN links
        /\ t.content = t.active /\ t.active \in DOMAIN links
        /\ t.hidden = DOMAIN links \ {t.active} /\ t.active \in t.marked
        /\ ~strayed => t.marked = {t.active}
    BY DEF TabsSound
  <1>3. marks \subseteq DOMAIN links /\ marks \in SUBSET Nat /\ i \in marks
        /\ (~strayed => marks = {i})
    BY <1>1, <1>2
  <1>4. hides = DOMAIN links \ {i} /\ hides \in SUBSET Nat
    BY <1>1, <1>2
  <1>5. PICK u : u = ClickTab(t, i)
    OBVIOUS
  <1>6. u = [t EXCEPT !.active = i, !.content = i, !.marked = marks, !.hidden = hides]
    BY <1>5 DEF ClickTab
  <1> HIDE DEF marks, hides
  <1>7. u \in TabsRecord
    BY <1>1, <1>2, <1>3, <1>4, <1>6 DEF TabsRecord
  <1>8. u.links = links /\ u.isSetup
    BY <1>2, <1>6 DEF TabsRecord
  <1>9. u.active = i /\ u.content = i /\ u.marked = marks /\ u.hidden = hides
    BY <1>2, <1>6 DEF TabsRecord
  <1>10. TabsSound(u, links, strayed)
    BY <1>3, <1>4, <1>7, <1>8, <1>9 DEF TabsSound
  <1> QED BY <1>5, <1>10

\* As the page is served.
LEMMA TabsStart ==
    ASSUME NEW m \in Modals, NEW strayed \in BOOLEAN
    PROVE  TabsSound(TabsServed(TabLinks[m], Active[m]), TabLinks[m], strayed)
  <1>1. TabLinks[m] \in Seq(STRING) /\ Active[m] \in 0..Len(TabLinks[m]) /\ Len(TabLinks[m]) \in Nat
    BY DialogsAssumption
  <1>2. TabsServed(TabLinks[m], Active[m]) \in TabsRecord
    BY <1>1 DEF TabsServed, TabsRecord
  <1> QED BY <1>1, <1>2 DEF TabsServed, TabsSound

-----------------------------------------------------------------------------
(* The dialogs *)

\* The inductive invariant: the modals and the lists of tabs are sound, and an
\* address that names a tab is remembered to.
DialogInv ==
    /\ ModalInv
    /\ tabs \in [Modals -> TabsRecord]
    /\ \A m \in Modals : TabsSound(tabs[m], TabLinks[m], named)
    /\ named \in BOOLEAN /\ (fragment \in LinkNames => named)

\* What a step of the page is for the dialogs.
DialogStep == DialogActs \/ (\E m \in Modals : DialogTimes(m)) \/ UNCHANGED dialogVars

\* A step of the page is one of the dialogs, or leaves them alone.
LEMMA DialogSteps ==
    ASSUME [Next]_vars
    PROVE  DialogStep
  BY DEF Next, Dialog, Tip, Field, Visits, Loading, Motion, Frames, Ripple, PlaceList, FoldList,
         OpensDialog, Calls, TipTimes, vars, pageVars, DialogStep

\* A list is no less sound once the address has named a tab.
LEMMA SoundOnceNamed ==
    ASSUME DialogInv, tabs' = tabs, named' \in BOOLEAN, named => named'
    PROVE  /\ tabs' \in [Modals -> TabsRecord]
           /\ \A m \in Modals : TabsSound(tabs'[m], TabLinks[m], named')
  BY DEF DialogInv, TabsSound

\* A link within the page is followed, or none is; the tabs stay as they are.
LEMMA FollowKeeps ==
    ASSUME DialogInv, ModalInv', tabs' = tabs,
           \/ fragment' = fragment /\ named' = named
           \/ \E link : Follow(link)
    PROVE  DialogInv'
  <1>1. named' \in BOOLEAN /\ (named => named') /\ (fragment' \in LinkNames => named')
    BY DEF DialogInv, Follow
  <1>2. LinkNames' = LinkNames
    BY DEF LinkNames
  <1> QED BY <1>1, <1>2, SoundOnceNamed DEF DialogInv

\* The page is loaded again.
LEMMA LoadKeeps ==
    ASSUME NEW at, Loads(at)
    PROVE  DialogInv'
  <1>1. modal' = [m \in Modals |-> Closed] /\ modalsOpen' = 0 /\ scrollLocked' = FALSE
    BY DEF Loads
  <1>2. Closed \in ModalRecord
    BY ModalsAssumption, FS_CardinalityType DEF Closed, ModalRecord
  <1>3. OpenModals' = {}
    BY <1>1 DEF OpenModals, Closed
  <1>4. ModalInv'
    BY <1>1, <1>2, <1>3, FS_EmptySet DEF ModalInv, Closed
  <1>5. named' \in BOOLEAN /\ (fragment' \in LinkNames => named')
    <2>1. fragment' = at /\ named' = (at \in LinkNames)
      BY DEF Loads
    <2>2. CASE at \in LinkNames
      BY <2>1, <2>2
    <2>3. CASE at \notin LinkNames
      BY <2>1, <2>3
    <2> QED BY <2>2, <2>3
  <1>6. ASSUME NEW m \in Modals
        PROVE  TabsSound(tabs'[m], TabLinks[m], named') /\ tabs'[m] \in TabsRecord
    <2>1. tabs'[m] = TabsServed(TabLinks[m], Active[m])
      BY DEF Loads
    <2> QED BY <1>5, <2>1, TabsStart DEF TabsSound
  <1>7. tabs' \in [Modals -> TabsRecord]
    BY <1>6 DEF Loads
  <1> QED BY <1>4, <1>5, <1>6, <1>7 DEF DialogInv, LinkNames

\* A dialog has opened: every list of the page is set up.
LEMMA OpenedKeeps ==
    ASSUME DialogInv, NEW m \in Modals, DialogOpened(m)
    PROVE  DialogInv'
  <1>1. ModalInv'
    BY EndsKeep DEF DialogInv, DialogOpened
  <1>2. fragment' = fragment /\ named' = named
    BY DEF DialogOpened
  <1>3. tabs' = [l \in Modals |-> IF l \in onPage THEN NewTabs(tabs[l], fragment) ELSE tabs[l]]
    BY DEF DialogOpened
  <1>4. ASSUME NEW l \in Modals
        PROVE  TabsSound(tabs'[l], TabLinks[l], named) /\ tabs'[l] \in TabsRecord
    <2>1. TabsSound(tabs[l], TabLinks[l], named)
      BY DEF DialogInv
    <2>2. TabsSound(NewTabs(tabs[l], fragment), TabLinks[l], named)
      BY <2>1, TabsSetUp DEF DialogInv
    <2>3. TabsSound(tabs'[l], TabLinks[l], named)
      BY <1>3, <2>1, <2>2
    <2> QED BY <2>3 DEF TabsSound
  <1>5. tabs' \in [Modals -> TabsRecord]
    BY <1>3, <1>4
  <1> QED BY <1>1, <1>2, <1>4, <1>5 DEF DialogInv, LinkNames

\* A tab is clicked.
LEMMA PressKeeps ==
    ASSUME DialogInv, NEW m \in Modals, NEW i \in DOMAIN TabLinks[m], PressTab(m, i)
    PROVE  DialogInv'
  <1>1. ModalInv'
    BY DEF PressTab, modalVars, DialogInv, ModalInv, OpenModals
  <1>2. CASE ~tabs[m].isSetup
    BY <1>1, <1>2, FollowKeeps DEF PressTab
  <1>3. CASE tabs[m].isSetup
    <2>1. PICK new : new = ClickTab(tabs[m], i)
      OBVIOUS
    <2>2. tabs' = [tabs EXCEPT ![m] = new] /\ fragment' = fragment /\ named' = named
      BY <1>3, <2>1 DEF PressTab
    <2>3. TabsSound(new, TabLinks[m], named)
      <3>1. TabLinks[m] \in Seq(STRING)
        BY DialogsAssumption
      <3>2. TabsSound(tabs[m], TabLinks[m], named) /\ named \in BOOLEAN
        BY DEF DialogInv
      <3> QED BY <1>3, <2>1, <3>1, <3>2, TabsClicked
    <2>4. new \in TabsRecord
      BY <2>3 DEF TabsSound
    <2>5. /\ tabs' \in [Modals -> TabsRecord] /\ tabs'[m] = new
          /\ \A l \in Modals \ {m} : tabs'[l] = tabs[l]
      BY <2>2, <2>4 DEF DialogInv
    <2>6. \A l \in Modals : TabsSound(tabs'[l], TabLinks[l], named)
      BY <2>3, <2>5 DEF DialogInv
    <2> QED BY <1>1, <2>2, <2>5, <2>6 DEF DialogInv, LinkNames
  <1> QED BY <1>2, <1>3

\* A step of the page keeps the dialogs' invariant.
LEMMA DialogKept ==
    ASSUME DialogInv, [Next]_vars
    PROVE  DialogInv'
  <1>0. ModalInv
    BY DEF DialogInv
  <1>1. ASSUME NEW m \in Modals, OpenDialog(m) PROVE DialogInv'
    BY <1>0, <1>1, OpenKeeps, FollowKeeps DEF OpenDialog
  <1>2. ASSUME NEW m \in Modals, PressClose(m) PROVE DialogInv'
    BY <1>0, <1>2, CloseKeeps, FollowKeeps DEF PressClose
  <1>3. ASSUME DismissDialogs PROVE DialogInv'
    BY <1>0, <1>3, CloseKeeps, FollowKeeps DEF DismissDialogs
  <1>4. ASSUME NEW m \in Modals, PressSend(m) PROVE DialogInv'
    <2>1. CASE Follow(Top) /\ UNCHANGED <<modalVars, onPage, tabs>>
      <3>1. ModalInv'
        BY <1>0, <2>1 DEF modalVars, ModalInv, OpenModals
      <3> QED BY <2>1, <3>1, FollowKeeps
    <2> QED BY <1>4, <2>1, LoadKeeps DEF PressSend
  <1>5. ASSUME NEW m \in Modals, DialogShut(m) PROVE DialogInv'
    BY <1>0, <1>5, EndsKeep, FollowKeeps DEF DialogShut
  <1>6. ASSUME UNCHANGED dialogVars PROVE DialogInv'
    <2>1. ModalInv'
      BY <1>0, <1>6 DEF dialogVars, modalVars, ModalInv, OpenModals
    <2> QED BY <1>6, <2>1, FollowKeeps DEF dialogVars
  <1> QED
    BY <1>1, <1>2, <1>3, <1>4, <1>5, <1>6, DialogSteps, OpenedKeeps, PressKeeps
    DEF DialogStep, DialogActs, DialogTimes

\* The page is there, with or without dialogs.
LEMMA DialogStarts ==
    ASSUME Init
    PROVE  DialogInv
  <1>1. /\ ModalInit /\ tabs = [m \in Modals |-> TabsServed(TabLinks[m], Active[m])]
        /\ \/ named = (fragment \in LinkNames)
           \/ fragment = Top /\ named = FALSE /\ script # "dialogs"
    BY DEF Init, DialogInit
  <1>2. ModalInv
    BY <1>1, ClosedIsSound DEF ModalInit
  <1>3. named \in BOOLEAN /\ (fragment \in LinkNames => named)
    <2>1. CASE fragment \in LinkNames
      BY <1>1, <2>1, TopAssumption
    <2>2. CASE fragment \notin LinkNames
      <3>1. (fragment \in LinkNames) = FALSE
        BY <2>2
      <3>2. named = FALSE
        BY <1>1, <3>1, Zenon
      <3> QED BY <2>2, <3>2
    <2> QED BY <2>1, <2>2
  <1>4. ASSUME NEW m \in Modals
        PROVE  TabsSound(tabs[m], TabLinks[m], named) /\ tabs[m] \in TabsRecord
    <2>1. TabsSound(tabs[m], TabLinks[m], named)
      BY <1>1, <1>3, TabsStart
    <2> QED BY <2>1 DEF TabsSound
  <1>5. tabs \in [Modals -> TabsRecord]
    BY <1>1, <1>4
  <1> QED BY <1>2, <1>3, <1>4, <1>5 DEF DialogInv

\* What Send reads is the one content displayed, and the flags of a dialog agree
\* once its animations are over.
LEMMA DialogsAreSound ==
    ASSUME DialogInv
    PROVE  DialogsHonest
  <1>1. SentIsShown
    <2> SUFFICES ASSUME NEW m \in Senders, tabs[m].isSetup, ~named
                 PROVE  Shown(tabs[m]) = {ReadBySend(m)}
      BY DEF SentIsShown
    <2>1. PICK t, links : t = tabs[m] /\ links = TabLinks[m]
      OBVIOUS
    <2>2. links \in Seq(STRING) /\ Len(links) \in Nat /\ DOMAIN links = 1..Len(links) /\ m \in Modals
      BY <2>1, DialogsAssumption
    <2>3. /\ t.links = links /\ t.active \in DOMAIN links
          /\ t.hidden = DOMAIN links \ {t.active} /\ t.marked = {t.active}
      BY <2>1, <2>2 DEF DialogInv, TabsSound
    <2>4. Shown(t) = {t.active}
      BY <2>3 DEF Shown
    <2>5. Min({t.active} \cup {Len(links) + 1}) = t.active
      <3>1. PICK S : S = {t.active} \cup {Len(links) + 1}
        OBVIOUS
      <3>2. Min(S) \in S /\ \A k \in S : Min(S) <= k
        <4>1. S \in SUBSET Nat /\ S # {}
          BY <2>2, <2>3, <3>1
        <4> QED BY <4>1, LeastOf
      <3> QED BY <2>2, <2>3, <3>1, <3>2
    <2> QED BY <2>1, <2>3, <2>4, <2>5 DEF ReadBySend
  <1>2. DialogsSettle
    BY DEF DialogInv, ModalInv, ModalRecord, DialogsSettle
  <1> QED BY <1>1, <1>2 DEF DialogsHonest

\* A dialog never misleads, over any number of openings, tabs and closings in the
\* middle of an animation: Send sends what the administrator sees, unless the address
\* has named a tab, and a dialog is displayed exactly while it is open.
THEOREM DialogsAreHonest == Spec => []DialogsHonest
  <1>1. Init => DialogInv
    BY DialogStarts
  <1>2. DialogInv /\ [Next]_vars => DialogInv'
    BY DialogKept
  <1>3. DialogInv => DialogsHonest
    BY DialogsAreSound
  <1> QED BY <1>1, <1>2, <1>3, PTL DEF Spec

-----------------------------------------------------------------------------
(* The tooltips *)

TipRecord == [isOpen : BOOLEAN, isHovered : BOOLEAN, isFocused : BOOLEAN,
              timers : SUBSET {"enter", "exit"}, visible : BOOLEAN]

\* A tooltip holds itself open while it is hovered or focused, and what it does
\* not show yet, or does not hide yet, a timer will.
TipSound(p) ==
    /\ p \in TipRecord
    /\ p.isOpen <=> p.isHovered \/ p.isFocused
    /\ p.isOpen => p.visible \/ "enter" \in p.timers
    /\ ~p.isOpen => ~p.visible \/ "exit" \in p.timers

\* The inductive invariant.
TipInv ==
    /\ tip \in [Tips -> TipRecord]
    /\ \A b \in Tips : TipSound(tip[b]) /\ (tip[b].isOpen => b \in {pointer, focused})
    /\ pointer \in Tips \cup {None} /\ focused \in Tips \cup {None}

\* What a step of the page is for the tooltips.
TipStep ==
    \/ \E b \in Tips \cup {None} : PointTo(b) \/ \E byTab \in BOOLEAN : FocusTo(b, byTab)
    \/ TabUp
    \/ \E b \in Tips : TipTimer(b)
    \/ UNCHANGED tipVars

\* A step of the page is one of the tooltips, or leaves them alone.
LEMMA TipSteps ==
    ASSUME [Next]_vars
    PROVE  TipStep
  BY DEF Next, Dialog, Tip, Field, Visits, Loading, Motion, Frames, Ripple, PlaceList, FoldList,
         OpensDialog, Calls, TipTimes, vars, pageVars, TipStep

\* open: what opens is sound again; p is what was there before the hovering or the
\* focus changed.
LEMMA TipOpens ==
    ASSUME NEW p, TipSound(p), NEW q \in TipRecord, q.isOpen = p.isOpen, q.timers = p.timers,
           q.visible = p.visible, q.isHovered \/ q.isFocused
    PROVE  TipSound(OpenTip(q))
  <1>1. CASE q.isOpen
    BY <1>1 DEF OpenTip, TipSound
  <1>2. CASE ~q.isOpen
    <2>1. PICK u : u = OpenTip(q)
      OBVIOUS
    <2>2. u = [q EXCEPT !.isOpen = TRUE, !.timers = q.timers \cup {"enter"}]
      BY <1>2, <2>1 DEF OpenTip
    <2>3. u \in TipRecord
      BY <2>2 DEF TipRecord
    <2>4. u.isOpen /\ u.isHovered = q.isHovered /\ u.isFocused = q.isFocused
      BY <2>2 DEF TipRecord
    <2>5. u.timers = q.timers \cup {"enter"}
      BY <2>2 DEF TipRecord
    <2>6. TipSound(u)
      BY <2>3, <2>4, <2>5 DEF TipSound
    <2> QED BY <2>1, <2>6
  <1> QED BY <1>1, <1>2

\* _close: a tooltip that does not hold itself open will be hidden.
LEMMA TipCloses ==
    ASSUME NEW p, TipSound(p), NEW q \in TipRecord, q.isOpen = p.isOpen, q.timers = p.timers,
           q.visible = p.visible, ~q.isOpen => ~q.isHovered /\ ~q.isFocused
    PROVE  TipSound(CloseTip(q)) /\ ~CloseTip(q).isOpen
  <1>1. CASE ~q.isOpen
    BY <1>1 DEF CloseTip, TipSound
  <1>2. CASE q.isOpen
    <2>1. PICK u : u = CloseTip(q)
      OBVIOUS
    <2>2. u = [q EXCEPT !.isOpen = FALSE, !.isHovered = FALSE, !.isFocused = FALSE,
                        !.timers = q.timers \cup {"exit"}]
      BY <1>2, <2>1 DEF CloseTip
    <2>3. u \in TipRecord
      BY <2>2 DEF TipRecord
    <2>4. ~u.isOpen /\ ~u.isHovered /\ ~u.isFocused
      BY <2>2 DEF TipRecord
    <2>5. u.timers = q.timers \cup {"exit"}
      BY <2>2 DEF TipRecord
    <2>6. TipSound(u)
      BY <2>3, <2>4, <2>5 DEF TipSound
    <2> QED BY <2>1, <2>4, <2>6
  <1> QED BY <1>1, <1>2

\* The pointer comes and goes, the focus comes and goes.
LEMMA TipHandlers ==
    ASSUME NEW p, TipSound(p)
    PROVE  /\ TipSound(MouseEnter(p)) /\ TipSound(Focus(p))
           /\ TipSound(MouseLeave(p)) /\ ~MouseLeave(p).isOpen
           /\ TipSound(Blur(p)) /\ ~Blur(p).isOpen
  <1>0. p \in TipRecord
    BY DEF TipSound
  <1>1. TipSound(MouseEnter(p))
    <2>1. PICK q : q = [p EXCEPT !.isHovered = TRUE, !.isFocused = FALSE]
      OBVIOUS
    <2>2. q \in TipRecord
      BY <1>0, <2>1 DEF TipRecord
    <2>3. q.isOpen = p.isOpen /\ q.visible = p.visible /\ q.isHovered
      BY <1>0, <2>1 DEF TipRecord
    <2>4. q.timers = p.timers
      BY <1>0, <2>1 DEF TipRecord
    <2> QED BY <2>1, <2>2, <2>3, <2>4, TipOpens DEF MouseEnter
  <1>2. TipSound(Focus(p))
    <2>1. PICK q : q = [p EXCEPT !.isFocused = TRUE]
      OBVIOUS
    <2>2. q \in TipRecord
      BY <1>0, <2>1 DEF TipRecord
    <2>3. q.isOpen = p.isOpen /\ q.visible = p.visible /\ q.isFocused
      BY <1>0, <2>1 DEF TipRecord
    <2>4. q.timers = p.timers
      BY <1>0, <2>1 DEF TipRecord
    <2>5. TipSound(OpenTip(q))
      BY <2>2, <2>3, <2>4, TipOpens
    <2> QED BY <2>1, <2>5 DEF Focus
  <1>3. TipSound(MouseLeave(p)) /\ ~MouseLeave(p).isOpen
    <2>1. PICK q : q = [p EXCEPT !.isHovered = FALSE, !.isFocused = FALSE]
      OBVIOUS
    <2>2. q \in TipRecord
      BY <1>0, <2>1 DEF TipRecord
    <2>3. q.isOpen = p.isOpen /\ q.visible = p.visible /\ ~q.isHovered /\ ~q.isFocused
      BY <1>0, <2>1 DEF TipRecord
    <2>4. q.timers = p.timers
      BY <1>0, <2>1 DEF TipRecord
    <2> QED BY <2>1, <2>2, <2>3, <2>4, TipCloses DEF MouseLeave
  <1>4. TipSound(Blur(p)) /\ ~Blur(p).isOpen
    <2>1. PICK q : q = [p EXCEPT !.isFocused = FALSE]
      OBVIOUS
    <2>2. q \in TipRecord
      BY <1>0, <2>1 DEF TipRecord
    <2>3. q.isOpen = p.isOpen /\ q.visible = p.visible /\ q.isHovered = p.isHovered /\ ~q.isFocused
      BY <1>0, <2>1 DEF TipRecord
    <2>4. q.timers = p.timers
      BY <1>0, <2>1 DEF TipRecord
    <2>5. ~q.isOpen => ~q.isHovered /\ ~q.isFocused
      BY <2>3 DEF TipSound
    <2> QED BY <2>1, <2>2, <2>3, <2>4, <2>5, TipCloses DEF Blur
  <1> QED BY <1>1, <1>2, <1>3, <1>4

\* A timer fires.
LEMMA TipFires ==
    ASSUME TipInv, NEW b \in Tips, TipTimer(b)
    PROVE  TipInv'
  <1>1. tip[b] \in TipRecord /\ TipSound(tip[b])
    BY DEF TipInv
  <1>2. PICK new : /\ tip' = [tip EXCEPT ![b] = new]
                   /\ \/ new = [tip[b] EXCEPT !.timers = tip[b].timers \ {"exit"},
                                  !.visible = tip[b].visible /\ (tip[b].isHovered \/ tip[b].isFocused)]
                      \/ new = [tip[b] EXCEPT !.timers = tip[b].timers \ {"enter"},
                                  !.visible = tip[b].visible \/ tip[b].isHovered \/ tip[b].isFocused]
    <2>1. CASE ExitFires(b)
      BY <2>1 DEF ExitFires
    <2>2. CASE EnterFires(b)
      BY <2>2 DEF EnterFires
    <2> QED BY <2>1, <2>2 DEF TipTimer
  <1>3. TipSound(new) /\ new.isOpen = tip[b].isOpen
    <2>1. CASE new = [tip[b] EXCEPT !.timers = tip[b].timers \ {"exit"},
                        !.visible = tip[b].visible /\ (tip[b].isHovered \/ tip[b].isFocused)]
      <3>1. new \in TipRecord
        BY <1>1, <2>1 DEF TipRecord
      <3>2. new.isOpen = tip[b].isOpen /\ new.isHovered = tip[b].isHovered /\ new.isFocused = tip[b].isFocused
        BY <1>1, <2>1 DEF TipRecord
      <3>3. new.timers = tip[b].timers \ {"exit"}
        BY <1>1, <2>1 DEF TipRecord
      <3>4. new.visible <=> tip[b].visible /\ (tip[b].isHovered \/ tip[b].isFocused)
        BY <1>1, <2>1 DEF TipRecord
      <3> QED BY <1>1, <3>1, <3>2, <3>3, <3>4 DEF TipSound
    <2>2. CASE new = [tip[b] EXCEPT !.timers = tip[b].timers \ {"enter"},
                        !.visible = tip[b].visible \/ tip[b].isHovered \/ tip[b].isFocused]
      <3>1. new \in TipRecord
        BY <1>1, <2>2 DEF TipRecord
      <3>2. new.isOpen = tip[b].isOpen /\ new.isHovered = tip[b].isHovered /\ new.isFocused = tip[b].isFocused
        BY <1>1, <2>2 DEF TipRecord
      <3>3. new.timers = tip[b].timers \ {"enter"}
        BY <1>1, <2>2 DEF TipRecord
      <3>4. new.visible <=> tip[b].visible \/ tip[b].isHovered \/ tip[b].isFocused
        BY <1>1, <2>2 DEF TipRecord
      <3> QED BY <1>1, <3>1, <3>2, <3>3, <3>4 DEF TipSound
    <2> QED BY <1>2, <2>1, <2>2
  <1>4. pointer' = pointer /\ focused' = focused
    BY DEF TipTimer, ExitFires, EnterFires
  <1>5. /\ tip' \in [Tips -> TipRecord] /\ tip'[b] = new
        /\ \A x \in Tips \ {b} : tip'[x] = tip[x]
    BY <1>2, <1>3 DEF TipInv, TipSound
  <1> QED BY <1>3, <1>4, <1>5 DEF TipInv

\* The pointer, or the focus, moves.
LEMMA TipMoves ==
    ASSUME TipInv, NEW b \in Tips \cup {None},
           PointTo(b) \/ \E byTab \in BOOLEAN : FocusTo(b, byTab)
    PROVE  TipInv'
  <1>1. \A x \in Tips : /\ TipSound(MouseEnter(tip[x])) /\ TipSound(Focus(tip[x]))
                        /\ TipSound(MouseLeave(tip[x])) /\ ~MouseLeave(tip[x]).isOpen
                        /\ TipSound(Blur(tip[x])) /\ ~Blur(tip[x]).isOpen
    BY TipHandlers DEF TipInv
  <1>2. CASE PointTo(b)
    <2>1. /\ pointer' = b /\ focused' = focused /\ b # pointer
          /\ tip' = [x \in Tips |-> IF x = pointer THEN MouseLeave(tip[x])
                                    ELSE IF x = b THEN MouseEnter(tip[x]) ELSE tip[x]]
      BY <1>2 DEF PointTo
    <2>2. ASSUME NEW x \in Tips
          PROVE  TipSound(tip'[x]) /\ (tip'[x].isOpen => x \in {pointer', focused'})
      <3>1. CASE x = pointer
        BY <1>1, <2>1, <3>1
      <3>2. CASE x # pointer /\ x = b
        BY <1>1, <2>1, <3>2
      <3>3. CASE x # pointer /\ x # b
        BY <2>1, <3>3 DEF TipInv
      <3> QED BY <3>1, <3>2, <3>3
    <2>3. tip' \in [Tips -> TipRecord]
      BY <2>1, <2>2 DEF TipSound
    <2> QED BY <2>1, <2>2, <2>3 DEF TipInv
  <1>3. ASSUME NEW byTab \in BOOLEAN, FocusTo(b, byTab) PROVE TipInv'
    <2>1. /\ focused' = b /\ pointer' = pointer /\ b # focused
          /\ tip' = [x \in Tips |-> IF x = focused THEN Blur(tip[x])
                                    ELSE IF x = b THEN Focus(tip[x]) ELSE tip[x]]
      BY <1>3 DEF FocusTo
    <2>2. ASSUME NEW x \in Tips
          PROVE  TipSound(tip'[x]) /\ (tip'[x].isOpen => x \in {pointer', focused'})
      <3>1. CASE x = focused
        BY <1>1, <2>1, <3>1
      <3>2. CASE x # focused /\ x = b
        BY <1>1, <2>1, <3>2
      <3>3. CASE x # focused /\ x # b
        BY <2>1, <3>3 DEF TipInv
      <3> QED BY <3>1, <3>2, <3>3
    <2>3. tip' \in [Tips -> TipRecord]
      BY <2>1, <2>2 DEF TipSound
    <2> QED BY <2>1, <2>2, <2>3 DEF TipInv
  <1> QED BY <1>2, <1>3

\* A step of the page keeps the tooltips' invariant.
LEMMA TipKept ==
    ASSUME TipInv, [Next]_vars
    PROVE  TipInv'
  <1>1. CASE UNCHANGED <<tip, pointer, focused>>
    BY <1>1 DEF TipInv
  <1> QED BY <1>1, TipSteps, TipMoves, TipFires DEF TipStep, TabUp, tipVars

\* No tooltip is open.
LEMMA TipStarts ==
    ASSUME TipInit
    PROVE  TipInv
  BY DEF TipInit, TipInv, TipSound, TipRecord

\* A tooltip whose timers have fired is visible exactly when it holds itself open.
LEMMA TipsAreSound ==
    ASSUME TipInv
    PROVE  TipSettled
  BY DEF TipInv, TipSound, TipRecord, TipSettled

-----------------------------------------------------------------------------
(* The ripples *)

Phases == {"held", "waiting", "fading"}

\* Only the last ripple of a list may be held.
HeldLast(s) == \A i \in DOMAIN s : s[i] = "held" => i = Len(s)
NoneHeld(s) == \A i \in DOMAIN s : s[i] # "held"

PressedOn(el) == (mouse.down /\ mouse.over = el) \/ finger = el

\* The inductive invariant: an element whose last ripple is held is pressed, and
\* listens; and a touch is counted until its timer, or is one that was lost.
WavesInv ==
    /\ ripples \in [Ripplers -> Seq(Phases)] /\ listening \subseteq Ripplers
    /\ \A el \in Ripplers :
          /\ HeldLast(ripples[el])
          /\ ~NoneHeld(ripples[el]) => el \in listening /\ PressedOn(el)
    /\ touches \in Nat /\ pops \in Nat
    /\ mouse \in [over : Ripplers \cup {Page}, down : BOOLEAN]
    /\ finger \in Ripplers \cup {Page, Nowhere} /\ lost \in BOOLEAN
    /\ ~lost => /\ touches = pops + (IF finger = Nowhere THEN 0 ELSE 1)
                /\ finger # Nowhere => finger \in listening

\* What a step of the page is for the ripples.
LEMMA WavesSteps ==
    ASSUME [Next]_vars
    PROVE  WavesActs \/ WavesTimes \/ UNCHANGED wavesVars
  BY DEF Next, Dialog, Tip, Field, Visits, Loading, Motion, Frames, Ripple, PlaceList, FoldList,
         OpensDialog, Calls, TipTimes, vars, pageVars

\* The last ripple fades: none is held then.
LEMMA FadedHolds ==
    ASSUME NEW s \in Seq(Phases), HeldLast(s)
    PROVE  Faded(s) \in Seq(Phases) /\ NoneHeld(Faded(s)) /\ HeldLast(Faded(s))
  <1>1. CASE s = <<>>
    BY <1>1 DEF Faded, NoneHeld, HeldLast
  <1>2. CASE s # <<>>
    <2>1. PICK new : new = IF s[Len(s)] = "held" THEN "waiting" ELSE s[Len(s)]
      OBVIOUS
    <2>2. Len(s) \in 1..Len(s) /\ new \in Phases /\ new # "held"
      BY <1>2, <2>1 DEF Phases
    <2>3. Faded(s) = [s EXCEPT ![Len(s)] = new]
      BY <1>2, <2>1 DEF Faded
    <2>4. Faded(s) \in Seq(Phases) /\ DOMAIN Faded(s) = 1..Len(s)
      BY <2>2, <2>3
    <2>5. \A i \in 1..Len(s) : Faded(s)[i] = IF i = Len(s) THEN new ELSE s[i]
      BY <2>2, <2>3
    <2>6. NoneHeld(Faded(s))
      BY <2>2, <2>4, <2>5 DEF NoneHeld, HeldLast
    <2> QED BY <2>4, <2>6 DEF NoneHeld, HeldLast
  <1> QED BY <1>1, <1>2

\* A ripple is added where none is held.
LEMMA AddedHolds ==
    ASSUME NEW s \in Seq(Phases), NoneHeld(s)
    PROVE  Append(s, "held") \in Seq(Phases) /\ HeldLast(Append(s, "held"))
  <1>1. "held" \in Phases
    BY DEF Phases
  <1>2. /\ Append(s, "held") \in Seq(Phases) /\ Len(Append(s, "held")) = Len(s) + 1
        /\ \A i \in 1..Len(s) : Append(s, "held")[i] = s[i]
        /\ DOMAIN Append(s, "held") = 1..(Len(s) + 1) /\ DOMAIN s = 1..Len(s)
    BY <1>1, AppendProperties
  <1> QED BY <1>2 DEF NoneHeld, HeldLast

\* What SubSeq takes out of a sequence, from one place to another.
LEMMA Taking ==
    ASSUME NEW S, NEW s \in Seq(S), NEW m \in 1..(Len(s) + 1), NEW n \in 0..Len(s), m <= n + 1
    PROVE  /\ SubSeq(s, m, n) \in Seq(S) /\ Len(SubSeq(s, m, n)) = n + 1 - m
           /\ \A k \in 1..(n + 1 - m) : SubSeq(s, m, n)[k] = s[m + k - 1]
  <1>1. Len(s) \in Nat /\ m \in Int /\ n \in Int /\ \A k \in m..n : s[k] \in S
    OBVIOUS
  <1>2. /\ SubSeq(s, m, n) \in Seq(S)
        /\ Len(SubSeq(s, m, n)) = IF m <= n THEN n - m + 1 ELSE 0
        /\ \A k \in 1..(n - m + 1) : SubSeq(s, m, n)[k] = s[m + k - 1]
    BY ONLY <1>1, SubSeqProperties
  <1>3. n - m + 1 = n + 1 - m /\ (IF m <= n THEN n - m + 1 ELSE 0) = n + 1 - m
    BY <1>1
  <1> QED BY ONLY <1>2, <1>3

\* What RemoveAt leaves at each place.
LEMMA Removing ==
    ASSUME NEW S, NEW s \in Seq(S), NEW i \in 1..Len(s)
    PROVE  /\ RemoveAt(s, i) \in Seq(S) /\ Len(RemoveAt(s, i)) = Len(s) - 1
           /\ \A k \in 1..(Len(s) - 1) : RemoveAt(s, i)[k] = IF k < i THEN s[k] ELSE s[k + 1]
  <1>1. PICK a, b : a = SubSeq(s, 1, i - 1) /\ b = SubSeq(s, i + 1, Len(s))
    OBVIOUS
  <1>2. /\ Len(s) \in Nat /\ i \in Nat /\ i >= 1 /\ i <= Len(s)
        /\ 1 \in 1..(Len(s) + 1) /\ i - 1 \in 0..Len(s) /\ 1 <= (i - 1) + 1
        /\ i + 1 \in 1..(Len(s) + 1) /\ Len(s) \in 0..Len(s) /\ i + 1 <= Len(s) + 1
        /\ (i - 1) + 1 - 1 = i - 1 /\ Len(s) + 1 - (i + 1) = Len(s) - i
    OBVIOUS
  <1>3. /\ a \in Seq(S) /\ Len(a) = i - 1
        /\ \A k \in 1..(i - 1) : a[k] = s[1 + k - 1]
    <2>1. /\ a \in Seq(S) /\ Len(a) = (i - 1) + 1 - 1
          /\ \A k \in 1..((i - 1) + 1 - 1) : a[k] = s[1 + k - 1]
      BY ONLY <1>1, <1>2, s \in Seq(S), Taking
    <2> QED BY ONLY <1>2, <2>1
  <1>4. /\ b \in Seq(S) /\ Len(b) = Len(s) - i
        /\ \A k \in 1..(Len(s) - i) : b[k] = s[i + 1 + k - 1]
    <2>1. /\ b \in Seq(S) /\ Len(b) = Len(s) + 1 - (i + 1)
          /\ \A k \in 1..(Len(s) + 1 - (i + 1)) : b[k] = s[i + 1 + k - 1]
      BY ONLY <1>1, <1>2, s \in Seq(S), Taking
    <2> QED BY ONLY <1>2, <2>1
  <1>5. PICK u : u = a \o b
    OBVIOUS
  <1>6. u = RemoveAt(s, i)
    BY ONLY <1>1, <1>5 DEF RemoveAt
  <1>7. /\ u \in Seq(S) /\ Len(u) = Len(a) + Len(b)
        /\ \A k \in 1..(Len(a) + Len(b)) : u[k] = IF k <= Len(a) THEN a[k] ELSE b[k - Len(a)]
    BY ONLY <1>3, <1>4, <1>5, ConcatProperties
  <1>8. Len(a) + Len(b) = Len(s) - 1
    BY ONLY <1>2, <1>3, <1>4
  <1>9. ASSUME NEW k \in 1..(Len(s) - 1)
        PROVE  u[k] = IF k < i THEN s[k] ELSE s[k + 1]
    <2>1. CASE k < i
      <3>1. k \in 1..(i - 1) /\ 1 + k - 1 = k /\ k <= Len(a)
        BY ONLY <1>2, <1>3, <2>1, k \in 1..(Len(s) - 1)
      <3> QED BY ONLY <1>3, <1>7, <1>8, <2>1, <3>1, k \in 1..(Len(s) - 1)
    <2>2. CASE ~(k < i)
      <3>1. /\ k - Len(a) \in 1..(Len(s) - i) /\ i + 1 + (k - Len(a)) - 1 = k + 1
            /\ ~(k <= Len(a))
        BY ONLY <1>2, <1>3, <2>2, k \in 1..(Len(s) - 1)
      <3> QED BY ONLY <1>4, <1>7, <1>8, <2>2, <3>1, k \in 1..(Len(s) - 1)
    <2> QED BY ONLY <2>1, <2>2
  <1> QED BY ONLY <1>6, <1>7, <1>8, <1>9

\* The first timer turns a ripple that is not held.
LEMMA TurnedHolds ==
    ASSUME NEW s \in Seq(Phases), NEW i \in 1..Len(s), HeldLast(s), s[i] # "held",
           NEW u, u = [s EXCEPT ![i] = "fading"]
    PROVE  u \in Seq(Phases) /\ HeldLast(u) /\ (NoneHeld(s) => NoneHeld(u))
  <1>1. Len(s) \in Nat /\ DOMAIN s = 1..Len(s) /\ "fading" \in Phases /\ "fading" # "held"
    BY DEF Phases
  <1>2. u \in Seq(Phases) /\ Len(u) = Len(s) /\ DOMAIN u = 1..Len(s)
        /\ \A k \in 1..Len(s) : u[k] = IF k = i THEN "fading" ELSE s[k]
    BY <1>1
  <1> QED BY <1>1, <1>2 DEF HeldLast, NoneHeld

\* The second takes one away that is not held.
LEMMA TakenHolds ==
    ASSUME NEW s \in Seq(Phases), NEW i \in 1..Len(s), HeldLast(s), s[i] # "held",
           NEW u, u = RemoveAt(s, i)
    PROVE  u \in Seq(Phases) /\ HeldLast(u) /\ (NoneHeld(s) => NoneHeld(u))
  <1>1. /\ u \in Seq(Phases) /\ Len(u) = Len(s) - 1 /\ DOMAIN u = 1..(Len(s) - 1)
        /\ \A k \in 1..(Len(s) - 1) : u[k] = s[k] \/ (u[k] = s[k + 1] /\ k >= i)
    <2>1. /\ u \in Seq(Phases) /\ Len(u) = Len(s) - 1
          /\ \A k \in 1..(Len(s) - 1) : u[k] = IF k < i THEN s[k] ELSE s[k + 1]
      BY Removing
    <2>2. \A k \in 1..(Len(s) - 1) : ~(k < i) => k >= i
      OBVIOUS
    <2>3. DOMAIN u = 1..(Len(s) - 1)
      BY ONLY <2>1
    <2> QED BY ONLY <2>1, <2>2, <2>3
  <1>2. Len(s) \in Nat /\ DOMAIN s = 1..Len(s) /\ i \in Nat
    OBVIOUS
  <1>3. HeldLast(u)
    <2>1. \A j \in 1..Len(s) : s[j] = "held" => j = Len(s)
      BY ONLY HeldLast(s), <1>2 DEF HeldLast
    <2>2. ASSUME NEW k \in 1..(Len(s) - 1), u[k] = "held" PROVE k = Len(s) - 1
      <3>0. k \in Nat /\ k \in 1..Len(s) /\ k + 1 \in 1..Len(s)
        BY <1>2
      <3>5. ASSUME k = Len(s) PROVE FALSE
        <4>1. Len(s) \in 1..(Len(s) - 1)
          BY ONLY <3>5, k \in 1..(Len(s) - 1)
        <4> QED BY ONLY <1>2, <4>1
      <3>1. s[k] # "held"
        BY ONLY <2>1, <3>0, <3>5
      <3>2. s[k + 1] = "held"
        BY ONLY <1>1, <2>2, <3>1, k \in 1..(Len(s) - 1)
      <3>3. k + 1 = Len(s)
        BY ONLY <2>1, <3>0, <3>2
      <3>4. \A a, n \in Nat : a + 1 = n => a = n - 1
        OBVIOUS
      <3> QED BY ONLY <1>2, <3>0, <3>3, <3>4
    <2> QED BY ONLY <1>1, <2>2 DEF HeldLast
  <1>4. ASSUME NoneHeld(s) PROVE NoneHeld(u)
    <2>1. \A j \in 1..Len(s) : s[j] # "held"
      BY ONLY <1>2, <1>4 DEF NoneHeld
    <2>2. ASSUME NEW k \in 1..(Len(s) - 1) PROVE u[k] # "held"
      <3>0. k \in Nat /\ k \in 1..Len(s) /\ k + 1 \in 1..Len(s)
        BY <1>2
      <3>1. s[k] # "held" /\ s[k + 1] # "held"
        BY ONLY <2>1, <3>0
      <3>2. u[k] = s[k] \/ u[k] = s[k + 1]
        BY ONLY <1>1, k \in 1..(Len(s) - 1)
      <3> QED BY ONLY <3>1, <3>2
    <2> QED BY ONLY <1>1, <2>2 DEF NoneHeld
  <1> QED BY <1>1, <1>3, <1>4

\* The ripples once one was shown at a button, and once the last one there was
\* told to go.
ShownAt(el) ==
    /\ ripples' \in [Ripplers -> Seq(Phases)] /\ listening' \subseteq Ripplers
    /\ listening \subseteq listening' /\ (el \in Ripplers => el \in listening')
    /\ \A g \in Ripplers : /\ HeldLast(ripples'[g])
                           /\ ~NoneHeld(ripples'[g]) => g = el \/ ~NoneHeld(ripples[g])

HiddenAt(el) ==
    /\ ripples' \in [Ripplers -> Seq(Phases)]
    /\ \A g \in Ripplers : /\ HeldLast(ripples'[g])
                           /\ ~NoneHeld(ripples'[g]) => g # el /\ ~NoneHeld(ripples[g])

\* A press gives its button, of which none is held, a ripple that is.
LEMMA Shows ==
    ASSUME WavesInv, NEW el \in Ripplers \cup {Page}, ShowEffect(el),
           el \in Ripplers => NoneHeld(ripples[el])
    PROVE  ShownAt(el)
  <1>1. CASE el \in Ripplers
    <2>1. /\ ripples' = [ripples EXCEPT ![el] = Append(ripples[el], "held")]
          /\ listening' = listening \cup {el}
      BY <1>1 DEF ShowEffect
    <2>2. ripples \in [Ripplers -> Seq(Phases)] /\ listening \subseteq Ripplers
          /\ \A g \in Ripplers : HeldLast(ripples[g])
      BY DEF WavesInv
    <2>3. /\ Append(ripples[el], "held") \in Seq(Phases)
          /\ HeldLast(Append(ripples[el], "held"))
      <3>1. ripples[el] \in Seq(Phases) /\ NoneHeld(ripples[el])
        BY <1>1, <2>2
      <3> QED BY <3>1, AddedHolds
    <2>4. PICK new : new = Append(ripples[el], "held")
      OBVIOUS
    <2>5. new \in Seq(Phases) /\ HeldLast(new) /\ ripples' = [ripples EXCEPT ![el] = new]
      BY <2>1, <2>3, <2>4
    <2> QED BY <1>1, <2>1, <2>2, <2>5 DEF ShownAt
  <1>2. CASE el \notin Ripplers
    BY <1>2 DEF WavesInv, ShowEffect, ShownAt
  <1> QED BY <1>1, <1>2

\* Letting go leaves none held where the pointer was.
LEMMA Hides ==
    ASSUME WavesInv, NEW el \in Ripplers \cup {Page, Nowhere}, HideEffect(el)
    PROVE  HiddenAt(el)
  <1>0. /\ ripples \in [Ripplers -> Seq(Phases)] /\ listening \subseteq Ripplers
        /\ \A g \in Ripplers : /\ HeldLast(ripples[g])
                               /\ ~NoneHeld(ripples[g]) => g \in listening
    BY DEF WavesInv
  <1>1. CASE el \in listening
    <2>1. PICK new : new = Faded(ripples[el])
      OBVIOUS
    <2>5. el \in Ripplers
      BY <1>0, <1>1
    <2>2. ripples[el] \in Seq(Phases) /\ HeldLast(ripples[el]) /\ el \in Ripplers
      BY ONLY <1>0, <2>5
    <2>3. new \in Seq(Phases) /\ HeldLast(new) /\ NoneHeld(new)
      BY <2>1, <2>2, FadedHolds
    <2>4. ripples' = [ripples EXCEPT ![el] = new]
      BY <1>1, <2>1 DEF HideEffect
    <2> QED BY <1>0, <2>2, <2>3, <2>4 DEF HiddenAt
  <1>2. CASE el \notin listening
    BY <1>0, <1>2 DEF HideEffect, HiddenAt
  <1> QED BY <1>1, <1>2

\* The presses and the ends of the presses keep the invariant.
LEMMA ActsKeep == WavesInv /\ WavesActs => WavesInv'
  <1> SUFFICES ASSUME WavesInv, WavesActs PROVE WavesInv'
    OBVIOUS
  <1>0. /\ ripples \in [Ripplers -> Seq(Phases)] /\ listening \subseteq Ripplers
        /\ \A el \in Ripplers :
              /\ HeldLast(ripples[el])
              /\ ~NoneHeld(ripples[el]) =>
                    el \in listening /\ ((mouse.down /\ mouse.over = el) \/ finger = el)
        /\ touches \in Nat /\ pops \in Nat
        /\ mouse \in [over : Ripplers \cup {Page}, down : BOOLEAN]
        /\ mouse.over \in Ripplers \cup {Page} /\ mouse.down \in BOOLEAN
        /\ finger \in Ripplers \cup {Page, Nowhere} /\ lost \in BOOLEAN
        /\ ~lost => /\ touches = pops + (IF finger = Nowhere THEN 0 ELSE 1)
                    /\ finger # Nowhere => finger \in listening
    BY DEF WavesInv, PressedOn
  <1>6. Page \notin Ripplers /\ Nowhere \notin Ripplers
    BY WavesAssumption
  <1>1. CASE MouseDown
    <2>0. /\ ~mouse.down /\ finger = Nowhere /\ mouse' = [mouse EXCEPT !.down = TRUE]
          /\ touches' = touches /\ pops' = pops /\ finger' = finger /\ lost' = lost
          /\ \A g \in Ripplers : NoneHeld(ripples[g])
      BY <1>0, <1>1, <1>6 DEF MouseDown
    <2>1. /\ mouse' \in [over : Ripplers \cup {Page}, down : BOOLEAN]
          /\ mouse'.over = mouse.over /\ mouse'.down = TRUE
      BY <1>0, <2>0
    <2>2. /\ ripples' \in [Ripplers -> Seq(Phases)] /\ listening' \subseteq Ripplers
          /\ \A g \in Ripplers :
                /\ HeldLast(ripples'[g])
                /\ ~NoneHeld(ripples'[g]) => g \in listening' /\ g = mouse.over
      <3>1. CASE touches > 0
        BY <1>0, <1>1, <2>0, <3>1 DEF MouseDown
      <3>2. CASE ~(touches > 0)
        <4>1. ShowEffect(mouse.over)
          BY <1>1, <3>2 DEF MouseDown
        <4>2. ShownAt(mouse.over)
          BY ONLY <1>0, <2>0, <4>1, Shows, WavesInv
        <4> QED BY <1>0, <2>0, <4>2 DEF ShownAt
      <3> QED BY <3>1, <3>2
    <2> QED BY <1>0, <2>0, <2>1, <2>2 DEF WavesInv, PressedOn
  <1>2. CASE MouseUp
    <2>0. /\ mouse' = [mouse EXCEPT !.down = FALSE] /\ HideEffect(mouse.over)
          /\ UNCHANGED <<listening, touches, pops, finger, lost>>
      BY <1>2 DEF MouseUp
    <2>1. mouse' \in [over : Ripplers \cup {Page}, down : BOOLEAN]
      BY <1>0, <2>0
    <2>2. /\ ripples' \in [Ripplers -> Seq(Phases)]
          /\ \A g \in Ripplers :
                /\ HeldLast(ripples'[g])
                /\ ~NoneHeld(ripples'[g]) => g # mouse.over /\ ~NoneHeld(ripples[g])
      <3>1. HiddenAt(mouse.over)
        BY ONLY <1>0, <2>0, Hides, WavesInv
      <3> QED BY <3>1 DEF HiddenAt
    <2> QED BY <1>0, <2>0, <2>1, <2>2 DEF WavesInv, PressedOn
  <1>3. CASE TouchEnd
    <2>0. /\ finger # Nowhere /\ finger' = Nowhere /\ HideEffect(finger) /\ TouchUp(finger)
          /\ listening' = listening /\ touches' = touches /\ mouse' = mouse /\ lost' = lost
      BY <1>3 DEF TouchEnd
    <2>1. /\ ripples' \in [Ripplers -> Seq(Phases)]
          /\ \A g \in Ripplers :
                /\ HeldLast(ripples'[g])
                /\ ~NoneHeld(ripples'[g]) => g # finger /\ ~NoneHeld(ripples[g])
      <3>1. HiddenAt(finger)
        BY ONLY <1>0, <2>0, Hides, WavesInv
      <3> QED BY <3>1 DEF HiddenAt
    <2>2. pops' \in Nat /\ (~lost => touches = pops')
      BY <1>0, <2>0 DEF TouchUp
    <2>3. \A g \in Ripplers : ~NoneHeld(ripples'[g]) =>
                g \in listening' /\ mouse'.down /\ mouse'.over = g
      BY <1>0, <2>0, <2>1
    <2>4. ~lost' => touches' = pops' + (IF finger' = Nowhere THEN 0 ELSE 1)
      <3> SUFFICES ASSUME ~lost' PROVE touches' = pops' + 0
        BY <2>0
      <3>1. ~lost
        BY <2>0
      <3>2. touches = pops'
        BY <2>2, <3>1
      <3>3. \A n \in Nat : n = n + 0
        OBVIOUS
      <3> QED BY ONLY <2>0, <2>2, <3>2, <3>3
    <2> QED BY <1>0, <2>0, <2>1, <2>2, <2>3, <2>4 DEF WavesInv, PressedOn
  <1>4. ASSUME NEW el \in Ripplers \cup {Page}, MouseTo(el) PROVE WavesInv'
    <2>0. /\ mouse' = [mouse EXCEPT !.over = el] /\ HideEffect(mouse.over)
          /\ UNCHANGED <<listening, touches, pops, finger, lost>>
      BY <1>4 DEF MouseTo
    <2>1. mouse' \in [over : Ripplers \cup {Page}, down : BOOLEAN]
      BY <1>0, <2>0
    <2>2. /\ ripples' \in [Ripplers -> Seq(Phases)]
          /\ \A g \in Ripplers :
                /\ HeldLast(ripples'[g])
                /\ ~NoneHeld(ripples'[g]) => g # mouse.over /\ ~NoneHeld(ripples[g])
      <3>1. HiddenAt(mouse.over)
        BY ONLY <1>0, <2>0, Hides, WavesInv
      <3> QED BY <3>1 DEF HiddenAt
    <2> QED BY <1>0, <2>0, <2>1, <2>2 DEF WavesInv, PressedOn
  <1>5. ASSUME NEW el \in Ripplers \cup {Page}, TouchStart(el) PROVE WavesInv'
    <2>0. /\ finger = Nowhere /\ ~mouse.down /\ touches' = touches + 1 /\ finger' = el
          /\ ShowEffect(el) /\ lost' = (lost \/ el = Page) /\ pops' = pops /\ mouse' = mouse
          /\ \A g \in Ripplers : NoneHeld(ripples[g])
      BY <1>0, <1>5, <1>6 DEF TouchStart
    <2>1. /\ ripples' \in [Ripplers -> Seq(Phases)] /\ listening' \subseteq Ripplers
          /\ el \in Ripplers => el \in listening'
          /\ \A g \in Ripplers : /\ HeldLast(ripples'[g])
                                 /\ ~NoneHeld(ripples'[g]) => g = el
      <3>1. ShownAt(el)
        BY ONLY <1>0, <2>0, Shows, WavesInv, el \in Ripplers \cup {Page}
      <3> QED BY <2>0, <3>1 DEF ShownAt
    <2>2. touches' \in Nat /\ lost' \in BOOLEAN /\ el # Nowhere
      <3>1. Page # Nowhere
        BY DEF Page, Nowhere
      <3> QED BY <1>0, <1>6, <2>0, <3>1
    <2>3. ~lost' => /\ touches' = pops' + (IF finger' = Nowhere THEN 0 ELSE 1)
                    /\ finger' \in listening'
      <3> SUFFICES ASSUME ~lost'
                   PROVE  touches' = pops' + 1 /\ finger' \in listening'
        BY <2>0, <2>2
      <3>1. ~lost /\ el # Page
        BY ONLY <2>0, ~lost'
      <3>2. touches = pops + 0
        BY <1>0, <2>0, <3>1
      <3> QED BY <1>0, <2>0, <2>1, <3>1, <3>2
    <2> QED BY <1>0, <2>0, <2>1, <2>2, <2>3 DEF WavesInv, PressedOn
  <1> QED BY <1>1, <1>2, <1>3, <1>4, <1>5 DEF WavesActs

\* So do the timers.
LEMMA WavesTimesKeep == WavesInv /\ WavesTimes => WavesInv'
  <1> SUFFICES ASSUME WavesInv, WavesTimes PROVE WavesInv'
    OBVIOUS
  <1>1. CASE TouchPops
    <2>1. /\ touches' \in Nat /\ pops' \in Nat
          /\ ~lost => touches' = pops' + (IF finger = Nowhere THEN 0 ELSE 1)
      BY <1>1 DEF WavesInv, TouchPops
    <2> QED BY <1>1, <2>1 DEF WavesInv, TouchPops, PressedOn
  <1>2. ASSUME NEW el \in Ripplers, NEW i \in DOMAIN ripples[el],
               RippleFades(el, i) \/ RippleGoes(el, i)
        PROVE  WavesInv'
    <2>0. /\ ripples \in [Ripplers -> Seq(Phases)] /\ ripples[el] \in Seq(Phases)
          /\ i \in 1..Len(ripples[el])
          /\ \A g \in Ripplers : HeldLast(ripples[g])
      BY DEF WavesInv
    <2>1. UNCHANGED <<listening, touches, pops, mouse, finger, lost>>
      BY <1>2 DEF RippleFades, RippleGoes
    <2>2. PICK new : /\ ripples' = [ripples EXCEPT ![el] = new]
                     /\ new \in Seq(Phases) /\ HeldLast(new)
                     /\ NoneHeld(ripples[el]) => NoneHeld(new)
      <3>1. CASE RippleFades(el, i)
        <4>1. PICK s : s = ripples[el]
          OBVIOUS
        <4>2. PICK u : u = [s EXCEPT ![i] = "fading"]
          OBVIOUS
        <4>3. s \in Seq(Phases) /\ i \in 1..Len(s) /\ HeldLast(s) /\ s[i] # "held"
          BY <2>0, <3>1, <4>1 DEF RippleFades
        <4>4. u \in Seq(Phases) /\ HeldLast(u) /\ (NoneHeld(s) => NoneHeld(u))
          BY <4>2, <4>3, TurnedHolds
        <4>5. ripples' = [ripples EXCEPT ![el] = u]
          BY <3>1, <4>1, <4>2 DEF RippleFades
        <4> QED BY <4>1, <4>4, <4>5
      <3>2. CASE RippleGoes(el, i)
        <4>1. PICK s : s = ripples[el]
          OBVIOUS
        <4>2. PICK u : u = RemoveAt(s, i)
          OBVIOUS
        <4>3. s \in Seq(Phases) /\ i \in 1..Len(s) /\ HeldLast(s) /\ s[i] # "held"
          BY <2>0, <3>2, <4>1 DEF RippleGoes
        <4>4. u \in Seq(Phases) /\ HeldLast(u) /\ (NoneHeld(s) => NoneHeld(u))
          BY <4>2, <4>3, TakenHolds
        <4>5. ripples' = [ripples EXCEPT ![el] = u]
          BY <3>2, <4>1, <4>2 DEF RippleGoes
        <4> QED BY <4>1, <4>4, <4>5
      <3> QED BY <1>2, <3>1, <3>2
    <2>3. /\ ripples' \in [Ripplers -> Seq(Phases)]
          /\ \A g \in Ripplers :
                /\ HeldLast(ripples'[g])
                /\ ~NoneHeld(ripples'[g]) => ~NoneHeld(ripples[g])
      BY <2>0, <2>2
    <2> QED BY <2>1, <2>3 DEF WavesInv, PressedOn
  <1> QED BY <1>1, <1>2 DEF WavesTimes

\* The invariant says what the run checks.
LEMMA WavesAreSound == WavesInv => RippleHasPress /\ TouchesComeBack
  <1> SUFFICES ASSUME WavesInv PROVE RippleHasPress /\ TouchesComeBack
    OBVIOUS
  <1>1. ASSUME NEW el \in Ripplers, "held" \in ToSet(ripples[el])
        PROVE  (mouse.down /\ mouse.over = el) \/ finger = el
    <2>1. ~NoneHeld(ripples[el])
      BY <1>1 DEF ToSet, NoneHeld
    <2> QED BY <2>1 DEF WavesInv, PressedOn
  <1> QED BY <1>1 DEF WavesInv, RippleHasPress, TouchesComeBack

\* A page that was loaded has no ripple yet.
LEMMA WavesStart == Init => WavesInv
  <1> SUFFICES ASSUME Init PROVE WavesInv
    OBVIOUS
  <1>1. WavesInit
    BY DEF Init
  <1>2. <<>> \in Seq(Phases) /\ HeldLast(<<>>) /\ NoneHeld(<<>>)
    BY DEF HeldLast, NoneHeld
  <1>3. /\ ripples = [el \in Ripplers |-> <<>>] /\ listening = {} /\ touches = 0 /\ pops = 0
        /\ mouse = [over |-> Page, down |-> FALSE] /\ finger = Nowhere /\ lost = FALSE
    BY <1>1 DEF WavesInit
  <1>4. mouse \in [over : Ripplers \cup {Page}, down : BOOLEAN]
    BY ONLY <1>3
  <1>5. ripples \in [Ripplers -> Seq(Phases)] /\ listening \subseteq Ripplers
        /\ \A el \in Ripplers : HeldLast(ripples[el]) /\ NoneHeld(ripples[el])
    BY ONLY <1>2, <1>3
  <1>6. touches \in Nat /\ pops \in Nat /\ touches = pops + 0
    BY ONLY <1>3
  <1>7. lost \in BOOLEAN /\ finger \in Ripplers \cup {Page, Nowhere}
    BY ONLY <1>3
  <1> QED BY ONLY <1>3, <1>4, <1>5, <1>6, <1>7 DEF WavesInv

\* THEOREM: nothing a pointer, a finger or the focus brought stays once it is
\* gone: a tooltip is displayed only where the mouse or the focus is, or a timer
\* is left; a ripple that does not go belongs to a pressed button; touches are
\* counted until half a second after their end.  For every number of buttons, of
\* ripples, and of tooltips.
THEOREM NothingStaysHolds == Spec => []NothingStays
  <1>1. TipInv /\ [Next]_vars => TipInv'
    BY TipKept
  <1>2. Init => TipInv
    BY TipStarts DEF Init
  <1>3. WavesInv /\ [Next]_vars => WavesInv'
    <2> SUFFICES ASSUME WavesInv, [Next]_vars PROVE WavesInv'
      OBVIOUS
    <2>1. ASSUME UNCHANGED wavesVars PROVE WavesInv'
      <3>1. UNCHANGED ripples /\ UNCHANGED listening /\ UNCHANGED touches /\ UNCHANGED pops
            /\ UNCHANGED mouse /\ UNCHANGED finger /\ UNCHANGED lost
        BY <2>1 DEF wavesVars
      <3> QED BY <3>1 DEF WavesInv, PressedOn
    <2> QED BY <2>1, WavesSteps, ActsKeep, WavesTimesKeep
  <1>4. Init => WavesInv
    BY WavesStart
  <1>5. TipInv /\ WavesInv => NothingStays
    BY TipsAreSound, WavesAreSound DEF NothingStays
  <1> QED BY <1>1, <1>2, <1>3, <1>4, <1>5, PTL DEF Spec

-----------------------------------------------------------------------------
(* The text fields, and where a list is placed *)

TextRecord ==
    [text : Texts, label : BOOLEAN, focus : BOOLEAN, mark : {"", "valid"}, height : Nat,
     before : Texts, original : Nat, previous : Nat, sized : Texts]

\* The inductive invariant: a field with the focus, or with a text the visitor
\* wrote, keeps its label away; a textarea is as high as the page styles it, and
\* as the lines of the text it was resized for.
FieldSound(f, t, written) ==
    /\ t \in TextRecord /\ written \in BOOLEAN
    /\ t.focus => t.label
    /\ t.text.length > 0 /\ ~written => t.label
    /\ f \in TextAreas => t.original <= t.height /\ t.sized.lines <= t.height

TextInv ==
    /\ text \in [TextFields -> TextRecord] /\ scripted \in [TextFields -> BOOLEAN]
    /\ \A f \in TextFields : FieldSound(f, text[f], scripted[f])

\* What a step of the page is for the text fields.
FieldStep(f) ==
    \/ FieldFocus(f) \/ FieldBlur(f)
    \/ \E new \in Texts : FieldKey(f, new) \/ FieldPaste(f, new) \/ FieldWritten(f, new)

\* A step of the page is one of a text field, or leaves them all alone.
LEMMA TextSteps ==
    ASSUME [Next]_vars
    PROVE  (\E f \in TextFields : FieldStep(f)) \/ UNCHANGED textVars
  BY DEF Next, Dialog, Tip, Field, Visits, Loading, Motion, Frames, Ripple, PlaceList, FoldList,
         OpensDialog, Calls, TipTimes, vars, pageVars, FieldStep

\* A text has a length and lines.
LEMMA TextFacts == \A t \in Texts : t.length \in Nat /\ t.lines \in Nat
  BY TextAssumption

\* A textarea that is resized shows its text, and is no lower than it was
\* styled.
Resized(t, u) ==
    /\ u \in TextRecord /\ u.sized = t.text
    /\ u.text = t.text /\ u.label = t.label /\ u.focus = t.focus
    /\ u.original <= u.height /\ t.text.lines <= u.height

\* textareaAutoResize does that, from whatever height.
LEMMA ResizeFits ==
    ASSUME NEW f, NEW t \in TextRecord, NEW height \in Nat, t.original <= t.height,
           t.original = 0 => height <= t.height
    PROVE  Resized(t, AutoResize(f, t, height))
  <1>1. PICK o : o = IF t.original = 0 THEN height ELSE t.original
    OBVIOUS
  <1>2. PICK h : h = IF o <= t.text.lines THEN t.text.lines
                     ELSE IF t.text.length < t.previous THEN o ELSE t.height
    OBVIOUS
  <1>3. PICK u : u = [t EXCEPT !.original = o, !.height = h, !.previous = t.text.length,
                               !.sized = t.text]
    OBVIOUS
  <1>4. u = AutoResize(f, t, height)
    BY <1>1, <1>2, <1>3 DEF AutoResize
  <1>5. t.text \in Texts /\ t.text.length \in Nat /\ t.text.lines \in Nat /\ t.height \in Nat
        /\ t.original \in Nat
    BY TextFacts DEF TextRecord
  <1>6. o \in Nat /\ o <= t.height
    BY <1>1, <1>5
  <1>7. h \in Nat /\ o <= h /\ t.text.lines <= h
    BY <1>2, <1>5, <1>6
  <1>8. u \in TextRecord
    BY ONLY <1>3, <1>5, <1>6, <1>7, t \in TextRecord, Zenon DEF TextRecord
  <1>9. /\ u.sized = t.text /\ u.text = t.text /\ u.label = t.label /\ u.focus = t.focus
        /\ u.original = o /\ u.height = h
    BY ONLY <1>3, t \in TextRecord, Zenon DEF TextRecord
  <1> QED BY ONLY <1>4, <1>7, <1>8, <1>9 DEF Resized

\* What a step makes of one field.
LEMMA OneField ==
    ASSUME TextInv, NEW f \in TextFields, NEW u, NEW w,
           text' = [text EXCEPT ![f] = u], scripted' = [scripted EXCEPT ![f] = w],
           FieldSound(f, u, w)
    PROVE  TextInv'
  <1>1. u \in TextRecord /\ w \in BOOLEAN
    BY DEF FieldSound
  <1>2. /\ text' \in [TextFields -> TextRecord] /\ scripted' \in [TextFields -> BOOLEAN]
        /\ \A g \in TextFields \ {f} : text'[g] = text[g] /\ scripted'[g] = scripted[g]
        /\ text'[f] = u /\ scripted'[f] = w
    BY <1>1 DEF TextInv
  <1>3. \A g \in TextFields : FieldSound(g, text'[g], scripted'[g])
    BY <1>2 DEF TextInv
  <1> QED BY <1>2, <1>3 DEF TextInv, FieldSound

\* A field of the page, before a step.
LEMMA FieldFacts ==
    ASSUME TextInv, NEW f \in TextFields
    PROVE  /\ text \in [TextFields -> TextRecord] /\ scripted \in [TextFields -> BOOLEAN]
           /\ text[f] \in TextRecord /\ scripted[f] \in BOOLEAN
           /\ FieldSound(f, text[f], scripted[f])
           /\ text[f].text \in Texts /\ text[f].text.length \in Nat
  <1>1. text[f] \in TextRecord /\ scripted[f] \in BOOLEAN /\ FieldSound(f, text[f], scripted[f])
    BY DEF TextInv
  <1>2. text[f].text \in Texts
    BY <1>1 DEF TextRecord
  <1> QED BY <1>1, <1>2, TextFacts DEF TextInv

\* The focus comes.
LEMMA FocusKeeps ==
    ASSUME TextInv, NEW f \in TextFields, FieldFocus(f)
    PROVE  TextInv'
  <1>1. PICK t, w : t = text[f] /\ w = scripted[f]
    OBVIOUS
  <1>2. /\ text \in [TextFields -> TextRecord] /\ scripted \in [TextFields -> BOOLEAN]
        /\ t \in TextRecord /\ w \in BOOLEAN /\ FieldSound(f, t, w) /\ t.text \in Texts
    BY <1>1, FieldFacts
  <1>3. PICK u : u = [t EXCEPT !.focus = TRUE, !.label = TRUE, !.before = t.text]
    OBVIOUS
  <1>4. text' = [text EXCEPT ![f] = u] /\ scripted' = [scripted EXCEPT ![f] = w]
    <2>1. scripted' = scripted
      BY DEF FieldFocus
    <2>2. text' = [text EXCEPT ![f].focus = TRUE, ![f].label = TRUE, ![f].before = text[f].text]
      BY DEF FieldFocus
    <2> QED BY ONLY <1>1, <1>2, <1>3, <2>1, <2>2, f \in TextFields, Zenon
  <1>5. u \in TextRecord
    BY ONLY <1>2, <1>3, Zenon DEF TextRecord
  <1>6. /\ u.label = TRUE /\ u.text = t.text /\ u.height = t.height /\ u.original = t.original
        /\ u.sized = t.sized
    BY ONLY <1>2, <1>3, Zenon DEF TextRecord
  <1>7. FieldSound(f, u, w)
    BY <1>2, <1>5, <1>6 DEF FieldSound
  <1> QED BY <1>4, <1>7, OneField

\* The focus leaves: the label comes back where there is no text.
LEMMA BlurKeeps ==
    ASSUME TextInv, NEW f \in TextFields, FieldBlur(f)
    PROVE  TextInv'
  <1>1. PICK t, w : t = text[f] /\ w = scripted[f]
    OBVIOUS
  <1>2. /\ text \in [TextFields -> TextRecord] /\ scripted \in [TextFields -> BOOLEAN]
        /\ t \in TextRecord /\ w \in BOOLEAN /\ FieldSound(f, t, w) /\ t.text \in Texts
        /\ t.text.length \in Nat /\ t.label = TRUE
    BY <1>1, FieldFacts DEF FieldBlur, FieldSound, TextRecord
  <1>3. PICK c : c = Changed(t)
    OBVIOUS
  <1>4. /\ c \in TextRecord /\ c.text = t.text /\ c.label = TRUE /\ c.height = t.height
        /\ c.original = t.original /\ c.sized = t.sized
    <2>1. CASE t.text = t.before
      BY <1>2, <1>3, <2>1 DEF Changed
    <2>2. CASE t.text # t.before
      <3>1. PICK l : l = (t.label \/ t.text.length > 0)
        OBVIOUS
      <3>2. PICK d : d = [t EXCEPT !.label = l, !.before = t.text]
        OBVIOUS
      <3>3. l = TRUE
        BY <1>2, <3>1
      <3>4. /\ d \in TextRecord /\ d.text = t.text /\ d.label = TRUE /\ d.height = t.height
            /\ d.original = t.original /\ d.sized = t.sized
        BY ONLY <1>2, <3>2, <3>3, Zenon DEF TextRecord
      <3>5. PICK m : m = IF d.text.length = 0 THEN "" ELSE "valid"
        OBVIOUS
      <3>6. m \in {"", "valid"}
        BY <3>5
      <3>7. c = [d EXCEPT !.mark = m]
        BY <1>3, <2>2, <3>1, <3>2, <3>5 DEF Changed, Validated
      <3> QED BY ONLY <3>4, <3>6, <3>7, Zenon DEF TextRecord
    <2> QED BY <2>1, <2>2
  <1>5. PICK e : e = [c EXCEPT !.focus = FALSE]
    OBVIOUS
  <1>6. /\ e \in TextRecord /\ e.text = t.text /\ e.label = TRUE /\ e.height = t.height
        /\ e.original = t.original /\ e.sized = t.sized /\ e.focus = FALSE
    BY ONLY <1>4, <1>5, Zenon DEF TextRecord
  <1>7. PICK l : l = (e.label /\ (e.text.length > 0 \/ f \in Placeholders))
    OBVIOUS
  <1>8. l \in BOOLEAN /\ (e.text.length > 0 => l = TRUE)
    BY <1>6, <1>7
  <1>9. PICK g : g = [e EXCEPT !.label = l]
    OBVIOUS
  <1>10. /\ g \in TextRecord /\ g.text = t.text /\ g.label = l /\ g.height = t.height
         /\ g.original = t.original /\ g.sized = t.sized /\ g.focus = FALSE
    BY ONLY <1>6, <1>8, <1>9, Zenon DEF TextRecord
  <1>11. PICK m : m = IF g.text.length = 0 THEN "" ELSE "valid"
    OBVIOUS
  <1>12. m \in {"", "valid"}
    BY <1>11
  <1>13. PICK u : u = [g EXCEPT !.mark = m]
    OBVIOUS
  <1>14. /\ u \in TextRecord /\ u.text = t.text /\ u.label = l /\ u.height = t.height
         /\ u.original = t.original /\ u.sized = t.sized /\ u.focus = FALSE
    BY ONLY <1>10, <1>12, <1>13, Zenon DEF TextRecord
  <1>15. text' = [text EXCEPT ![f] = u] /\ scripted' = [scripted EXCEPT ![f] = w]
    <2>1. u = Validated(Unlabelled(f, [Changed(t) EXCEPT !.focus = FALSE]))
      BY <1>3, <1>5, <1>7, <1>9, <1>11, <1>13 DEF Validated, Unlabelled
    <2>2. text' = [text EXCEPT ![f] =
                      Validated(Unlabelled(f, [Changed(text[f]) EXCEPT !.focus = FALSE]))]
          /\ scripted' = scripted
      BY DEF FieldBlur
    <2> QED BY <1>1, <1>2, <2>1, <2>2
  <1>16. FieldSound(f, u, w)
    BY <1>2, <1>6, <1>8, <1>14 DEF FieldSound
  <1> QED BY <1>15, <1>16, OneField

\* A field of another text, that is as sound as it was.
LEMMA Rewritten ==
    ASSUME NEW t \in TextRecord, NEW new \in Texts, NEW u, u = [t EXCEPT !.text = new]
    PROVE  /\ u \in TextRecord /\ u.text = new /\ u.label = t.label /\ u.focus = t.focus
           /\ u.height = t.height /\ u.original = t.original /\ u.sized = t.sized
  BY Zenon DEF TextRecord

\* A key resizes a textarea for the text before it, and for the text after it.
LEMMA KeyKeeps ==
    ASSUME TextInv, NEW f \in TextFields, NEW new \in Texts, FieldKey(f, new)
    PROVE  TextInv'
  <1>1. PICK t : t = text[f]
    OBVIOUS
  <1>2. /\ text \in [TextFields -> TextRecord] /\ scripted \in [TextFields -> BOOLEAN]
        /\ t \in TextRecord /\ FieldSound(f, t, scripted[f]) /\ t.focus /\ t.label
        /\ t.height \in Nat /\ t.original \in Nat
    BY <1>1, FieldFacts DEF FieldKey, FieldSound, TextRecord
  <1>3. PICK down : down = AutoResize(f, t, t.height)
    OBVIOUS
  <1>4. PICK d : d = [down EXCEPT !.text = new]
    OBVIOUS
  <1>5. PICK up : up = AutoResize(f, d, down.height)
    OBVIOUS
  <1>6. PICK u : u = IF f \in TextAreas THEN up ELSE [t EXCEPT !.text = new]
    OBVIOUS
  <1>7. text' = [text EXCEPT ![f] = u] /\ scripted' = [scripted EXCEPT ![f] = FALSE]
    BY <1>1, <1>3, <1>4, <1>5, <1>6, Zenon DEF FieldKey
  <1>8. FieldSound(f, u, FALSE)
    <2>1. CASE f \in TextAreas
      <3>1. t.original <= t.height /\ (t.original = 0 => t.height <= t.height)
        BY <1>2, <2>1 DEF FieldSound
      <3>2. Resized(t, down)
        BY ONLY <1>2, <1>3, <3>1, ResizeFits
      <3>3. /\ d \in TextRecord /\ d.text = new /\ d.label = t.label /\ d.focus = t.focus
            /\ d.height = down.height /\ d.original = down.original
        BY <1>4, <3>2, Rewritten DEF Resized
      <3>4. /\ d.original <= d.height /\ down.height \in Nat
            /\ (d.original = 0 => down.height <= d.height)
        <4>1. down \in TextRecord /\ down.original <= down.height
          BY ONLY <3>2 DEF Resized
        <4>2. down.height \in Nat
          BY ONLY <4>1 DEF TextRecord
        <4>3. \A n \in Nat : n <= n
          OBVIOUS
        <4> QED BY ONLY <3>3, <4>1, <4>2, <4>3
      <3>5. Resized(d, up)
        BY ONLY <1>5, <3>3, <3>4, ResizeFits
      <3> QED BY <1>2, <1>6, <2>1, <3>3, <3>5 DEF Resized, FieldSound
    <2>2. CASE f \notin TextAreas
      <3>1. u = [t EXCEPT !.text = new]
        BY <1>6, <2>2
      <3>2. u \in TextRecord /\ u.label = t.label
        BY <1>2, <3>1, Rewritten
      <3> QED BY <1>2, <2>2, <3>2 DEF FieldSound
    <2> QED BY <2>1, <2>2
  <1> QED BY <1>7, <1>8, OneField

\* The mouse pastes or cuts, in a focused field; the script writes elsewhere.
LEMMA WriteKeeps ==
    ASSUME TextInv, NEW f \in TextFields, NEW new \in Texts,
           FieldPaste(f, new) \/ FieldWritten(f, new)
    PROVE  TextInv'
  <1>1. PICK t, w : t = text[f] /\ w = ~text[f].focus
    OBVIOUS
  <1>2. /\ text \in [TextFields -> TextRecord] /\ scripted \in [TextFields -> BOOLEAN]
        /\ t \in TextRecord /\ FieldSound(f, t, scripted[f]) /\ t.focus \in BOOLEAN
    BY <1>1, FieldFacts DEF TextRecord
  <1>3. PICK u : u = [t EXCEPT !.text = new]
    OBVIOUS
  <1>4. text' = [text EXCEPT ![f] = u] /\ scripted' = [scripted EXCEPT ![f] = w]
    <2>1. text' = [text EXCEPT ![f].text = new]
      BY DEF FieldPaste, FieldWritten
    <2>2. text' = [text EXCEPT ![f] = u]
      BY ONLY <1>1, <1>2, <1>3, <2>1, f \in TextFields, Zenon
    <2>3. CASE t.focus
      <3>1. FieldPaste(f, new) /\ w = FALSE
        BY <1>1, <2>3 DEF FieldWritten
      <3> QED BY <2>2, <3>1 DEF FieldPaste
    <2>4. CASE ~t.focus
      <3>1. FieldWritten(f, new) /\ w = TRUE
        BY <1>1, <2>4 DEF FieldPaste
      <3> QED BY <2>2, <3>1 DEF FieldWritten
    <2> QED BY <2>3, <2>4
  <1>5. /\ u \in TextRecord /\ u.label = t.label /\ u.focus = t.focus
        /\ u.height = t.height /\ u.original = t.original /\ u.sized = t.sized
    BY <1>2, <1>3, Rewritten
  <1>6. FieldSound(f, u, w)
    BY <1>1, <1>2, <1>5 DEF FieldSound
  <1> QED BY <1>4, <1>6, OneField

\* Every step keeps the text fields sound.
LEMMA TextKept ==
    ASSUME TextInv, [Next]_vars
    PROVE  TextInv'
  <1>1. CASE UNCHANGED textVars
    BY <1>1 DEF TextInv, textVars, FieldSound
  <1>2. ASSUME NEW f \in TextFields, FieldStep(f) PROVE TextInv'
    BY <1>2, FocusKeeps, BlurKeeps, KeyKeeps, WriteKeeps DEF FieldStep
  <1> QED BY <1>1, <1>2, TextSteps

\* The fields of a page that was loaded are sound: its labels are away from the
\* texts that were served, and its textareas have the height these take.
LEMMA LoadedSound ==
    ASSUME NEW f \in TextFields, NEW served \in Texts
    PROVE  Loaded(f, served) \in TextRecord /\ FieldSound(f, Loaded(f, served), FALSE)
  <1>1. PICK l, o : /\ l = (served.length > 0 \/ f \in Placeholders)
                    /\ o = IF f \in Hidden THEN 0 ELSE Rows
    OBVIOUS
  <1>2. PICK t : t = [text |-> served, label |-> l, focus |-> FALSE, mark |-> "", height |-> Rows,
                      before |-> served, original |-> o, previous |-> served.length,
                      sized |-> served]
    OBVIOUS
  <1>3. Loaded(f, served) = IF f \in TextAreas THEN AutoResize(f, t, t.original) ELSE t
    BY ONLY <1>1, <1>2 DEF Loaded
  <1>4. /\ Rows \in Nat /\ o \in Nat /\ o <= Rows /\ served.length \in Nat /\ l \in BOOLEAN
        /\ (served.length > 0 => l = TRUE)
    <2>1. Rows \in Nat /\ served.length \in Nat
      BY TextFacts, TextAssumption
    <2>2. o \in Nat /\ o <= Rows
      BY <1>1, <2>1
    <2>3. l \in BOOLEAN /\ (served.length > 0 => l = TRUE)
      BY ONLY <1>1, Zenon
    <2> QED BY <2>1, <2>2, <2>3
  <1>5. /\ t.text = served /\ t.label = l /\ t.focus = FALSE /\ t.height = Rows
        /\ t.original = o
    BY ONLY <1>2
  <1>6. t \in TextRecord
    BY ONLY <1>2, <1>4, served \in Texts DEF TextRecord
  <1>7. CASE f \in TextAreas
    <2>1. PICK u : u = AutoResize(f, t, t.original)
      OBVIOUS
    <2>2. t.original \in Nat /\ t.original <= t.height /\ (t.original = 0 => t.original <= t.height)
      BY <1>4, <1>5
    <2>3. Resized(t, u)
      BY ONLY <1>6, <2>1, <2>2, ResizeFits
    <2>4. u = Loaded(f, served)
      BY <1>3, <1>7, <2>1
    <2> QED BY <1>4, <1>5, <2>3, <2>4 DEF Resized, FieldSound
  <1>8. CASE f \notin TextAreas
    <2>1. t = Loaded(f, served)
      BY <1>3, <1>8
    <2> QED BY <1>4, <1>5, <1>6, <1>8, <2>1 DEF FieldSound
  <1> QED BY <1>7, <1>8

\* So is every field when the behaviour begins.
LEMMA TextStarts ==
    ASSUME Init
    PROVE  TextInv
  <1>1. NoLines \in Texts
    BY TextAssumption
  <1>2. PICK served \in [TextFields -> Texts] :
            text = [f \in TextFields |-> Loaded(f, served[f])]
    <2>1. CASE script = "fields"
      BY <2>1 DEF Init, TextInit
    <2>2. CASE script # "fields"
      <3>1. PICK s : s = [f \in TextFields |-> NoLines]
        OBVIOUS
      <3>2. text = [f \in TextFields |-> Loaded(f, NoLines)]
        BY <2>2 DEF Init
      <3>3. s \in [TextFields -> Texts] /\ text = [f \in TextFields |-> Loaded(f, s[f])]
        BY <1>1, <3>1, <3>2
      <3> QED BY <3>3
    <2> QED BY <2>1, <2>2
  <1>3. scripted = [f \in TextFields |-> FALSE]
    BY DEF Init, TextInit
  <1>4. \A f \in TextFields : /\ Loaded(f, served[f]) \in TextRecord
                              /\ FieldSound(f, Loaded(f, served[f]), FALSE)
    BY LoadedSound
  <1> QED BY <1>2, <1>3, <1>4 DEF TextInv

\* The label is away from every text the visitor wrote, and the text a textarea
\* was resized for is not cut.
LEMMA TextsAreSound ==
    ASSUME TextInv
    PROVE  LabelAway /\ TextFits
  <1>1. LabelAway
    BY DEF TextInv, FieldSound, LabelAway
  <1>2. ASSUME NEW f \in TextAreas, text[f].sized = text[f].text
        PROVE  text[f].height >= text[f].text.lines
    <2>1. f \in TextFields
      BY TextAssumption
    <2>2. text[f] \in TextRecord /\ text[f].sized.lines <= text[f].height
      BY <2>1 DEF TextInv, FieldSound
    <2>3. text[f].height \in Nat /\ text[f].sized.lines \in Nat
      BY <2>2, TextFacts DEF TextRecord
    <2> QED BY <1>2, <2>2, <2>3
  <1> QED BY <1>1, <1>2 DEF TextFits

\* An opened list is inside the window, wherever its trigger is.
LEMMA PlacedInWindow ==
    ASSUME NEW v \in MarkViews, NEW cover \in BOOLEAN
    PROVE  InWindow(v, Placed(v, cover))
  <1>1. PICK w, top, g, l : w = v.window /\ top = v.top /\ g = v.trigger /\ l = v.list
    OBVIOUS
  <1>2. w \in Nat /\ top \in Nat /\ g \in Nat /\ l \in Nat /\ top + g <= w
    BY <1>1, PagesAssumption
  <1>3. PICK offset, more : /\ offset = IF cover THEN 0 ELSE g
                            /\ more = IF cover THEN g ELSE 0
    OBVIOUS
  <1>4. offset \in Nat /\ more \in Nat /\ offset + more = g
    BY <1>2, <1>3
  <1>5. PICK above, below, up : /\ above = top + g - (l + offset) /\ below = w - (top + l + offset)
                                /\ up = top + offset - l + more
    OBVIOUS
  <1>6. above \in Int /\ below \in Int /\ up \in Int
    BY <1>2, <1>4, <1>5
  <1>7. SpaceOnTop(v, offset) = above /\ SpaceOnBottom(v, offset) = below
    BY <1>1, <1>5 DEF SpaceOnTop, SpaceOnBottom
  <1>8. PICK box : box = IF below >= 0 THEN [top |-> top + offset, height |-> l]
                         ELSE IF above >= 0 THEN [top |-> up, height |-> l]
                         ELSE IF above > below THEN [top |-> up - above, height |-> l + above]
                         ELSE [top |-> top + offset, height |-> l + below]
    OBVIOUS
  <1>9. box = Placed(v, cover)
    BY <1>1, <1>3, <1>5, <1>7, <1>8 DEF Placed
  <1>10. PICK at, high : at = box.top /\ high = box.height
    OBVIOUS
  <1>11. at >= 0 /\ high >= 0 /\ at + high <= w
    <2>1. CASE below >= 0
      <3>1. at = top + offset /\ high = l
        BY <1>8, <1>10, <2>1
      <3> QED BY ONLY <1>2, <1>4, <1>5, <2>1, <3>1
    <2>2. CASE ~(below >= 0) /\ above >= 0
      <3>1. at = up /\ high = l
        BY <1>8, <1>10, <2>2
      <3> QED BY ONLY <1>2, <1>4, <1>5, <2>2, <3>1
    <2>3. CASE ~(below >= 0) /\ ~(above >= 0) /\ above > below
      <3>1. at = up - above /\ high = l + above
        BY <1>8, <1>10, <2>3
      <3>2. above = (top - l) + more /\ up = (top - l) + g
        BY ONLY <1>2, <1>4, <1>5
      <3> QED BY ONLY <1>2, <1>4, <3>1, <3>2
    <2>4. CASE ~(below >= 0) /\ ~(above >= 0) /\ ~(above > below)
      <3>1. at = top + offset /\ high = l + below
        BY <1>8, <1>10, <2>4
      <3> QED BY ONLY <1>2, <1>4, <1>5, <3>1
    <2> QED BY <2>1, <2>2, <2>3, <2>4
  <1> QED BY <1>1, <1>9, <1>10, <1>11 DEF InWindow

ListSound == list # NoList => /\ list.view \in MarkViews
                              /\ \E cover \in BOOLEAN : list.box = Placed(list.view, cover)

\* No step displaces a list that is open.
LEMMA ListKept ==
    ASSUME ListSound, [Next]_vars
    PROVE  ListSound'
  <1>1. PlaceList \/ list' = NoList \/ list' = list
    BY DEF Next, Dialog, Tip, Field, Visits, Loading, Motion, Frames, Ripple, FoldList,
           OpensDialog, Calls, TipTimes, vars
  <1>2. CASE PlaceList
    <2>1. PICK view \in MarkViews, cover \in BOOLEAN :
              list' = [view |-> view, cover |-> cover, box |-> Placed(view, cover)]
      BY <1>2 DEF PlaceList
    <2>2. list'.view = view /\ list'.box = Placed(view, cover)
      BY <2>1
    <2> QED BY <2>2 DEF ListSound
  <1> QED BY <1>1, <1>2 DEF ListSound

\* THEOREM: nothing the visitor reads is covered, cut, or out of the window: a
\* label is away from every text the visitor wrote, a textarea shows all the lines
\* of the text it was resized for, and a dropdown list is inside the window,
\* wherever its trigger is.  For every text, field, window and list.
THEOREM NothingHiddenHolds == Spec => []NothingHidden
  <1>1. Init => TextInv /\ ListSound
    BY TextStarts DEF Init, ListSound
  <1>2. TextInv /\ ListSound /\ [Next]_vars => (TextInv /\ ListSound)'
    BY TextKept, ListKept
  <1>3. TextInv /\ ListSound => NothingHidden
    <2> SUFFICES ASSUME TextInv, ListSound PROVE NothingHidden
      OBVIOUS
    <2>1. ListInWindow
      BY PlacedInWindow DEF ListSound, ListInWindow
    <2> QED BY <2>1, TextsAreSound DEF NothingHidden
  <1> QED BY <1>1, <1>2, <1>3, PTL DEF Spec

-----------------------------------------------------------------------------
(* The timezone of a visit *)

Zones == Names \cup {NoZone, Server}

\* The inductive invariant: the address, the session and the page tell no timezone
\* but the one that was guessed and, until another is told, a stale one.
VisitInv ==
    /\ visit \in [state : {"asked", "served"}, zone : Zones, ran : BOOLEAN, pages : Nat]
    /\ url \in [query : {NoQuery, OtherQuery, Query("zone", guess.name)}, fragment : BOOLEAN]
    /\ session \in {NoZone, guess.name} \cup Stale
    /\ visit.zone \in {NoZone, Server, guess.name, session}

\* What a step of the page is for the visit.
LEMMA VisitSteps ==
    ASSUME [Next]_vars
    PROVE  VisitActs \/ Serve \/ LoadTimezone \/ UNCHANGED visitVars
  BY DEF Next, Dialog, Tip, Field, Visits, Loading, Motion, Frames, Ripple, PlaceList, FoldList,
         OpensDialog, Calls, TipTimes, vars, pageVars

\* The server serves a page.
LEMMA ServeKeeps ==
    ASSUME VisitInv, Serve
    PROVE  VisitInv'
  <1>1. PICK name : name = AskedZone(url.query)
    OBVIOUS
  <1>2. name \in {NoZone, guess.name, session}
    <2>1. url.query \in {NoQuery, OtherQuery, Query("zone", guess.name)}
      BY DEF VisitInv
    <2>2. url.query.kind = "zone" => url.query.zone = guess.name
      BY <2>1 DEF NoQuery, OtherQuery, Query
    <2> QED BY <1>1, <2>2 DEF AskedZone
  <1>3. PICK z : z = IF name = NoZone \/ Known(name) THEN name ELSE Server
    OBVIOUS
  <1>4. z \in Zones /\ z \in {name, Server}
    <2>1. Known(name) => name \in Names
      BY DEF Known, Names
    <2> QED BY <1>3, <2>1 DEF Zones
  <1>5. visit' = [visit EXCEPT !.state = "served", !.zone = z]
    BY <1>1, <1>3 DEF Serve
  <1>6. PICK v : v = visit
    OBVIOUS
  <1>7. visit' \in [state : {"asked", "served"}, zone : Zones, ran : BOOLEAN, pages : Nat]
        /\ visit'.zone = z
    <2>1. v \in [state : {"asked", "served"}, zone : Zones, ran : BOOLEAN, pages : Nat]
      BY <1>6 DEF VisitInv
    <2>2. PICK w : w = [v EXCEPT !.state = "served", !.zone = z]
      OBVIOUS
    <2>3. w \in [state : {"asked", "served"}, zone : Zones, ran : BOOLEAN, pages : Nat]
          /\ w.zone = z
      BY ONLY <1>4, <2>1, <2>2, Zenon
    <2> QED BY <1>5, <1>6, <2>2, <2>3
  <1>8. /\ session' = (IF cookies /\ name # NoZone THEN name ELSE session)
        /\ guess' = guess /\ url' = url
    BY <1>1 DEF Serve
  <1>9. session' \in {NoZone, guess.name} \cup Stale /\ z \in {NoZone, Server, guess.name, session'}
    BY <1>2, <1>4, <1>8 DEF VisitInv
  <1> QED BY <1>7, <1>8, <1>9 DEF VisitInv

\* A page asks for its timezone.
LEMMA LoadingKeeps ==
    ASSUME VisitInv, LoadTimezone
    PROVE  VisitInv'
  <1>1. guess' = guess /\ session' = session
    BY DEF LoadTimezone
  <1>2. visit.pages \in Nat /\ NoZone \in Zones
    BY DEF VisitInv, Zones
  <1>3. CASE url.fragment
    <2>1. visit' = [visit EXCEPT !.ran = TRUE] /\ url' = url
      BY <1>3 DEF LoadTimezone
    <2>2. visit' \in [state : {"asked", "served"}, zone : Zones, ran : BOOLEAN, pages : Nat]
          /\ visit'.zone = visit.zone
      BY <2>1 DEF VisitInv
    <2> QED BY <1>1, <2>1, <2>2 DEF VisitInv
  <1>4. CASE ~url.fragment
    <2>1. visit' = Asked(visit.pages)
          /\ url' = (IF url.query.kind = "none"
                       THEN [url EXCEPT !.query = Query("zone", guess.name)] ELSE url)
      BY <1>4 DEF LoadTimezone
    <2>2. visit' \in [state : {"asked", "served"}, zone : Zones, ran : BOOLEAN, pages : Nat]
          /\ visit'.zone = NoZone
      BY <1>2, <2>1 DEF Asked
    <2>3. url' \in [query : {NoQuery, OtherQuery, Query("zone", guess.name)}, fragment : BOOLEAN]
      BY <2>1 DEF VisitInv
    <2> QED BY <1>1, <2>2, <2>3 DEF VisitInv
  <1> QED BY <1>3, <1>4

\* Every step keeps the timezone of a visit.
LEMMA VisitKept ==
    ASSUME VisitInv, [Next]_vars
    PROVE  VisitInv'
  <1>1. CASE UNCHANGED visitVars
    BY <1>1 DEF VisitInv, visitVars
  <1>2. CASE VisitActs
    <2>1. PICK query \in {NoQuery, OtherQuery} : \E at \in BOOLEAN : GoTo(query, at)
      BY <1>2 DEF VisitActs
    <2>2. PICK at \in BOOLEAN : GoTo(query, at)
      BY <2>1
    <2>3. /\ url' = [query |-> query, fragment |-> at] /\ visit' = Asked(visit.pages + 1)
          /\ guess' = guess /\ session' = session
      BY <2>2 DEF GoTo
    <2>4. visit.pages + 1 \in Nat /\ NoZone \in Zones
      BY DEF VisitInv, Zones
    <2>5. visit' \in [state : {"asked", "served"}, zone : Zones, ran : BOOLEAN, pages : Nat]
          /\ visit'.zone = NoZone
      BY <2>3, <2>4 DEF Asked
    <2> QED BY <2>3, <2>5 DEF VisitInv
  <1> QED BY <1>1, <1>2, VisitSteps, ServeKeeps, LoadingKeeps

\* A visit begins with no timezone but a stale one.
LEMMA VisitStarts ==
    ASSUME Init
    PROVE  VisitInv
  <1>1. NoZone \in Zones /\ Server \in Zones
    BY DEF Zones
  <1>2. CASE script = "visit"
    <2>1. /\ url \in [query : {NoQuery, OtherQuery}, fragment : BOOLEAN]
          /\ session \in {NoZone} \cup Stale
          /\ visit = [state |-> "asked", zone |-> NoZone, ran |-> FALSE, pages |-> 0]
      BY <1>2 DEF Init, VisitInit, Asked
    <2>2. visit \in [state : {"asked", "served"}, zone : Zones, ran : BOOLEAN, pages : Nat]
          /\ visit.zone = NoZone
      BY ONLY <1>1, <2>1
    <2>3. url \in [query : {NoQuery, OtherQuery, Query("zone", guess.name)}, fragment : BOOLEAN]
      BY ONLY <2>1
    <2> QED BY ONLY <2>1, <2>2, <2>3 DEF VisitInv
  <1>3. CASE script # "visit"
    <2>1. Unvisited
      BY <1>3 DEF Init
    <2>2. visit = [state |-> "served", zone |-> Server, ran |-> FALSE, pages |-> 0]
      BY <2>1 DEF Unvisited, Asked
    <2>3. visit \in [state : {"asked", "served"}, zone : Zones, ran : BOOLEAN, pages : Nat]
          /\ visit.zone = Server
      BY ONLY <1>1, <2>2
    <2>4. url = [query |-> NoQuery, fragment |-> FALSE] /\ session = NoZone
      BY <2>1 DEF Unvisited
    <2>5. url \in [query : {NoQuery, OtherQuery, Query("zone", guess.name)}, fragment : BOOLEAN]
      BY ONLY <2>4
    <2> QED BY ONLY <2>3, <2>4, <2>5 DEF VisitInv
  <1> QED BY <1>2, <1>3

\* THEOREM: a page is served in the timezone the browser guessed, in no other but
\* the server's, unless a stale session tells another: whatever pages the visitor
\* goes to, with or without cookies.  (Whether the guess keeps the browser's time,
\* guess.tells, is a matter of the tables of timezones.)
THEOREM ServedAsGuessed == Spec => [](guess.tells => ServedInOwnTime)
  <1>1. Init => VisitInv
    BY VisitStarts
  <1>2. VisitInv /\ [Next]_vars => VisitInv'
    BY VisitKept
  <1>3. VisitInv => (guess.tells => ServedInOwnTime)
    BY DEF VisitInv, ServedInOwnTime
  <1> QED BY <1>1, <1>2, <1>3, PTL DEF Spec

-----------------------------------------------------------------------------
(* The types of the pages *)

\* The engine's list is empty, unless the behaviour follows the engine.
EngineRests ==
    /\ script \in Scripts
    /\ script # "engine" => running = <<>> /\ requested = FALSE /\ loop = NoLoop

\* The types follow from what the pages' scripts keep.
LEMMA PagesTyped ==
    ASSUME FormInv, DialogInv, TipInv, TextInv, VisitInv, EngineRests, script # "engine",
           guess.name \in Names \cup {NoName, NoZone}
    PROVE  TypeOK
  <1>1. SubTypeOK
    <2>1. Over \in SUBSET (1..Len(calls)) /\ Len(calls) \in Nat
      BY DEF FormInv, Over
    <2>2. Cardinality(Over) \in Nat /\ Cardinality(Over) <= Len(calls)
      <3>1. PICK n : n = Len(calls)
        OBVIOUS
      <3>2. n \in Nat /\ Over \subseteq 1..n
        BY <2>1, <3>1
      <3>3. IsFiniteSet(1..n) /\ Cardinality(1..n) = n
        BY ONLY <3>2, FS_Interval
      <3>4. Cardinality(Over) \in Nat /\ Cardinality(Over) <= n
        BY ONLY <3>2, <3>3, FS_Subset, FS_CardinalityType
      <3> QED BY <3>1, <3>4
    <2>3. form.spinners \in Nat /\ form.messages \in Nat /\ MaxCalls \in Nat
          /\ form.done \in BOOLEAN /\ form.disabled \in BOOLEAN
      BY CallsAssumption DEF FormInv, FormRecord
    <2>4. form.spinners \in 0..MaxCalls /\ form.messages \in 0..MaxCalls
      BY <2>1, <2>2, <2>3 DEF FormInv
    <2>5. /\ \A i \in DOMAIN calls : calls[i].answer \in {"none", "created", "refused", "lost"}
          /\ subscribers \subseteq Addresses
      <3>1. \A i \in DOMAIN calls : calls[i] \in CallRecord
        BY DEF FormInv
      <3> QED BY <3>1 DEF FormInv, CallRecord
    <2> QED BY <2>3, <2>4, <2>5 DEF SubTypeOK
  <1>2. DialogTypeOK
    <2>1. ModalTypeOK
      <3>1. modalsOpen \in 0..Cardinality(Modals)
        BY OpenCounted DEF DialogInv
      <3> QED BY <3>1 DEF ModalTypeOK, DialogInv, ModalInv, ModalRecord
    <2>2. ASSUME NEW m \in Modals PROVE TabsTypeOK(tabs[m])
      <3>1. PICK t, links : t = tabs[m] /\ links = TabLinks[m]
        OBVIOUS
      <3>2. t \in TabsRecord /\ TabsSound(t, links, named) /\ Len(links) \in Nat
            /\ DOMAIN links = 1..Len(links)
        BY <3>1, DialogsAssumption DEF DialogInv
      <3>3. t.active \in 0..Len(links) /\ t.content \in 0..Len(links) /\ t.links = links
            /\ t.marked \subseteq DOMAIN links /\ t.hidden \subseteq DOMAIN links
        BY <3>2 DEF TabsSound
      <3> QED BY <3>1, <3>2, <3>3 DEF TabsTypeOK, TabsRecord
    <2> QED BY <2>1, <2>2 DEF DialogTypeOK
  <1>3. TipTypeOK
    BY DEF TipTypeOK, TipInv, TipRecord
  <1>4. TextTypeOK
    BY DEF TextTypeOK, TextInv, TextRecord
  <1>5. AnimeTypeOK
    <2>1. running = <<>> /\ requested = FALSE /\ loop.at = 0 /\ loop.bound = 0
      BY DEF EngineRests, NoLoop
    <2>2. loop.at \in 0..(loop.bound + 1)
      BY ONLY <2>1
    <2>3. DOMAIN running = {}
      BY <2>1
    <2> QED BY <2>1, <2>2, <2>3 DEF AnimeTypeOK
  <1>6. VisitTypeOK
    BY DEF VisitTypeOK, VisitInv, Zones
  <1> QED BY <1>1, <1>2, <1>3, <1>4, <1>5, <1>6 DEF TypeOK, EngineRests

\* THEOREM: the state of the pages has its type, as long as a guess is a name:
\* the counters of the form, of the dialogs and of the tabs stay within their
\* bounds, the tooltips, fields and timezones are ones there are.  The engine is
\* not followed: what its lists hold after a removal (SelectSeq) is beyond the
\* provers.
THEOREM PagesTypesHold ==
    Spec => [](script # "engine" /\ guess.name \in Names \cup {NoName, NoZone} => TypeOK)
  <1>1. Init => EngineRests
    BY DEF Init, AnimeInit, EngineRests
  <1>2. EngineRests /\ [Next]_vars => EngineRests'
    <2> SUFFICES ASSUME EngineRests, [Next]_vars PROVE EngineRests'
      OBVIOUS
    <2>1. script' = script /\ (script # "engine" => UNCHANGED animeVars)
      BY DEF Next, Dialog, Tip, Field, Visits, Loading, Motion, Frames, Ripple, PlaceList, FoldList,
             OpensDialog, Calls, TipTimes, vars, pageVars
    <2> QED BY <2>1 DEF EngineRests, animeVars
  <1>3. Init => FormInv /\ DialogInv /\ TipInv /\ TextInv /\ VisitInv
    BY FormStarts, DialogStarts, TipStarts, TextStarts, VisitStarts DEF Init
  <1>4. FormInv /\ DialogInv /\ TipInv /\ TextInv /\ VisitInv /\ [Next]_vars
        => (FormInv /\ DialogInv /\ TipInv /\ TextInv /\ VisitInv)'
    BY FormKept, DialogKept, TipKept, TextKept, VisitKept
  <1>5. FormInv /\ DialogInv /\ TipInv /\ TextInv /\ VisitInv /\ EngineRests
        => (script # "engine" /\ guess.name \in Names \cup {NoName, NoZone} => TypeOK)
    BY PagesTyped
  <1> QED BY <1>1, <1>2, <1>3, <1>4, <1>5, PTL DEF Spec
=============================================================================
