----------------------------- MODULE NotifyProofs -----------------------------
(***************************************************************************)
(* Theorems about Notify, for every set of handlers, notifiers and topics,  *)
(* every capacity of the channel and every number of events.                *)
(***************************************************************************)
EXTENDS Notify, SequenceTheorems, TLAPS

-----------------------------------------------------------------------------
(* Type correctness *)

\* A handler inside Emit holds an event, and so does Notify while it waits for
\* the notifiers it started; no notifier runs at any other time.
HoldsEvent ==
    /\ \A h \in Handlers : handler[h].pc # "idle" => handler[h].event \in Event
    /\ loop = "wait" => current \in Event
    /\ loop # "wait" => running = {}

TypeInv == TypeOK /\ HoldsEvent

LEMMA TypeInit == Init => TypeInv
  <1> SUFFICES ASSUME Init PROVE TypeInv
    OBVIOUS
  <1>1. <<>> \in Seq(Event) /\ Len(<<>>) <= Cap
    BY NotifyAssumption, EmptySeq
  <1>2. tried \in [Notifiers -> Seq(Event)]
    BY <1>1 DEF Init
  <1>3. count \in 0..MaxEvents
    BY NotifyAssumption DEF Init
  <1> QED BY <1>1, <1>2, <1>3 DEF Init, TypeInv, TypeOK, HoldsEvent, AtRest

LEMMA TypeNext == TypeInv /\ [Next]_vars => TypeInv'
  <1> SUFFICES ASSUME TypeInv, [Next]_vars PROVE TypeInv'
    OBVIOUS
  <1> USE DEF TypeInv, TypeOK, HoldsEvent
  <1>1. ASSUME NEW h \in Handlers, Decide(h) PROVE TypeInv'
    <2>1. PICK t \in Topics :
            handler' = [handler EXCEPT ![h] = [pc |-> "lock", event |-> [id |-> count + 1, topic |-> t]]]
      BY <1>1 DEF Decide
    <2>2. count + 1 \in 1..MaxEvents /\ count' = count + 1
      BY <1>1, NotifyAssumption DEF Decide
    <2>3. [id |-> count + 1, topic |-> t] \in Event
      BY <2>2 DEF Event
    <2> QED BY <1>1, <2>1, <2>2, <2>3 DEF Decide
  <1>2. ASSUME NEW h \in Handlers, Lock(h) PROVE TypeInv'
    <2>1. handler'[h] = [pc |-> "send", event |-> handler[h].event]
      BY <1>2 DEF Lock
    <2> QED BY <1>2, <2>1 DEF Lock
  <1>3. ASSUME NEW h \in Handlers, Send(h) PROVE TypeInv'
    <2>1. handler[h].event \in Event
      BY <1>3 DEF Send
    <2>2. CASE listening
      <3>1. /\ queue' = Append(queue, handler[h].event) /\ Len(queue) < Cap
            /\ pushed' = Append(pushed, handler[h].event)
        BY <1>3, <2>2 DEF Send
      <3>2. queue' \in Seq(Event) /\ Len(queue') = Len(queue) + 1 /\ pushed' \in Seq(Event)
        BY <2>1, <3>1, AppendProperties
      <3>3. Len(queue') <= Cap
        BY <3>1, <3>2, NotifyAssumption
      <3> QED BY <1>3, <3>2, <3>3 DEF Send, AtRest
    <2>3. CASE ~listening
      BY <1>3, <2>3 DEF Send, AtRest
    <2> QED BY <2>2, <2>3
  <1>4. CASE Exit
    BY <1>4 DEF Exit
  <1>5. CASE Listen
    BY <1>5 DEF Listen
  <1>6. CASE Receive
    <2>1. Head(queue) \in Event /\ Tail(queue) \in Seq(Event) /\ Len(Tail(queue)) = Len(queue) - 1
      BY <1>6, HeadTailProperties DEF Receive
    <2>2. Len(queue) - 1 <= Cap
      BY NotifyAssumption
    <2> QED BY <1>6, <2>1, <2>2 DEF Receive
  <1>7. ASSUME NEW n \in Notifiers, Notified(n) PROVE TypeInv'
    <2>1. current \in Event
      BY <1>7 DEF Notified
    <2>2. Append(tried[n], current) \in Seq(Event)
      BY <2>1, AppendProperties
    <2> QED BY <1>7, <2>2 DEF Notified
  <1>8. CASE AllNotified
    BY <1>8 DEF AllNotified
  <1>9. CASE UNCHANGED vars
    BY <1>9 DEF vars
  <1> QED
    BY <1>1, <1>2, <1>3, <1>4, <1>5, <1>6, <1>7, <1>8, <1>9 DEF Next

\* Every variable of the emitter and of Notify keeps its type, and the channel
\* never holds more than its capacity.
THEOREM TypeCorrect == Spec => []TypeOK
  <1>1. Spec => []TypeInv
    BY TypeInit, TypeNext, PTL DEF Spec
  <1>2. TypeInv => TypeOK
    BY DEF TypeInv
  <1> QED BY <1>1, <1>2, PTL

-----------------------------------------------------------------------------
(* What the notifiers are called with *)

\* Nothing is listed at no position.
LEMMA ListsNothing ==
    ASSUME NEW t PROVE Lists(<<>>, t, {})
  <1> DEFINE at == [i \in DOMAIN <<>> |-> i]
  <1>1. DOMAIN <<>> = {}
    OBVIOUS
  <1>2. at \in [DOMAIN <<>> -> {}]
    BY <1>1
  <1> QED BY <1>1, <1>2 DEF Lists

\* Only what t has at the positions matters.
LEMMA ListsSame ==
    ASSUME NEW s, NEW t, NEW u, NEW P, Lists(s, t, P), \A p \in P : u[p] = t[p]
    PROVE  Lists(s, u, P)
  BY DEF Lists

\* A list goes on with a later position.
LEMMA ListsAppend ==
    ASSUME NEW E, NEW s \in Seq(E), NEW t, NEW P \in SUBSET Nat, Lists(s, t, P),
           NEW q \in Nat, \A p \in P : p < q, t[q] \in E
    PROVE  Lists(Append(s, t[q]), t, P \cup {q})
  <1>1. PICK at \in [DOMAIN s -> P] :
          /\ \A i, j \in DOMAIN s : i < j => at[i] < at[j]
          /\ \A p \in P : \E i \in DOMAIN s : at[i] = p
          /\ \A i \in DOMAIN s : s[i] = t[at[i]]
    BY DEF Lists
  <1> DEFINE l  == Append(s, t[q])
             n  == Len(s)
             to == [i \in DOMAIN l |-> IF i = n + 1 THEN q ELSE at[i]]
  <1>2. /\ n \in Nat /\ DOMAIN s = 1..n /\ DOMAIN l = 1..(n + 1)
        /\ l[n + 1] = t[q] /\ \A i \in 1..n : l[i] = s[i]
    BY AppendProperties, LenProperties
  <1>3. \A i \in 1..n : at[i] \in P /\ to[i] = at[i]
    BY <1>2
  <1>4. to[n + 1] = q
    BY <1>2
  <1>5. to \in [DOMAIN l -> P \cup {q}]
    BY <1>2, <1>3, <1>4
  <1>6. ASSUME NEW i \in DOMAIN l, NEW j \in DOMAIN l, i < j PROVE to[i] < to[j]
    <2>1. i \in 1..n
      BY <1>2, <1>6
    <2>2. CASE j = n + 1
      BY <1>3, <1>4, <2>1, <2>2
    <2>3. CASE j \in 1..n
      BY <1>1, <1>2, <1>3, <1>6, <2>1, <2>3
    <2> QED BY <1>2, <2>2, <2>3
  <1>7. ASSUME NEW p \in P \cup {q} PROVE \E i \in DOMAIN l : to[i] = p
    <2>1. CASE p = q
      BY <1>2, <1>4, <2>1
    <2>2. CASE p \in P
      <3>1. PICK i \in 1..n : at[i] = p
        BY <1>1, <1>2, <2>2
      <3> QED BY <1>2, <1>3, <3>1
    <2> QED BY <2>1, <2>2
  <1>8. ASSUME NEW i \in DOMAIN l PROVE l[i] = t[to[i]]
    <2>1. CASE i = n + 1
      BY <1>2, <1>4, <2>1
    <2>2. CASE i \in 1..n
      BY <1>1, <1>2, <1>3, <2>2
    <2> QED BY <1>2, <2>1, <2>2
  <1> HIDE DEF l, to
  <1>9. Lists(l, t, P \cup {q})
    BY <1>5, <1>6, <1>7, <1>8 DEF Lists
  <1> QED BY <1>9 DEF l

LEMMA OnceInit == Init => ExactlyOnceInOrder
  <1> SUFFICES ASSUME Init PROVE ExactlyOnceInOrder
    OBVIOUS
  <1>1. Taken = 0 /\ DOMAIN queue = {}
    BY DEF Init, Taken
  <1>2. ASSUME NEW n \in toNotifies PROVE n \notin running /\ Lists(tried[n], pushed, Called(n))
    <2>1. tried[n] = <<>> /\ n \notin running
      BY DEF Init
    <2>2. Called(n) = {}
      BY <1>1, <2>1 DEF Called
    <2> QED BY <2>1, <2>2, ListsNothing
  <1> QED BY <1>1, <1>2 DEF ExactlyOnceInOrder

LEMMA OnceNext == TypeInv /\ ExactlyOnceInOrder /\ [Next]_vars => ExactlyOnceInOrder'
  <1> SUFFICES ASSUME TypeInv, ExactlyOnceInOrder, [Next]_vars PROVE ExactlyOnceInOrder'
    OBVIOUS
  <1>a. /\ queue \in Seq(Event) /\ pushed \in Seq(Event) /\ tried \in [Notifiers -> Seq(Event)]
        /\ running \subseteq toNotifies /\ toNotifies \subseteq Notifiers
        /\ Len(queue) \in Nat /\ DOMAIN queue = 1..Len(queue)
        /\ Len(pushed) \in Nat /\ DOMAIN pushed = 1..Len(pushed)
    BY LenProperties DEF TypeInv, TypeOK
  <1>b. Taken \in Nat /\ Taken <= Len(pushed) /\ Len(pushed) = Taken + Len(queue)
    BY <1>a DEF ExactlyOnceInOrder, Taken
  <1>c. \A n : Called(n) \subseteq 1..Taken
    BY DEF Called
  \* Steps that leave the events and the notifiers alone.
  <1>d. UNCHANGED <<toNotifies, queue, running, pushed, tried>> /\ (running = {} \/ current' = current)
        => ExactlyOnceInOrder'
    BY DEF ExactlyOnceInOrder, Taken, Called
  <1>1. ASSUME NEW h \in Handlers, Decide(h) PROVE ExactlyOnceInOrder'
    BY <1>1, <1>d DEF Decide
  <1>2. ASSUME NEW h \in Handlers, Lock(h) PROVE ExactlyOnceInOrder'
    BY <1>2, <1>d DEF Lock
  <1>3. ASSUME NEW h \in Handlers, Send(h) PROVE ExactlyOnceInOrder'
    <2>1. CASE ~listening
      BY <1>3, <1>d, <2>1 DEF Send
    <2>2. CASE listening
      <3> DEFINE e == handler[h].event
      <3>1. /\ e \in Event /\ queue' = Append(queue, e) /\ pushed' = Append(pushed, e)
            /\ UNCHANGED <<toNotifies, running, current, tried>>
        BY <1>3, <2>2 DEF Send, TypeInv, HoldsEvent
      <3> HIDE DEF e
      <3>2. /\ queue' \in Seq(Event) /\ Len(queue') = Len(queue) + 1
            /\ queue'[Len(queue) + 1] = e /\ \A i \in 1..Len(queue) : queue'[i] = queue[i]
        BY <1>a, <3>1, AppendProperties
      <3>3. /\ pushed' \in Seq(Event) /\ Len(pushed') = Len(pushed) + 1
            /\ pushed'[Len(pushed) + 1] = e /\ \A i \in 1..Len(pushed) : pushed'[i] = pushed[i]
        BY <1>a, <3>1, AppendProperties
      <3>4. Taken' = Taken
        BY <1>a, <3>2, <3>3 DEF Taken
      <3>5. \A p \in 1..Taken : pushed'[p] = pushed[p]
        BY <1>a, <1>b, <3>3
      <3>6. \A n : Called(n)' = Called(n)
        BY <3>1, <3>4, <3>5 DEF Called
      <3>7. ASSUME NEW i \in DOMAIN queue' PROVE queue'[i] = pushed'[Taken' + i]
        <4>1. i \in 1..(Len(queue) + 1)
          BY <3>2, LenProperties
        <4>2. CASE i = Len(queue) + 1
          BY <1>b, <3>2, <3>3, <3>4, <4>2
        <4>3. CASE i \in 1..Len(queue)
          <5>1. Taken + i \in 1..Len(pushed)
            BY <1>a, <1>b, <4>3
          <5> QED BY <1>a, <3>2, <3>3, <3>4, <4>3, <5>1 DEF ExactlyOnceInOrder
        <4> QED BY <1>a, <4>1, <4>2, <4>3
      <3>8. ASSUME NEW n \in toNotifies PROVE Lists(tried[n], pushed', Called(n))
        BY <1>c, <3>5, ListsSame DEF ExactlyOnceInOrder
      <3>9. ASSUME NEW n \in toNotifies, n \in running
            PROVE  Taken > 0 /\ current = pushed'[Taken] /\ current.topic \in Match[n]
        BY <1>b, <3>5, <3>9 DEF ExactlyOnceInOrder
      <3> QED BY <1>b, <3>1, <3>4, <3>6, <3>7, <3>8, <3>9 DEF ExactlyOnceInOrder
    <2> QED BY <2>1, <2>2
  <1>4. CASE Exit
    BY <1>4, <1>d DEF Exit
  <1>5. CASE Listen
    BY <1>5, <1>d DEF Listen
  <1>6. CASE Receive
    <2>1. /\ queue # <<>> /\ queue' = Tail(queue) /\ current' = Head(queue) /\ running = {}
          /\ running' = {n \in toNotifies : Head(queue).topic \in Match[n]}
          /\ UNCHANGED <<toNotifies, pushed, tried>>
      BY <1>6 DEF Receive, TypeInv, HoldsEvent
    <2>2. /\ Len(queue') = Len(queue) - 1 /\ Head(queue) = queue[1] /\ queue' \in Seq(Event)
          /\ \A i \in 1..Len(queue') : queue'[i] = queue[i + 1]
      BY <1>a, <2>1, HeadTailProperties
    <2>3. Len(queue) > 0 /\ Taken' = Taken + 1
      BY <1>a, <2>1, <2>2, EmptySeq DEF Taken
    <2>4. queue[1] = pushed[Taken + 1]
      BY <1>a, <2>3 DEF ExactlyOnceInOrder
    <2>5. ASSUME NEW n \in toNotifies PROVE Called(n)' = Called(n)
      <3>1. Called(n) = {p \in 1..Taken : pushed[p].topic \in Match[n]}
        BY <2>1 DEF Called
      <3>2. n \in running' <=> pushed[Taken + 1].topic \in Match[n]
        BY <2>1, <2>2, <2>4
      <3>3. Called(n)' = {p \in 1..(Taken + 1) : pushed[p].topic \in Match[n]}
                             \ (IF n \in running' THEN {Taken + 1} ELSE {})
        BY <2>1, <2>3 DEF Called
      <3>4. 1..(Taken + 1) = 1..Taken \cup {Taken + 1} /\ Taken + 1 \notin 1..Taken
        BY <1>b
      <3> QED BY <3>1, <3>2, <3>3, <3>4
    <2>6. ASSUME NEW i \in DOMAIN queue' PROVE queue'[i] = pushed'[Taken' + i]
      <3>1. i \in 1..Len(queue') /\ i + 1 \in 1..Len(queue)
        BY <1>a, <2>2, LenProperties
      <3>2. queue[i + 1] = pushed[Taken + (i + 1)]
        BY <1>a, <3>1 DEF ExactlyOnceInOrder
      <3> QED BY <1>b, <2>1, <2>2, <2>3, <3>1, <3>2
    <2>7. ASSUME NEW n \in toNotifies, n \in running'
          PROVE  Taken' > 0 /\ current' = pushed'[Taken'] /\ current'.topic \in Match[n]
      BY <1>b, <2>1, <2>2, <2>3, <2>4, <2>7
    <2>8. ASSUME NEW n \in toNotifies PROVE Lists(tried'[n], pushed', Called(n)')
      BY <2>1, <2>5 DEF ExactlyOnceInOrder
    <2> QED BY <1>b, <2>1, <2>3, <2>6, <2>7, <2>8 DEF ExactlyOnceInOrder
  <1>7. ASSUME NEW n \in Notifiers, Notified(n) PROVE ExactlyOnceInOrder'
    <2>1. /\ n \in running /\ running' = running \ {n} /\ tried' = [tried EXCEPT ![n] = Append(tried[n], current)]
          /\ UNCHANGED <<toNotifies, queue, current, pushed>>
      BY <1>7 DEF Notified
    <2>2. Taken > 0 /\ current = pushed[Taken] /\ current.topic \in Match[n] /\ Taken' = Taken
      BY <1>a, <2>1 DEF ExactlyOnceInOrder, Taken
    <2>3. \A m \in Notifiers \ {n} : Called(m)' = Called(m) /\ tried'[m] = tried[m]
      BY <1>a, <2>1, <2>2 DEF Called
    <2>4. Called(n)' = Called(n) \cup {Taken}
      BY <1>b, <2>1, <2>2 DEF Called
    <2>5. Lists(tried'[n], pushed, Called(n)')
      <3>1. Called(n) \in SUBSET Nat /\ \A p \in Called(n) : p < Taken
        BY <1>b, <2>1 DEF Called
      <3>2. pushed[Taken] \in Event /\ Taken \in Nat
        BY <1>a, <1>b, <2>2, ElementOfSeq
      <3>3. tried[n] \in Seq(Event) /\ Lists(tried[n], pushed, Called(n))
        BY <1>a, <2>1 DEF ExactlyOnceInOrder
      <3>4. Lists(Append(tried[n], pushed[Taken]), pushed, Called(n) \cup {Taken})
        BY <3>1, <3>2, <3>3, ListsAppend
      <3>5. tried'[n] = Append(tried[n], pushed[Taken])
        BY <1>a, <2>1, <2>2
      <3> QED BY <2>4, <3>4, <3>5
    <2>6. ASSUME NEW m \in toNotifies PROVE Lists(tried'[m], pushed', Called(m)')
      BY <1>a, <2>1, <2>3, <2>5, <2>6 DEF ExactlyOnceInOrder
    <2> QED BY <2>1, <2>2, <2>6 DEF ExactlyOnceInOrder
  <1>8. CASE AllNotified
    BY <1>8, <1>d DEF AllNotified
  <1>9. CASE UNCHANGED vars
    BY <1>9, <1>d DEF vars
  <1> QED
    BY <1>1, <1>2, <1>3, <1>4, <1>5, <1>6, <1>7, <1>8, <1>9 DEF Next

\* For any handlers, notifiers and capacity: every notifier is called with the
\* events sent on the channel that are for it, in their order, each once.
THEOREM ExactlyOnceInOrderHolds == Spec => []ExactlyOnceInOrder
  <1>1. Spec => []TypeInv
    BY TypeInit, TypeNext, PTL DEF Spec
  <1> QED BY <1>1, OnceInit, OnceNext, PTL DEF Spec
=============================================================================
