------------------------------- MODULE Notify -------------------------------
(***************************************************************************)
(* From a handler's emitter.Emit to the notifiers: a channel of Cap events  *)
(* fed under the emitter's mutex, and one goroutine that takes an event at  *)
(* a time, starts a goroutine for every notifier it is for, and waits for   *)
(* all of them before it takes the next.                                    *)
(*                                                                         *)
(* An event is a number, in the order handlers decide to emit, and a topic: *)
(* which notifiers match the components of its incident.                    *)
(***************************************************************************)
EXTENDS Integers, Sequences, FiniteSets

CONSTANTS
    Handlers,    \* goroutines of HTTP handlers
    Notifiers,   \* the notifiers a configuration may name
    Topics,      \* classes of incidents
    Match,       \* Match[n]: the topics notifier n is for (ForComponent)
    Cap,         \* capacity of the listener's channel, 100 in emitter.go
    Nobody,      \* "the mutex is free", "no event"
    MaxEvents    \* bound: events emitted

ASSUME NotifyAssumption ==
    /\ Match \in [Notifiers -> SUBSET Topics]
    /\ Cap \in Nat \ {0}
    /\ MaxEvents \in Nat
    /\ Nobody \notin Handlers

Event == [id : 1..MaxEvents, topic : Topics]

ASSUME NobodyAssumption == Nobody \notin Event

VARIABLES
    toNotifies, \* the notifiers of the configuration, loaded before the start
    mu,         \* the emitter's mutex: its holder
    listening,  \* On was called: the topic "incident" has its listener
    queue,      \* the listener's channel
    handler,    \* handler[h]: where it is in Emit, and with which event
    count,      \* events decided so far
    loop,       \* where Notify is
    current,    \* the event Notify is dispatching
    running     \* the notifier goroutines the wait group counts

\* History, read by the properties only.
VARIABLES
    pushed,     \* events sent on the channel, in order
    tried       \* tried[n]: events notifier n was called with, in order

vars == <<toNotifies, mu, listening, queue, handler, count, loop, current, running, pushed, tried>>

\* Every variable has its type, and the channel never holds more than its
\* capacity: Emit waits for room.
TypeOK ==
    /\ toNotifies \subseteq Notifiers
    /\ mu \in Handlers \cup {Nobody}
    /\ listening \in BOOLEAN
    /\ queue \in Seq(Event) /\ Len(queue) <= Cap
    /\ handler \in [Handlers -> [pc : {"idle", "lock", "send"}, event : Event \cup {Nobody}]]
    /\ count \in 0..MaxEvents
    /\ loop \in {"start", "range", "wait", "exited"}
    /\ current \in Event \cup {Nobody}
    /\ running \subseteq toNotifies
    /\ pushed \in Seq(Event)
    /\ tried \in [Notifiers -> Seq(Event)]

AtRest == [pc |-> "idle", event |-> Nobody]

Init ==
    /\ toNotifies \in SUBSET Notifiers
    /\ mu = Nobody
    /\ listening = FALSE
    /\ queue = <<>>
    /\ handler = [h \in Handlers |-> AtRest]
    /\ count = 0
    /\ loop = "start"
    /\ current = Nobody
    /\ running = {}
    /\ pushed = <<>>
    /\ tried = [n \in Notifiers |-> <<>>]

-----------------------------------------------------------------------------
(* Emit *)

\* A handler has written to the store and emits a notify request.
Decide(h) ==
    /\ handler[h].pc = "idle"
    /\ count < MaxEvents
    /\ count' = count + 1
    /\ \E t \in Topics :
         handler' = [handler EXCEPT ![h] = [pc |-> "lock", event |-> [id |-> count + 1, topic |-> t]]]
    /\ UNCHANGED <<toNotifies, mu, listening, queue, loop, current, running, pushed, tried>>

Lock(h) ==
    /\ handler[h].pc = "lock"
    /\ mu = Nobody
    /\ mu' = h
    /\ handler' = [handler EXCEPT ![h].pc = "send"]
    /\ UNCHANGED <<toNotifies, listening, queue, count, loop, current, running, pushed, tried>>

\* Variant: the send does not wait for room.
Send_Overfull(h) ==
    /\ handler[h].pc = "send"
    /\ IF listening THEN /\ queue' = Append(queue, handler[h].event)
                         /\ pushed' = Append(pushed, handler[h].event)
                    ELSE UNCHANGED <<queue, pushed>>
    /\ mu' = Nobody
    /\ handler' = [handler EXCEPT ![h] = AtRest]
    /\ UNCHANGED <<toNotifies, listening, count, loop, current, running, tried>>

\* Variant: returning early, without a listener, leaves the mutex locked.
Send_KeepsMutex(h) ==
    /\ handler[h].pc = "send"
    /\ IF listening THEN /\ Len(queue) < Cap
                         /\ queue' = Append(queue, handler[h].event)
                         /\ pushed' = Append(pushed, handler[h].event)
                         /\ mu' = Nobody
                    ELSE UNCHANGED <<queue, pushed, mu>>
    /\ handler' = [handler EXCEPT ![h] = AtRest]
    /\ UNCHANGED <<toNotifies, listening, count, loop, current, running, tried>>

\* The Sync flag makes Emit itself send on the channel, waiting for room with
\* the mutex held.  Without a listener there is nothing to send to.
Send(h) ==
    /\ handler[h].pc = "send"
    /\ IF listening
       THEN /\ Len(queue) < Cap
            /\ queue' = Append(queue, handler[h].event)
            /\ pushed' = Append(pushed, handler[h].event)
       ELSE UNCHANGED <<queue, pushed>>
    /\ mu' = Nobody
    /\ handler' = [handler EXCEPT ![h] = AtRest]
    /\ UNCHANGED <<toNotifies, listening, count, loop, current, running, tried>>

-----------------------------------------------------------------------------
(* Notify *)

\* No notifier in the configuration: the goroutine ends and nobody listens.
Exit ==
    /\ loop = "start"
    /\ toNotifies = {}
    /\ loop' = "exited"
    /\ UNCHANGED <<toNotifies, mu, listening, queue, handler, count, current, running, pushed, tried>>

\* emitter.On, under the mutex.
Listen ==
    /\ loop = "start"
    /\ toNotifies # {}
    /\ mu = Nobody
    /\ listening' = TRUE
    /\ loop' = "range"
    /\ UNCHANGED <<toNotifies, mu, queue, handler, count, current, running, pushed, tried>>

\* Variant: an error of store.Subscribers ends the goroutine.
Receive_ExitsOnError ==
    /\ loop = "range"
    /\ queue # <<>>
    /\ queue' = Tail(queue)
    /\ \/ /\ current' = Head(queue)
          /\ running' = {n \in toNotifies : Head(queue).topic \in Match[n]}
          /\ loop' = "wait"
       \/ /\ loop' = "exited"
          /\ UNCHANGED <<current, running>>
    /\ UNCHANGED <<toNotifies, mu, listening, handler, count, pushed, tried>>

\* The next event; an error of store.Subscribers is logged, no more.
Receive ==
    /\ loop = "range"
    /\ queue # <<>>
    /\ current' = Head(queue)
    /\ queue' = Tail(queue)
    /\ running' = {n \in toNotifies : Head(queue).topic \in Match[n]}
    /\ loop' = "wait"
    /\ UNCHANGED <<toNotifies, mu, listening, handler, count, pushed, tried>>

\* A notifier's Notify returns; its error is logged and nothing is retried.
Notified(n) ==
    /\ n \in running
    /\ running' = running \ {n}
    /\ tried' = [tried EXCEPT ![n] = Append(@, current)]
    /\ UNCHANGED <<toNotifies, mu, listening, queue, handler, count, loop, current, pushed>>

\* Variant: the loop does not wait for the goroutines it started.
AllNotified_NoWait ==
    /\ loop = "wait"
    /\ loop' = "range"
    /\ current' = Nobody
    /\ UNCHANGED <<toNotifies, mu, listening, queue, handler, count, running, pushed, tried>>

\* wg.Wait returns.
AllNotified ==
    /\ loop = "wait"
    /\ running = {}
    /\ loop' = "range"
    /\ current' = Nobody
    /\ UNCHANGED <<toNotifies, mu, listening, queue, handler, count, running, pushed, tried>>

-----------------------------------------------------------------------------
Next == \/ \E h \in Handlers : Decide(h) \/ Lock(h) \/ Send(h)
        \/ Exit \/ Listen \/ Receive \/ AllNotified
        \/ \E n \in Notifiers : Notified(n)

Spec == Init /\ [][Next]_vars

\* Every goroutine is scheduled; a sync.Mutex in starvation mode is handed to
\* its longest waiter; a notifier's Notify returns (the HTTP clients of slack
\* and grafana time out after 5 seconds).
Fairness ==
    /\ \A h \in Handlers : SF_vars(Lock(h)) /\ WF_vars(Send(h))
    /\ SF_vars(Listen)
    /\ WF_vars(Exit) /\ WF_vars(Receive) /\ WF_vars(AllNotified)
    /\ \A n \in Notifiers : WF_vars(Notified(n))

FairSpec == Spec /\ Fairness

-----------------------------------------------------------------------------
(* Properties *)

\* The events taken from the channel are the first ones sent on it.
Taken == Len(pushed) - Len(queue)

\* Where in pushed the events are that notifier n has been called with.
Called(n) == {p \in 1..Taken : pushed[p].topic \in Match[n]}
                 \ (IF n \in running THEN {Taken} ELSE {})

\* s lists what t has at the positions P, in the order of t.
Lists(s, t, P) ==
    \E at \in [DOMAIN s -> P] :
        /\ \A i, j \in DOMAIN s : i < j => at[i] < at[j]
        /\ \A p \in P : \E i \in DOMAIN s : at[i] = p
        /\ \A i \in DOMAIN s : s[i] = t[at[i]]

\* Every notifier gets the events sent on the channel that are for it, in the
\* order they were sent, each exactly once: what it was called with are those of
\* the events taken from the channel, but for the one it is being called with;
\* what is still in the channel are the others.
ExactlyOnceInOrder ==
    /\ Taken \in Nat /\ \A i \in DOMAIN queue : queue[i] = pushed[Taken + i]
    /\ \A n \in toNotifies :
        /\ n \in running => Taken > 0 /\ current = pushed[Taken] /\ current.topic \in Match[n]
        /\ Lists(tried[n], pushed, Called(n))

\* A handler that emits goes on to answer its request: it waits for the mutex
\* and for room in the channel, never for ever.
EmitReturns == \A h \in Handlers : (handler[h].pc # "idle") ~> (handler[h].pc = "idle")

\* Whatever is in the channel is dispatched to its notifiers.
ChannelDrains == []<>(queue = <<>> /\ running = {})
=============================================================================
