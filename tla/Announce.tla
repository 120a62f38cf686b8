----------------------------- MODULE Announce ------------------------------
(***************************************************************************)
(* The handlers of Api with the Grafana notifier at the other end of the   *)
(* channel.  Grafana.Notify replaces the incident's annotation: it looks   *)
(* for one by its tag, deletes it, then creates a new one, each a call over *)
(* HTTP with a timeout.  The notification loop calls it for one event at a *)
(* time (module Notify); the other notifiers keep nothing.                 *)
(*                                                                         *)
(* A call fails before it had an effect, or after; a creation that timed   *)
(* out may also take effect later.                                         *)
(***************************************************************************)
EXTENDS Api, FiniteSets

VARIABLES
    pc,          \* where Grafana.Notify is
    event,       \* the event it was called with
    found,       \* the annotation it found
    annotations, \* what Grafana holds for the incident's tag
    late,        \* creations that timed out and are still on their way
    made         \* creations asked for, an annotation's id

\* History, read by the properties only.
VARIABLES
    arrived,     \* late creations that took effect
    shown        \* the version the last event showed

grafanaVars == <<pc, event, found, annotations, late, made, arrived, shown>>
vars == <<apiVars, grafanaVars>>

Annotation == [id : 1..MaxRequests, closed : BOOLEAN]

Init ==
    /\ ApiInit
    /\ pc = "idle"
    /\ event = None
    /\ found = None
    /\ annotations = {}
    /\ late = {}
    /\ made = 0
    /\ arrived = 0
    /\ shown = 0

\* Variant: a resolution with several messages is skipped like an update.
Skips_Resolved(inc) == inc.state = "idle" \/ Len(inc.messages) > 1

\* Which incidents Grafana.Notify does nothing for.
Skips(inc) ==
    \/ inc.state = "idle"
    \/ Len(inc.messages) > 1 /\ inc.state # "resolved"

\* The loop takes the next event and calls Notify.
Dispatch ==
    /\ pc = "idle"
    /\ chan # <<>>
    /\ chan' = Tail(chan)
    /\ shown' = Head(chan).rev
    /\ IF Skips(Head(chan).incident)
       THEN UNCHANGED <<pc, event>>
       ELSE pc' = "find" /\ event' = Head(chan)
    /\ UNCHANGED <<kind, stored, version, call, env, promised, raced>>
    /\ UNCHANGED <<found, annotations, late, made, arrived>>

\* Notify returns; its error, if any, is logged.
Return == pc' = "idle" /\ event' = None /\ found' = None

Faulty == env.faults < MaxFaults /\ env' = [env EXCEPT !.faults = env.faults + 1]

\* GET by tag: the first annotation of the answer, if there is one.
Find ==
    /\ pc = "find"
    /\ \/ /\ annotations = {}
          /\ pc' = "create"
          /\ UNCHANGED <<found, event, env>>
       \/ /\ found' \in annotations
          /\ pc' = "delete"
          /\ UNCHANGED <<event, env>>
       \/ Faulty /\ Return
    /\ UNCHANGED <<kind, stored, version, call, chan, promised, raced>>
    /\ UNCHANGED <<annotations, late, made, arrived, shown>>

\* Variant: an error of the deletion does not keep it from creating.
Delete_GoesOn ==
    /\ pc = "delete"
    /\ \/ annotations' = annotations \ {found} /\ UNCHANGED env
       \/ annotations' \in {annotations, annotations \ {found}} /\ Faulty
    /\ pc' = "create" /\ found' = None /\ UNCHANGED event
    /\ UNCHANGED <<kind, stored, version, call, chan, promised, raced>>
    /\ UNCHANGED <<late, made, arrived, shown>>

Delete ==
    /\ pc = "delete"
    /\ \/ /\ annotations' = annotations \ {found}
          /\ pc' = "create" /\ found' = None
          /\ UNCHANGED <<event, env>>
       \/ /\ annotations' \in {annotations, annotations \ {found}}
          /\ Faulty /\ Return
    /\ UNCHANGED <<kind, stored, version, call, chan, promised, raced>>
    /\ UNCHANGED <<late, made, arrived, shown>>

\* The annotation of an incident that is resolved has an end.
New == [id |-> made + 1, closed |-> event.incident.state = "resolved"]

Post ==
    /\ pc = "create"
    /\ made' = made + 1
    /\ \/ annotations' = annotations \cup {New} /\ UNCHANGED <<late, env>>
       \/ annotations' = annotations \cup {New} /\ Faulty /\ UNCHANGED late
       \/ late' = late \cup {New} /\ Faulty /\ UNCHANGED annotations
       \/ Faulty /\ UNCHANGED <<annotations, late>>
    /\ Return
    /\ UNCHANGED <<kind, stored, version, call, chan, promised, raced>>
    /\ UNCHANGED <<arrived, shown>>

\* A creation takes effect after its caller gave up.
Arrive ==
    /\ \E a \in late : annotations' = annotations \cup {a} /\ late' = late \ {a}
    /\ arrived' = arrived + 1
    /\ UNCHANGED <<apiVars, pc, event, found, made, shown>>

\* The process dies and starts again: Grafana does not know.
Crash ==
    /\ Restart
    /\ Return
    /\ UNCHANGED <<annotations, late, made, arrived, shown>>

Next == \/ \E h \in Handlers : Handle(h) /\ UNCHANGED grafanaVars
        \/ Dispatch \/ Find \/ Delete \/ Post
        \/ Arrive
        \/ Crash

Spec == Init /\ [][Next]_vars

-----------------------------------------------------------------------------
(* Properties *)

\* Every variable has its type, and Notify has an event while it works.
TypeOK ==
    /\ ApiTypeOK
    /\ pc \in {"idle", "find", "delete", "create"}
    /\ event \in Event \cup {None} /\ (pc # "idle" => event \in Event)
    /\ found \in Annotation \cup {None} /\ (pc = "delete" => found \in Annotation)
    /\ annotations \subseteq Annotation
    /\ late \subseteq Annotation
    /\ made \in 0..MaxRequests
    /\ arrived \in 0..MaxRequests
    /\ shown \in 0..MaxRequests

\* An incident has one annotation, and one more for every creation that took
\* effect after its timeout: no failed call, lost answer, restart or race of
\* two handlers leaves another.
OneAnnotation == Cardinality(annotations) <= 1 + arrived

\* Everything emitted was handled, and the last event showed the last version.
Settled == chan = <<>> /\ pc = "idle" /\ shown = version

\* Without a failure or a restart, once everything is handled and what was
\* handled last is the last version, a resolved incident has one annotation,
\* and it is closed.
ResolvedIsClosed ==
    Settled /\ env.faults = 0 /\ env.crashes = 0 /\ stored # None /\ stored.state = "resolved"
    => \E a \in annotations : annotations = {a} /\ a.closed

\* "If admin trigger manually an notification this notifier will not re-notify
\* grafana": Notify does nothing for an event triggered by a user.
ManualIsQuiet == pc # "idle" => ~event.byUser
=============================================================================
