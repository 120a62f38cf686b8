-------------------------------- MODULE Api --------------------------------
(***************************************************************************)
(* The handlers of the REST API that write an incident or one of its       *)
(* messages.  Each reads the whole incident, changes its copy, writes the  *)
(* copy back and emits it to the notifiers; nothing holds the incident in  *)
(* between.                                                                *)
(*                                                                         *)
(* One incident, kept by one store whose calls are atomic (the stores have  *)
(* modules of their own).  Requests are numbered; the number stands for    *)
(* what a request brings: the guid, the time and the content of a message. *)
(***************************************************************************)
EXTENDS Integers, SequencesExt

CONSTANTS
    Handlers,     \* goroutines of HTTP handlers
    Kinds,        \* kinds of the store: a subset of {"local", "s3", "db"}
    Cap,          \* capacity of the channel of events
    None,         \* no incident, no request, a state left out of an update
    MaxRequests,  \* bound: requests served
    MaxFaults,    \* bound: failing calls of the store or of a notifier
    MaxCrashes    \* bound: restarts of the process

ASSUME ApiAssumption ==
    /\ Kinds \subseteq {"local", "s3", "db"} /\ Kinds # {}
    /\ Cap \in Nat \ {0}
    /\ MaxRequests \in Nat /\ MaxFaults \in Nat /\ MaxCrashes \in Nat

States == {"unresolved", "resolved", "idle"}

Message  == [id : 1..MaxRequests, text : 1..MaxRequests]
Incident == [state : States \cup {"cancelled"}, messages : Seq(Message)]

\* Request number n, for an incident that exists.  An update gives a new state
\* or none; it keeps the messages, drops them, replaces them by one, or edits
\* one (partial_update_message); it may ask that nobody is notified.
RequestsOf(n) ==
    [op : {"update"}, n : {n}, state : States \cup {None}, messages : {"keep", "none", "one"},
     quiet : BOOLEAN] \cup
    [op : {"update"}, n : {n}, state : States \cup {None}, messages : {"edit"},
     id : 1..(n - 1), quiet : BOOLEAN] \cup
    [op : {"notify", "delete", "addMessage"}, n : {n}] \cup
    [op : {"updateMessage", "deleteMessage"}, n : {n}, id : 1..(n - 1)]

Requests == UNION {RequestsOf(n) : n \in 1..MaxRequests}

\* What a client knows of an incident: the messages in no order.
Known == [state : States, messages : SUBSET Message]

\* The request that creates the incident.
Creation == [op |-> "create", n |-> 1]

ASSUME NoneAssumption == None \notin Known \cup Incident \cup Requests \cup {Creation}

\* What is emitted: the incident, TriggerByUser, and which write it shows.
Event == [incident : Incident, byUser : BOOLEAN, rev : 0..MaxRequests]

VARIABLES
    kind,     \* the kind of the store
    stored,   \* the incident it holds
    version,  \* writes it accepted
    call,     \* call[h]: where handler h is, with its request and its copy
    chan,     \* the channel of events
    env       \* requests, faults and crashes so far

\* History, read by the properties only.
VARIABLES
    promised, \* the incident, had every accepted request been atomic
    raced     \* some copy was written over a version it was not made from

apiVars == <<kind, stored, version, call, chan, env, promised, raced>>

AtRest == [pc |-> "idle", req |-> None, copy |-> None, seen |-> 0]

-----------------------------------------------------------------------------
(* What a request makes of an incident *)

\* Variant: the search stops at the message, and drops those behind it.
Without_Stops(ms, id) ==
    LET i == SelectInSeq(ms, LAMBDA m : m.id = id)
    IN  IF i = 0 THEN ms ELSE SubSeq(ms, 1, i - 1)

\* The k-th of the positions S.
Nth(S, k) == CHOOSE i \in S : Cardinality({j \in S : j <= i}) = k

Without(ms, id) ==
    LET kept == {i \in DOMAIN ms : ms[i].id # id}
    IN  [k \in 1..Cardinality(kept) |-> ms[Nth(kept, k)]]

Edited(ms, id, n) ==
    [i \in DOMAIN ms |-> IF ms[i].id = id THEN [ms[i] EXCEPT !.text = n] ELSE ms[i]]

Fresh(n) == [id |-> n, text |-> n]

Revised(ms, r) ==
    CASE r.messages = "keep" -> ms
      [] r.messages = "none" -> <<>>
      [] r.messages = "one"  -> <<Fresh(r.n)>>
      [] r.messages = "edit" -> Edited(ms, r.id, r.n)

\* What a handler does to its copy.
Effect(inc, r) ==
    CASE r.op = "update" ->
             [state |-> IF r.state = None THEN inc.state ELSE r.state,
              messages |-> Revised(inc.messages, r)]
      [] r.op = "delete"        -> [inc EXCEPT !.state = "cancelled"]
      [] r.op = "addMessage"    -> [inc EXCEPT !.messages = Append(inc.messages, Fresh(r.n))]
      [] r.op = "updateMessage" -> [inc EXCEPT !.messages = Edited(inc.messages, r.id, r.n)]
      [] r.op = "deleteMessage" -> [inc EXCEPT !.messages = Without(inc.messages, r.id)]
      [] r.op = "notify"        -> inc

\* The messages, newest first; the sort leaves the order of equals open.
NewestFirst(ms) ==
    {s \in {[i \in DOMAIN ms |-> ms[p[i]]] : p \in Bijection(DOMAIN ms, DOMAIN ms)} :
        \A i, j \in DOMAIN ms : i < j => s[i].id >= s[j].id}

\* Read: the S3 and the DB store sort the messages.
AsRead(inc) ==
    IF kind = "local" THEN {inc}
    ELSE {[inc EXCEPT !.messages = s] : s \in NewestFirst(inc.messages)}

\* Variant: the DB store inserts the row an update does not find.
Accepted_Upsert(r, copy) == IF r.op = "delete" THEN None ELSE copy

\* What the store makes of a write.  Local and S3 put the whole object,
\* whether it was there or not; the DB store updates the row, if there is one.
Accepted(r, copy) ==
    IF r.op = "delete" \/ (kind = "db" /\ stored = None) THEN None ELSE copy

-----------------------------------------------------------------------------
(* What a client is promised: the same request, on a set of messages *)

PromiseOf(inc) == IF inc = None THEN None ELSE [state |-> inc.state, messages |-> ToSet(inc.messages)]

Retold(M, id, n) == {m \in M : m.id # id} \cup {[id |-> id, text |-> n] : m \in {x \in M : x.id = id}}

Promise(p, r) ==
    CASE p = None \/ r.op = "delete" -> None
      [] p # None /\ r.op = "update" ->
             [state |-> IF r.state = None THEN p.state ELSE r.state,
              messages |-> CASE r.messages = "keep" -> p.messages
                             [] r.messages = "none" -> {}
                             [] r.messages = "one"  -> {Fresh(r.n)}
                             [] r.messages = "edit" -> Retold(p.messages, r.id, r.n)]
      [] p # None /\ r.op = "addMessage" ->
             [p EXCEPT !.messages = p.messages \cup {Fresh(r.n)}]
      [] p # None /\ r.op = "updateMessage" ->
             [p EXCEPT !.messages = Retold(p.messages, r.id, r.n)]
      [] p # None /\ r.op = "deleteMessage" ->
             [p EXCEPT !.messages = {m \in p.messages : m.id # r.id}]

-----------------------------------------------------------------------------
ApiInit ==
    /\ kind \in Kinds
    /\ stored = None
    /\ version = 0
    /\ call = [h \in Handlers |-> AtRest]
    /\ chan = <<>>
    /\ env = [requests |-> 0, faults |-> 0, crashes |-> 0]
    /\ promised = None
    /\ raced = FALSE

\* CreateIncident: the request is valid and brings its first message; a guid
\* is used once.
Create(h) ==
    /\ env.requests = 0
    /\ MaxRequests > 0
    /\ \E s \in States :
         /\ stored' = [state |-> s, messages |-> <<Fresh(1)>>]
         /\ promised' = PromiseOf(stored')
         /\ call' = [call EXCEPT ![h] =
                        [pc |-> "emit", req |-> Creation, copy |-> stored', seen |-> 1]]
    /\ version' = 1
    /\ env' = [env EXCEPT !.requests = 1]
    /\ UNCHANGED <<kind, chan, raced>>

\* The other handlers read the incident, answer with an error if there is
\* none, and change their copy; Notify has nothing to write.
Begin(h) ==
    /\ call[h].pc = "idle"
    /\ env.requests \in 1..(MaxRequests - 1)
    /\ stored # None
    /\ \E r \in RequestsOf(env.requests + 1), inc \in AsRead(stored) :
         call' = [call EXCEPT ![h] = [pc |-> IF r.op = "notify" THEN "emit" ELSE "write", req |-> r,
                                      copy |-> Effect(inc, r), seen |-> version]]
    /\ env' = [env EXCEPT !.requests = env.requests + 1]
    /\ UNCHANGED <<kind, stored, version, chan, promised, raced>>

\* The store fails: an error is answered, nothing is written or emitted.
Fail(h) ==
    /\ call[h].pc = "write"
    /\ env.faults < MaxFaults
    /\ call' = [call EXCEPT ![h] = AtRest]
    /\ env' = [env EXCEPT !.faults = env.faults + 1]
    /\ UNCHANGED <<kind, stored, version, chan, promised, raced>>

\* Only the Local store tells that there was nothing to delete.
NotFound(h) ==
    /\ call[h].pc = "write"
    /\ call[h].req.op = "delete" /\ kind = "local" /\ stored = None
    /\ call' = [call EXCEPT ![h] = AtRest]
    /\ UNCHANGED <<kind, stored, version, chan, env, promised, raced>>

Silent(r) == r.op = "update" /\ r.quiet

\* The store takes the copy; an update may ask that nobody is notified.
Write(h) ==
    /\ call[h].pc = "write"
    /\ ~(call[h].req.op = "delete" /\ kind = "local" /\ stored = None)
    /\ stored' = Accepted(call[h].req, call[h].copy)
    /\ version' = version + 1
    /\ call' = [call EXCEPT ![h] = IF Silent(call[h].req) THEN AtRest
                                   ELSE [call[h] EXCEPT !.pc = "emit", !.seen = version']]
    /\ promised' = Promise(promised, call[h].req)
    /\ raced' = (raced \/ (call[h].req.op # "delete" /\ call[h].seen # version))
    /\ UNCHANGED <<kind, chan, env>>

\* Variant: the send does not wait for room.
Emit_Overfull(h) ==
    /\ call[h].pc = "emit"
    /\ chan' = Append(chan, [incident |-> call[h].copy, rev |-> call[h].seen,
                             byUser |-> call[h].req.op \in {"notify", "delete"}])
    /\ call' = [call EXCEPT ![h] = AtRest]
    /\ UNCHANGED <<kind, stored, version, env, promised, raced>>

\* emitter.Emit, which waits for room in the channel.
Emit(h) ==
    /\ call[h].pc = "emit"
    /\ Len(chan) < Cap
    /\ chan' = Append(chan, [incident |-> call[h].copy, rev |-> call[h].seen,
                             byUser |-> call[h].req.op \in {"notify", "delete"}])
    /\ call' = [call EXCEPT ![h] = AtRest]
    /\ UNCHANGED <<kind, stored, version, env, promised, raced>>

\* The process dies: handlers and events are gone, the incident is not.
Restart ==
    /\ env.crashes < MaxCrashes
    /\ call' = [h \in Handlers |-> AtRest]
    /\ chan' = <<>>
    /\ env' = [env EXCEPT !.crashes = env.crashes + 1]
    /\ UNCHANGED <<kind, stored, version, promised, raced>>

Handle(h) == Create(h) \/ Begin(h) \/ Fail(h) \/ NotFound(h) \/ Write(h) \/ Emit(h)

-----------------------------------------------------------------------------
(* Properties *)

Call == [pc : {"idle", "write", "emit"}, seen : 0..MaxRequests,
         req : Requests \cup {Creation, None}, copy : Incident \cup {None}]

\* Every variable has its type; a handler past its read has a request and a
\* copy of the incident.
ApiTypeOK ==
    /\ kind \in Kinds
    /\ stored \in Incident \cup {None}
    /\ version \in 0..MaxRequests
    /\ call \in [Handlers -> Call]
    /\ \A h \in Handlers : call[h].pc # "idle" => call[h].req # None /\ call[h].copy # None
    /\ chan \in Seq(Event) /\ Len(chan) <= Cap
    /\ env \in [requests : 0..MaxRequests, faults : 0..MaxFaults, crashes : 0..MaxCrashes]
    /\ promised \in Known \cup {None}
    /\ raced \in BOOLEAN

\* Until a handler writes a copy over a version it was not made from, the store
\* holds what the accepted requests promise, in whatever order the messages
\* come back and wherever a handler stopped: nothing else loses or revives a
\* message or a state.
AtomicUnlessRaced == ~raced => PromiseOf(stored) = promised

\* A handler that read the incident before its deletion and writes after it
\* brings it back, in a Local or S3 store; in a DB store a deleted incident
\* stays deleted, whoever raced.
DeletedStaysDeleted == kind = "db" /\ promised = None => stored = None
=============================================================================
