----------------------------- MODULE Replicate -----------------------------
(***************************************************************************)
(* The replicating store: every write goes to all backends, each behind a   *)
(* Retry; a backend that still fails gets a record, which a background loop *)
(* replays until it succeeds and a second loop removes once it has.         *)
(*                                                                         *)
(* Writers are the goroutines of HTTP handlers calling the store.           *)
(*                                                                         *)
(* A *record is a position in heap (its address).  The slice m.records is   *)
(* the set of the positions it points to: addRecord allocates a record and  *)
(* appends it in one step, so the slice is always in allocation order.      *)
(* Two appends to the same slice may share its backing array; as with       *)
(* separate arrays, exactly one of the two appended records survives.       *)
(***************************************************************************)
EXTENDS Backends, Integers, FiniteSets, Sequences

CONSTANTS
    Stores,        \* the target URLs, keys of the map m.stores
    Kind,          \* Kind[s]: which backend answers for s
    Writers,
    NbRetry,       \* attempts a Retry makes
    Acts,          \* the operations handlers call in this instance
    Persistence,   \* the values of incident.Persistent in this instance
    MaxOps,        \* bound: calls made by handlers
    MaxFaults,     \* bound: disturbed attempts
    MaxCrashes     \* bound: restarts of the process

ASSUME ReplicateAssumption ==
    /\ Kind \in [Stores -> Kinds]
    /\ NbRetry \in Nat \ {0}
    /\ Acts \subseteq Actions
    /\ Persistence \subseteq BOOLEAN
    /\ MaxOps \in Nat /\ MaxFaults \in Nat /\ MaxCrashes \in Nat
    /\ None \notin Stores /\ None \notin Op

VARIABLES
    content,   \* content[s]: the data backend s holds
    heap,      \* the records allocated since the process started
    records,   \* *m.records
    call,      \* call[w]: the store call writer w is executing
    todo,      \* the records the current replay round has left
    tries,     \* attempts made for the record being replayed
    used,      \* guids handed out by uuid.NewString
    env        \* the bounded environment: calls, faults and crashes so far

\* History of what callers were told, read by the properties only.
VARIABLES
    acked,     \* guids whose Create returned no error
    doomed,    \* guids whose Delete was called
    overlap    \* two handlers were inside addRecord together

sysVars == <<content, heap, records, call, todo, tries, used, env>>
vars    == <<content, heap, records, call, todo, tries, used, env, acked, doomed, overlap>>

\* plays counts the successful replays of the record (history).
Record == [store : Stores, op : Op, deleted : BOOLEAN, plays : Nat]

Idle == [pc |-> "idle", op |-> None, left |-> {}, cur |-> None, tries |-> 0,
         allInError |-> TRUE, snap |-> {}]

Call == [pc : {"idle", "loop", "call", "add", "publish"},
         op : Op \cup {None},
         left : SUBSET Stores,           \* stores the range loop has still to visit
         cur : Stores \cup {None},       \* the store being called
         tries : Nat,
         allInError : BOOLEAN,
         snap : SUBSET (Nat \ {0})]      \* addRecord's local slice

Env == [ops : 0..MaxOps, faults : 0..MaxFaults, crashes : 0..MaxCrashes]

\* Variant: the deleted flag is not looked at.
Pending_All == records

\* What replay and clean keep of m.records.
Pending == {r \in records : ~heap[r].deleted}

-----------------------------------------------------------------------------
Init ==
    /\ content = [s \in Stores |-> Empty]
    /\ heap = <<>>
    /\ records = {}
    /\ call = [w \in Writers |-> Idle]
    /\ todo = {}
    /\ tries = 0
    /\ used = {}
    /\ env = [ops |-> 0, faults |-> 0, crashes |-> 0]
    /\ acked = {}
    /\ doomed = {}
    /\ overlap = FALSE

-----------------------------------------------------------------------------
(* Entering Create, Update, Delete, Subscribe and Unsubscribe of Replicate *)

Begin(w, op) ==
    /\ call[w].pc = "idle"
    /\ op.act \in Acts
    /\ env.ops < MaxOps
    /\ call' = [call EXCEPT ![w] = [Idle EXCEPT !.pc = "loop", !.op = op, !.left = Stores]]
    /\ env' = [env EXCEPT !.ops = @ + 1]
    /\ UNCHANGED <<content, heap, records, todo, tries, acked, overlap>>

\* CreateIncident: the guid is a new UUID.
Create(w) ==
    \E g \in Guids \ used, v \in Versions, p \in Persistence :
        /\ Begin(w, [act |-> "created", inc |-> [guid |-> g, ver |-> v, persistent |-> p]])
        /\ used' = used \cup {g}
        /\ UNCHANGED doomed

\* Replicate.Read: some store answers without an error.
Known(g) == \E s \in Stores : Readable(content[s], g)

\* The update handlers read the incident first and fail when they cannot.
Update(w) ==
    \E g \in Guids, v \in Versions, p \in Persistence :
        /\ Known(g)
        /\ Begin(w, [act |-> "updated", inc |-> [guid |-> g, ver |-> v, persistent |-> p]])
        /\ UNCHANGED <<used, doomed>>

Delete(w) ==
    \E g \in Guids :
        /\ Known(g)
        /\ Begin(w, [act |-> "deleted", guid |-> g])
        /\ doomed' = doomed \cup {g}
        /\ UNCHANGED used

Subscribe(w) ==
    \E e \in Emails :
        /\ Begin(w, [act |-> "subscribe", email |-> e])
        /\ UNCHANGED <<used, doomed>>

Unsubscribe(w) ==
    \E e \in Emails :
        /\ Begin(w, [act |-> "unsubscribe", email |-> e])
        /\ UNCHANGED <<used, doomed>>

-----------------------------------------------------------------------------
(* The loop over m.stores, and Retry around each store *)

\* Go visits the keys of a map in an unspecified order.
Visit(w) ==
    /\ call[w].pc = "loop"
    /\ \E s \in call[w].left :
         call' = [call EXCEPT ![w] = [call[w] EXCEPT !.pc = "call", !.cur = s, !.tries = 0,
                                                     !.left = call[w].left \ {s}]]
    /\ UNCHANGED <<content, heap, records, todo, tries, used, env, acked, doomed, overlap>>

\* An attempt is undisturbed, or a fault of the environment disturbs it.
Attempts(s, op) ==
    {[res |-> Apply(Kind[s], op, content[s]), faults |-> env.faults]} \cup
    {[res |-> r, faults |-> env.faults + 1] :
        r \in IF env.faults < MaxFaults THEN Faulty(Kind[s], op, content[s]) ELSE {}}

\* Variant: the loop bound is off by one.
GivesUp_OneMore(err, n) == err = "notexist" \/ n >= NbRetry

\* Retry gives up at once on an error that os.IsNotExist recognises.
GivesUp(err, n) == err = "notexist" \/ n + 1 >= NbRetry

\* What Retry and the loop body make of the n-th attempt's error.
AfterAttempt(c, err) ==
    IF err = "nil" THEN [c EXCEPT !.pc = "loop", !.cur = None, !.tries = 0,
                                  !.allInError = FALSE]
    ELSE IF GivesUp(err, c.tries) THEN [c EXCEPT !.pc = "add", !.tries = 0]
    ELSE [c EXCEPT !.tries = c.tries + 1]

CallStore(w) ==
    /\ call[w].pc = "call"
    /\ \E a \in Attempts(call[w].cur, call[w].op) :
         /\ content' = [content EXCEPT ![call[w].cur] = a.res.content]
         /\ env' = [env EXCEPT !.faults = a.faults]
         /\ call' = [call EXCEPT ![w] = AfterAttempt(call[w], a.res.err)]
    /\ UNCHANGED <<heap, records, todo, tries, used, acked, doomed, overlap>>

\* addRecord, before the lock: m.records is read, the new record appended to
\* the local slice.
AddRecord(w) ==
    /\ call[w].pc = "add"
    /\ heap' = Append(heap, [store |-> call[w].cur, op |-> call[w].op,
                             deleted |-> FALSE, plays |-> 0])
    /\ call' = [call EXCEPT ![w] = [call[w] EXCEPT !.pc = "publish",
                                                    !.snap = records \cup {Len(heap) + 1}]]
    /\ overlap' = (overlap \/ \E v \in Writers : call[v].pc = "publish")
    /\ UNCHANGED <<content, records, todo, tries, used, env, acked, doomed>>

\* addRecord, under the lock: the local slice becomes m.records.
Publish(w) ==
    /\ call[w].pc = "publish"
    /\ records' = call[w].snap
    /\ call' = [call EXCEPT ![w] = [call[w] EXCEPT !.pc = "loop", !.cur = None, !.snap = {}]]
    /\ UNCHANGED <<content, heap, todo, tries, used, env, acked, doomed, overlap>>

\* Variant: the error of the last store is not returned.
Return_AlwaysNil(w) ==
    /\ call[w].pc = "loop"
    /\ call[w].left = {}
    /\ call' = [call EXCEPT ![w] = Idle]
    /\ acked' = IF call[w].op.act = "created" THEN acked \cup {call[w].op.inc.guid} ELSE acked
    /\ UNCHANGED <<content, heap, records, todo, tries, used, env, doomed, overlap>>

\* Variant: the call returns only once some store took the write.
Return_WaitsForSuccess(w) ==
    /\ call[w].pc = "loop"
    /\ call[w].left = {} /\ ~call[w].allInError
    /\ call' = [call EXCEPT ![w] = Idle]
    /\ acked' = IF call[w].op.act = "created" THEN acked \cup {call[w].op.inc.guid} ELSE acked
    /\ UNCHANGED <<content, heap, records, todo, tries, used, env, doomed, overlap>>

\* The loop is over; the caller gets an error only if every store failed.
Return(w) ==
    /\ call[w].pc = "loop"
    /\ call[w].left = {}
    /\ call' = [call EXCEPT ![w] = Idle]
    /\ acked' = IF call[w].op.act = "created" /\ ~call[w].allInError
                THEN acked \cup {call[w].op.inc.guid} ELSE acked
    /\ UNCHANGED <<content, heap, records, todo, tries, used, env, doomed, overlap>>

-----------------------------------------------------------------------------
(* The background loops *)

\* replay wakes up and collects, under the lock, what is not deleted.
StartReplay ==
    /\ todo = {}
    /\ Pending # {}
    /\ todo' = Pending
    /\ UNCHANGED <<content, heap, records, call, tries, used, env, acked, doomed, overlap>>

\* Variant: a record that succeeded is not flagged.
Played_NoFlag(r, a) ==
    /\ content' = [content EXCEPT ![heap[r].store] = a.res.content]
    /\ env' = [env EXCEPT !.faults = a.faults]
    /\ heap' = heap
    /\ IF a.res.err = "nil" \/ GivesUp(a.res.err, tries)
       THEN todo' = todo \ {r} /\ tries' = 0
       ELSE todo' = todo /\ tries' = tries + 1

\* What the loop makes of an attempt's outcome: a record that fails is skipped
\* and stays; one that succeeds is flagged, without the lock.
Played(r, a) ==
    /\ content' = [content EXCEPT ![heap[r].store] = a.res.content]
    /\ env' = [env EXCEPT !.faults = a.faults]
    /\ heap' = IF a.res.err = "nil"
               THEN [heap EXCEPT ![r] = [heap[r] EXCEPT !.deleted = TRUE,
                                                        !.plays = heap[r].plays + 1]]
               ELSE heap
    /\ IF a.res.err = "nil" \/ GivesUp(a.res.err, tries)
       THEN todo' = todo \ {r} /\ tries' = 0
       ELSE todo' = todo /\ tries' = tries + 1

\* One attempt for the first record left.
ReplayStep ==
    /\ \E r \in todo :
         /\ \A q \in todo : r <= q
         /\ \E a \in Attempts(heap[r].store, heap[r].op) : Played(r, a)
    /\ UNCHANGED <<records, call, used, acked, doomed, overlap>>

\* Variant: the test of the flag is inverted.
Clean_DropsPending ==
    /\ Pending # records
    /\ records' = records \ Pending
    /\ UNCHANGED <<content, heap, call, todo, tries, used, env, acked, doomed, overlap>>

\* clean wakes up and, under the lock, drops what is deleted.
Clean ==
    /\ Pending # records
    /\ records' = Pending
    /\ UNCHANGED <<content, heap, call, todo, tries, used, env, acked, doomed, overlap>>

\* The process dies and is started again: the records lived in memory only.
Crash ==
    /\ env.crashes < MaxCrashes
    /\ env' = [env EXCEPT !.crashes = @ + 1]
    /\ heap' = <<>>
    /\ records' = {}
    /\ call' = [w \in Writers |-> Idle]
    /\ todo' = {}
    /\ tries' = 0
    /\ overlap' = FALSE
    /\ UNCHANGED <<content, used, acked, doomed>>

-----------------------------------------------------------------------------
Request(w) == Create(w) \/ Update(w) \/ Delete(w) \/ Subscribe(w) \/ Unsubscribe(w)

Handle(w) == Visit(w) \/ CallStore(w) \/ AddRecord(w) \/ Publish(w) \/ Return(w)

Replay == StartReplay \/ ReplayStep

Next == \/ \E w \in Writers : Request(w) \/ Handle(w)
        \/ Replay
        \/ Clean
        \/ Crash

Spec == Init /\ [][Next]_vars

\* A handler's goroutine and the two loops are scheduled again and again.
\* Nothing makes a request, a fault or a crash happen.
Fairness == /\ \A w \in Writers : WF_vars(Handle(w))
            /\ WF_vars(Replay)
            /\ WF_vars(Clean)

FairSpec == Spec /\ Fairness

-----------------------------------------------------------------------------
(* Properties *)

\* A call of a process that allocated n records: past its beginning it has an
\* operation, from the call of a store to the publication of a record it is at
\* a store, and its local slice points to allocated records.
WellFormed(c, n) ==
    /\ c \in Call
    /\ c.pc # "idle" => c.op \in Op
    /\ c.pc \in {"call", "add", "publish"} => c.cur \in Stores
    /\ c.tries < NbRetry
    /\ c.snap \subseteq 1..n

\* Every variable has its type: calls are well-formed, and the published slice
\* and the replay round point to allocated records.
TypeOK ==
    /\ content \in [Stores -> Content]
    /\ heap \in Seq(Record)
    /\ records \subseteq 1..Len(heap)
    /\ call \in [Writers -> Call]
    /\ \A w \in Writers : WellFormed(call[w], Len(heap))
    /\ todo \subseteq 1..Len(heap)
    /\ tries \in 0..(NbRetry - 1)
    /\ used \subseteq Guids
    /\ env \in Env
    /\ acked \subseteq Guids
    /\ doomed \subseteq Guids
    /\ overlap \in BOOLEAN

\* A recorded write is replayed with success at most once, whatever stale
\* slice an addRecord publishes while clean and replay run: a record is due in
\* the current round only if it never succeeded, and succeeded at most once.
ReplayedOnce ==
    /\ \A r \in 1..Len(heap) : heap[r].plays = IF heap[r].deleted THEN 1 ELSE 0
    /\ \A r \in todo : ~heap[r].deleted

\* A write some store did not take is not forgotten: once addRecord is over,
\* its record is replayed or still among m.records.
NoLostRecord ==
    \A r \in 1..Len(heap) :
        \/ heap[r].deleted
        \/ r \in records
        \/ \E w \in Writers : call[w].pc = "publish" /\ r \in call[w].snap

\* The only way to lose one: unless two handlers were between addRecord's read
\* of m.records and its lock together, clean, replay and the publications that
\* race them lose nothing.
LostByOverlapOnly == NoLostRecord \/ overlap

\* Playing the record again would leave its store as it is.
Inert(r) == Apply(Kind[heap[r].store], heap[r].op, content[heap[r].store]).content
              = content[heap[r].store]

\* No call and no replay round in progress, and no record to replay that would
\* still change a store.
Quiet == /\ \A w \in Writers : call[w].pc = "idle"
         /\ todo = {}
         /\ \A r \in Pending : Inert(r)

\* What ByDate, Persistents and Subscribers of a store return.
View(s) == [file |-> content[s].file, pers |-> content[s].pers, subs |-> content[s].subs]

\* README: "replicate in all storage what you write": when nothing is in
\* progress and no replay changes anything, all stores list the same data.
ReplicasAgree == Quiet => \A s, t \in Stores : View(s) = View(t)

\* README: "ensure that the data can be retrieved": an incident whose creation
\* was acknowledged and whose deletion nobody asked for is readable somewhere.
AckedReadable == \A g \in acked \ doomed : Known(g)

\* Every call on the store returns: retries are bounded and addRecord does not
\* wait for the replay of anything.
CallsReturn == \A w \in Writers : (call[w].pc # "idle") ~> (call[w].pc = "idle")

\* With finitely many faults and crashes, every record is eventually replayed
\* (or lost in a crash), and clean empties the slice.
RecordsDrain == <>[](records = {})
=============================================================================
