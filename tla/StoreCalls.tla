----------------------------- MODULE StoreCalls -----------------------------
(***************************************************************************)
(* Calls to one store, in the small steps the store is made of: goroutines  *)
(* of handlers and the replay loop call it together.  A call is a sequence  *)
(* of stages, those of Local and S3 being                                   *)
(*   drop    removePersistent            add     addPersistent              *)
(*   unlink  the incident is removed     file    the incident is written    *)
(*   sub, unsub   the subscribers' list  find    readPersistent             *)
(*   load    the incident is read                                           *)
(* and a stage a few system calls or requests, named by pc.                 *)
(***************************************************************************)
EXTENDS Backends, Integers

CONSTANTS
    Clients,        \* goroutines calling the store
    Acts,           \* the operations called in this instance
    Persistence,    \* the values of incident.Persistent in this instance
    MaxOps,         \* bound: calls
    MaxFaults,      \* bound: system calls, requests or statements that fail
    MaxCrashes      \* bound: restarts of the process

ASSUME CallAssumption == None \notin StoreOp

VARIABLES
    files,     \* files[g]: what is kept of incident g on its own
    lists,     \* lists[l]: the list l
    client,    \* client[c]: the call client c is executing
    reply,     \* reply[c]: the answer to its last call
    env        \* the bounded environment: calls, faults and crashes so far

\* History, read by the properties only.
VARIABLES
    start,     \* start[c]: what the store held when c's call began
    acked,     \* guids whose creation returned no error
    doomed     \* guids whose deletion was called

callVars == <<files, lists, client, reply, env, start, acked, doomed>>

Lists == {"persistents", "subscribers"}

\* A call's list is the changed list on its way back to the file.
Idle == [pc |-> "idle", stage |-> "end", op |-> None, list |-> None]

\* The same stage, at another system call.
Moved(k, pc, list) == [pc |-> pc, stage |-> k.stage, op |-> k.op, list |-> list]

Target(op) == IF op.act \in {"created", "updated"} THEN op.inc.guid ELSE op.guid

ListOf(stage) == IF stage \in {"sub", "unsub"} THEN "subscribers" ELSE "persistents"

\* What is kept, as a content of Backends.
Decoded == [file |-> files, pers |-> lists["persistents"], msgs |-> {},
            subs |-> lists["subscribers"], subsFile |-> FALSE]

CallInit ==
    /\ files = Empty.file
    /\ lists = [l \in Lists |-> IF l = "persistents" THEN Empty.pers ELSE Empty.subs]
    /\ client = [c \in Clients |-> Idle]
    /\ reply = [c \in Clients |-> "nil"]
    /\ env = [ops |-> 0, faults |-> 0, crashes |-> 0]
    /\ start = [c \in Clients |-> [content |-> Empty, faults |-> 0]]
    /\ acked = {}
    /\ doomed = {}

-----------------------------------------------------------------------------
(* The order of the stages *)

FirstStage(op) ==
    CASE op.act = "created"     -> IF op.inc.persistent THEN "add" ELSE "file"
      [] op.act = "updated"     -> "drop"
      [] op.act = "deleted"     -> "drop"
      [] op.act = "subscribe"   -> "sub"
      [] op.act = "unsubscribe" -> "unsub"
      [] op.act = "read"        -> "find"

\* Variant: Update of a persistent incident returns the error of the deletion.
NextStage_StopsAtError(op, stage, err) ==
    CASE stage = "drop" /\ op.act = "deleted" -> IF err = "nil" THEN "unlink" ELSE "end"
      [] stage = "drop" /\ op.act = "updated" -> IF ~op.inc.persistent THEN "file"
                                                 ELSE IF err = "nil" THEN "unlink" ELSE "end"
      [] stage = "unlink" /\ op.act = "updated" -> IF err = "nil" THEN "add" ELSE "end"
      [] OTHER -> "end"

\* Variant: Delete goes on as Update does.
NextStage_AddsAfterDelete(op, stage, err) ==
    CASE stage = "drop" /\ op.act = "deleted" -> IF err = "nil" THEN "unlink" ELSE "end"
      [] stage = "drop" /\ op.act = "updated" -> IF ~op.inc.persistent THEN "file"
                                                 ELSE IF err = "nil" THEN "unlink" ELSE "add"
      [] stage = "unlink" -> "add"
      [] OTHER -> "end"

\* Delete stops at the first error.  Update of a persistent incident deletes
\* and adds, whatever the deletion answered; any other Update drops the
\* incident from the list, whatever that answered, and writes its file.
NextStage(op, stage, err) ==
    CASE stage = "drop" /\ op.act = "deleted" -> IF err = "nil" THEN "unlink" ELSE "end"
      [] stage = "drop" /\ op.act = "updated" -> IF ~op.inc.persistent THEN "file"
                                                 ELSE IF err = "nil" THEN "unlink" ELSE "add"
      [] stage = "unlink" /\ op.act = "updated" -> "add"
      [] OTHER -> "end"

Entry(stage) == CASE stage = "end" -> "idle"
                  [] stage = "unlink" -> "unlink"
                  [] stage = "file" -> "create"
                  [] stage = "load" -> "load"
                  [] OTHER -> "read"

At(op, stage) == [pc |-> Entry(stage), stage |-> stage, list |-> None,
                  op |-> IF stage = "end" THEN None ELSE op]

\* c goes on with the given stage, or returns err.
GoTo(c, stage, err) ==
    /\ client' = [client EXCEPT ![c] = At(client[c].op, stage)]
    /\ reply' = IF stage = "end" THEN [reply EXCEPT ![c] = err] ELSE reply
    /\ acked' = IF stage = "end" /\ client[c].op.act = "created" /\ err = "nil"
                THEN acked \cup {Target(client[c].op)} ELSE acked
    /\ UNCHANGED <<start, doomed>>

\* c's stage is over.
Finish(c, err) == GoTo(c, NextStage(client[c].op, client[c].stage, err), err)

-----------------------------------------------------------------------------
(* Requests *)

\* The store is called; what it holds is remembered.
Begin(c, op, stage, content) ==
    /\ client[c].pc = "idle"
    /\ op.act \in Acts
    /\ env.ops < MaxOps
    /\ env' = [env EXCEPT !.ops = env.ops + 1]
    /\ client' = [client EXCEPT ![c] = At(op, stage)]
    /\ start' = [start EXCEPT ![c] = [content |-> content, faults |-> env.faults]]
    /\ doomed' = IF op.act = "deleted" THEN doomed \cup {op.guid} ELSE doomed
    /\ UNCHANGED <<files, lists, reply, acked>>

\* A guid is created once, though a failed creation may be tried again.
Fresh(g) == g \notin acked /\ \A d \in Clients :
                client[d].op # None => ~(client[d].op.act = "created" /\ Target(client[d].op) = g)

\* The calls a client may make.
MayCall ==
    {op \in StoreOp :
        /\ op.act \in {"created", "updated"} => op.inc.persistent \in Persistence
        /\ op.act = "created" => Fresh(op.inc.guid)}

-----------------------------------------------------------------------------
(* The lists *)

Edited(op, stage, list) ==
    CASE stage = "drop"  -> [list EXCEPT ![Target(op)] = None]
      [] stage = "add"   -> [list EXCEPT ![Target(op)] = op.inc.ver]
      [] stage = "sub"   -> list \cup {op.email}
      [] stage = "unsub" -> list \ {op.email}

\* readPersistent finds the incident, or Subscribe the email: nothing to write.
Found(op, stage, list) ==
    \/ stage = "find" /\ list[op.guid] # None
    \/ stage = "sub" /\ op.email \in list

=============================================================================
