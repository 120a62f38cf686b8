------------------------------ MODULE LocalStore ------------------------------
(***************************************************************************)
(* The Local store, system call by system call.  Lists (persistents.json,   *)
(* subscribers.json) are read, changed and written back; the mutex of a     *)
(* list is held during the write only.  os.WriteFile empties a file and     *)
(* then writes it.  A list whose file does not exist is read as the empty   *)
(* list.                                                                    *)
(***************************************************************************)
EXTENDS StoreCalls

CONSTANTS
    Truncated,      \* a file that was emptied and not yet written
    Mixed           \* a file two goroutines wrote over each other

Broken == {Truncated, Mixed}

ASSUME LocalAssumption ==
    /\ Truncated # Mixed
    /\ \A b \in Broken : /\ b \notin Versions \cup {None}
                         /\ \A v \in Shelf : v # b
                         /\ \A v \in SUBSET Emails : v # b
    /\ None \notin Clients
    /\ MaxOps \in Nat /\ MaxFaults \in Nat /\ MaxCrashes \in Nat

VARIABLES
    linked,    \* clients whose open incident file still has its name
    mutex      \* mutex[l]: the client that holds l's mutex

vars == <<files, lists, linked, mutex, client, reply, env, start, acked, doomed>>

Init == CallInit /\ linked = {} /\ mutex = [l \in Lists |-> None]

-----------------------------------------------------------------------------
(* The order of the stages *)

StagesOf == [created |-> {"add", "file"}, updated |-> {"drop", "unlink", "add", "file"},
             deleted |-> {"drop", "unlink"}, subscribe |-> {"sub"},
             unsubscribe |-> {"unsub"}, read |-> {"find", "load"}]

\* The system calls of a stage.
ReadWrite == {"read", "lock", "open", "write"}
PcsOf == [drop |-> ReadWrite, add |-> ReadWrite, sub |-> ReadWrite, unsub |-> ReadWrite,
          find |-> {"read"}, unlink |-> {"unlink"}, file |-> {"create", "fill"},
          load |-> {"load"}]

-----------------------------------------------------------------------------
Request(c) ==
    /\ \E op \in MayCall : Begin(c, op, FirstStage(op), Decoded)
    /\ UNCHANGED <<linked, mutex>>

-----------------------------------------------------------------------------
(* A list is read, changed and written back *)

\* os.ReadFile and json.Unmarshal, without the mutex.
ReadList(c) ==
    /\ client[c].pc = "read"
    /\ LET op == client[c].op  stage == client[c].stage  list == lists[ListOf(stage)]
       IN  \/ list \in Broken /\ GoTo(c, NextStage(op, stage, "other"), "other")
           \/ list \notin Broken /\ Found(op, stage, list) /\ GoTo(c, "end", "nil")
           \/ list \notin Broken /\ ~Found(op, stage, list) /\ stage = "find"
              /\ GoTo(c, "load", "nil")
           \/ list \notin Broken /\ ~Found(op, stage, list) /\ stage # "find"
              /\ client' = [client EXCEPT ![c] =
                              Moved(client[c], "lock", Edited(op, stage, list))]
              /\ UNCHANGED <<reply, start, acked, doomed>>
    /\ UNCHANGED <<files, lists, linked, mutex, env>>

\* Variant: the mutex is not taken.
Lock_Free(c) ==
    /\ client[c].pc = "lock"
    /\ mutex' = [mutex EXCEPT ![ListOf(client[c].stage)] = c]
    /\ client' = [client EXCEPT ![c] = Moved(client[c], "open", client[c].list)]
    /\ UNCHANGED <<files, lists, linked, reply, env, start, acked, doomed>>

Lock(c) ==
    /\ client[c].pc = "lock"
    /\ mutex[ListOf(client[c].stage)] = None
    /\ mutex' = [mutex EXCEPT ![ListOf(client[c].stage)] = c]
    /\ client' = [client EXCEPT ![c] = Moved(client[c], "open", client[c].list)]
    /\ UNCHANGED <<files, lists, linked, reply, env, start, acked, doomed>>

\* os.WriteFile opens the file with O_TRUNC.
OpenList(c) ==
    /\ client[c].pc = "open"
    /\ lists' = [lists EXCEPT ![ListOf(client[c].stage)] = Truncated]
    /\ client' = [client EXCEPT ![c] = Moved(client[c], "write", client[c].list)]
    /\ UNCHANGED <<files, linked, mutex, reply, env, start, acked, doomed>>

\* Bytes written at the start of a file: all of it if it is empty, otherwise
\* what was there may stick out.
Written(old, new) == IF old = Truncated THEN {new} ELSE {new, Mixed}

WriteList(c) ==
    /\ client[c].pc = "write"
    /\ LET l == ListOf(client[c].stage)
       IN  /\ \E v \in Written(lists[l], client[c].list) : lists' = [lists EXCEPT ![l] = v]
           /\ mutex' = [mutex EXCEPT ![l] = None]
    /\ Finish(c, "nil")
    /\ UNCHANGED <<files, linked, env>>

-----------------------------------------------------------------------------
(* The file of an incident: no mutex *)

Unlink(c) ==
    /\ client[c].pc = "unlink"
    /\ LET g == Target(client[c].op)
       IN  /\ files' = [files EXCEPT ![g] = None]
           /\ linked' = {d \in linked : Target(client[d].op) # g}
           /\ Finish(c, IF files[g] = None THEN "notexist" ELSE "nil")
    /\ UNCHANGED <<lists, mutex, env>>

CreateFile(c) ==
    /\ client[c].pc = "create"
    /\ files' = [files EXCEPT ![Target(client[c].op)] = Truncated]
    /\ linked' = linked \cup {c}
    /\ client' = [client EXCEPT ![c] = Moved(client[c], "fill", None)]
    /\ UNCHANGED <<lists, mutex, reply, env, start, acked, doomed>>

\* What goes to a file that was removed in the meantime is gone.
FillFile(c) ==
    /\ client[c].pc = "fill"
    /\ LET g == Target(client[c].op)
       IN  IF c \in linked
           THEN \E v \in Written(files[g], client[c].op.inc.ver) : files' = [files EXCEPT ![g] = v]
           ELSE files' = files
    /\ linked' = linked \ {c}
    /\ Finish(c, "nil")
    /\ UNCHANGED <<lists, mutex, env>>

LoadFile(c) ==
    /\ client[c].pc = "load"
    /\ LET v == files[client[c].op.guid]
       IN  Finish(c, IF v = None THEN "notexist" ELSE IF v \in Broken THEN "other" ELSE "nil")
    /\ UNCHANGED <<files, lists, linked, mutex, env>>

-----------------------------------------------------------------------------
(* Failures *)

\* A system call fails before it has any effect; the mutex is released.
Fault(c) ==
    /\ client[c].pc \in {"read", "open", "unlink", "create", "load"}
    /\ env.faults < MaxFaults
    /\ env' = [env EXCEPT !.faults = env.faults + 1]
    /\ mutex' = IF client[c].pc = "open" THEN [mutex EXCEPT ![ListOf(client[c].stage)] = None]
                                         ELSE mutex
    /\ Finish(c, "other")
    /\ UNCHANGED <<files, lists, linked>>

\* The process dies and is started again; the files stay as they are.
Crash ==
    /\ env.crashes < MaxCrashes
    /\ env' = [env EXCEPT !.crashes = env.crashes + 1]
    /\ linked' = {}
    /\ mutex' = [l \in Lists |-> None]
    /\ client' = [c \in Clients |-> Idle]
    /\ UNCHANGED <<files, lists, reply, start, acked, doomed>>

Step(c) == \/ ReadList(c) \/ Lock(c) \/ OpenList(c) \/ WriteList(c)
           \/ Unlink(c) \/ CreateFile(c) \/ FillFile(c) \/ LoadFile(c)

Next == \/ \E c \in Clients : Request(c) \/ Step(c) \/ Fault(c)
        \/ Crash

Spec == Init /\ [][Next]_vars

-----------------------------------------------------------------------------
(* Properties *)

ListValue(l) == IF l = "persistents" THEN Shelf ELSE SUBSET Emails

\* A call in progress is at a system call of a stage of its operation; from the
\* change of a list to its writing it holds a value of that list.
WellFormed(k) ==
    \/ k = Idle
    \/ /\ k.op \in StoreOp
       /\ k.stage \in StagesOf[k.op.act]
       /\ k.pc \in PcsOf[k.stage]
       /\ k.pc \in {"lock", "open", "write"} => k.list \in ListValue(ListOf(k.stage))

\* Every variable has its type.
TypeOK ==
    /\ files \in [Guids -> Versions \cup {None} \cup Broken]
    /\ DOMAIN lists = Lists /\ \A l \in Lists : lists[l] \in Broken \cup ListValue(l)
    /\ linked \subseteq Clients
    /\ mutex \in [Lists -> Clients \cup {None}]
    /\ DOMAIN client = Clients /\ \A c \in Clients : WellFormed(client[c])
    /\ reply \in [Clients -> Errors]
    /\ env \in [ops : 0..MaxOps, faults : 0..MaxFaults, crashes : 0..MaxCrashes]
    /\ acked \subseteq Guids /\ doomed \subseteq Guids

Writing(c, l) == client[c].pc = "write" /\ ListOf(client[c].stage) = l

\* The mutex around the write keeps a list decodable: it is never a mixture of
\* two writes, and it is empty only while a goroutine is about to write it, or
\* after the process died there.
ListsWhole ==
    \A l \in Lists :
        /\ lists[l] # Mixed
        /\ lists[l] = Truncated => env.crashes > 0 \/ \E c \in Clients : Writing(c, l)

\* README: "ensure that the data can be retrieved": when no call is in
\* progress, Read finds every incident whose creation was acknowledged and
\* whose deletion nobody asked for.
Retrievable ==
    (\A c \in Clients : client[c].pc = "idle") =>
        \A g \in acked \ doomed :
            /\ lists["persistents"] \notin Broken
            /\ lists["persistents"][g] # None \/ files[g] \in Versions

=============================================================================
