------------------------------- MODULE S3Store -------------------------------
(***************************************************************************)
(* The S3 store, request by request.  Objects are put, got and deleted as a *)
(* whole; lists are got, changed and put back, without any lock.  A request *)
(* that fails may have taken effect: only its answer was lost.              *)
(***************************************************************************)
EXTENDS StoreCalls

VARIABLE listed     \* the object subscribers.json exists

s3vars == <<callVars, listed>>

S3Content == [Decoded EXCEPT !.subsFile = listed]

S3Init == CallInit /\ listed = FALSE

-----------------------------------------------------------------------------
(* The order of the stages: Local's, except that Read tries the object first *)

S3First(op) == IF op.act = "read" THEN "load" ELSE FirstStage(op)

\* Variant: Read does not look among the persistent incidents.
S3NextStage_ObjectOnly(op, stage, err) == NextStage(op, stage, err)

S3NextStage(op, stage, err) ==
    IF stage = "load" /\ err = "notexist" THEN "find" ELSE NextStage(op, stage, err)

\* c's stage is over.  Read answers not-exist when the list cannot be read.
S3Finish(c, err) ==
    LET k == client[c]
    IN  GoTo(c, S3NextStage(k.op, k.stage, err), IF k.stage = "find" THEN "notexist" ELSE err)

S3Request(c) ==
    /\ \E op \in MayCall : Begin(c, op, S3First(op), S3Content)
    /\ UNCHANGED listed

-----------------------------------------------------------------------------
(* Requests to the bucket *)

\* The list is changed, and put next.
Change(c, list) ==
    /\ client' = [client EXCEPT ![c] =
                    Moved(client[c], "write", Edited(client[c].op, client[c].stage, list))]
    /\ UNCHANGED <<reply, start, acked, doomed>>

\* GetObject of a list.  No persistents.json is an empty list; Unsubscribe
\* minds that there is no subscribers.json.
GetList(c) ==
    /\ client[c].pc = "read"
    /\ LET op == client[c].op  stage == client[c].stage  list == lists[ListOf(stage)]
       IN  \/ stage = "unsub" /\ ~listed /\ S3Finish(c, "notexist")
           \/ Found(op, stage, list) /\ GoTo(c, "end", "nil")
           \/ stage = "find" /\ ~Found(op, stage, list) /\ S3Finish(c, "notexist")
           \/ /\ stage # "find" /\ ~Found(op, stage, list) /\ (stage = "unsub" => listed)
              /\ Change(c, list)
    /\ UNCHANGED <<files, lists, listed, env>>

\* GetObject of an incident.
GetIncident(c) ==
    /\ client[c].pc = "load"
    /\ S3Finish(c, IF files[client[c].op.guid] = None THEN "notexist" ELSE "nil")
    /\ UNCHANGED <<files, lists, listed, env>>

\* What PutObject of a list, PutObject of an incident and DeleteObject do.
Effect(c) ==
    LET k == client[c]
    IN  \/ /\ k.pc = "write"
           /\ lists' = [lists EXCEPT ![ListOf(k.stage)] = k.list]
           /\ listed' = (listed \/ ListOf(k.stage) = "subscribers")
           /\ UNCHANGED files
        \/ /\ k.pc = "create"
           /\ files' = [files EXCEPT ![Target(k.op)] = k.op.inc.ver]
           /\ UNCHANGED <<lists, listed>>
        \/ /\ k.pc = "unlink"
           /\ files' = [files EXCEPT ![Target(k.op)] = None]
           /\ UNCHANGED <<lists, listed>>

PutObject(c) == Effect(c) /\ S3Finish(c, "nil") /\ UNCHANGED env

\* A request fails, with or without having taken effect.
S3Fault(c) ==
    /\ client[c].pc # "idle"
    /\ env.faults < MaxFaults
    /\ env' = [env EXCEPT !.faults = env.faults + 1]
    /\ Effect(c) \/ UNCHANGED <<files, lists, listed>>
    /\ IF client[c].stage = "sub" /\ client[c].pc = "read" THEN Change(c, {})
                                                          ELSE S3Finish(c, "other")

\* The process dies and is started again; the bucket stays as it is.
S3Crash ==
    /\ env.crashes < MaxCrashes
    /\ env' = [env EXCEPT !.crashes = env.crashes + 1]
    /\ client' = [c \in Clients |-> Idle]
    /\ UNCHANGED <<files, lists, listed, reply, start, acked, doomed>>

S3Next == \/ \E c \in Clients :
                S3Request(c) \/ GetList(c) \/ GetIncident(c) \/ PutObject(c) \/ S3Fault(c)
          \/ S3Crash
=============================================================================
