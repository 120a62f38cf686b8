------------------------------- MODULE DBStore -------------------------------
(***************************************************************************)
(* The DB store, statement by statement; gorm runs each in a transaction of *)
(* its own.  A row of the incidents table is in files if persistent is      *)
(* false and in the list of persistents otherwise.  Statements that repair  *)
(* fields gorm's Updates skips are part of the one that sets the row,       *)
(* except persistent; metadata are not followed, the failures of their      *)
(* deletion are.  A statement that fails may have taken effect.  A restart  *)
(* leaves the tables as a failure does, so none is modelled here.            *)
(***************************************************************************)
EXTENDS StoreCalls, Sequences

VARIABLES
    messages,  \* guids of the incidents whose message has a row
    pending    \* the error of deleting the metadata, returned after the messages

dbvars == <<callVars, messages, pending>>

DBContent == [Decoded EXCEPT !.msgs = messages]

DBInit == CallInit /\ messages = {} /\ pending = [c \in Clients |-> "nil"]

-----------------------------------------------------------------------------
(* The order of the statements *)

Statements ==
    [created     |-> <<"add messages", "add row">>,
     updated     |-> <<"delete messages", "delete metadata", "add messages", "set row",
                       "set persistent">>,
     deleted     |-> <<"delete messages", "delete metadata", "delete row">>,
     subscribe   |-> <<"add subscriber">>,
     unsubscribe |-> <<"delete subscriber">>,
     read        |-> <<"select">>]

\* c executes the nth statement of its call.
Statement(c, n) ==
    client[c].op # None /\ n \in DOMAIN Statements[client[c].op.act]
        /\ client[c].stage = Statements[client[c].op.act][n]

\* The nth statement answered err: it was the last, or an error ends the call.
\* Update does not look at the error of deleting the metadata until the
\* messages are in, and has persistent to clear only if it is false.
Answered(c, n, err) ==
    LET op   == client[c].op
        next == IF n = Len(Statements[op.act]) THEN "end" ELSE Statements[op.act][n + 1]
        late == op.act = "updated" /\ client[c].stage = "delete metadata"
        last == client[c].stage = "set row" /\ op.inc.persistent
    IN  /\ pending' = [pending EXCEPT ![c] = IF late THEN err ELSE "nil"]
        /\ IF late \/ (err = "nil" /\ pending[c] = "nil" /\ ~last)
           THEN GoTo(c, next, err)
           ELSE GoTo(c, "end", IF err = "nil" THEN pending[c] ELSE err)

DBRequest(c) ==
    /\ \E op \in MayCall : Begin(c, op, Statements[op.act][1], DBContent)
    /\ UNCHANGED <<messages, pending>>

-----------------------------------------------------------------------------
(* The statements *)

Row(g) == files[g] # None \/ lists["persistents"][g] # None

\* Variant: the messages that are there already are left as they are.
Refused_Upserts(op, stage) ==
    \/ stage = "add row" /\ Row(op.inc.guid)
    \/ stage = "add subscriber" /\ op.email \in lists["subscribers"]
    \/ stage = "select" /\ ~Row(op.guid)

\* An INSERT whose primary key is taken, or a SELECT of nothing.
Refused(op, stage) ==
    \/ stage = "add messages" /\ op.inc.guid \in messages
    \/ stage = "add row" /\ Row(op.inc.guid)
    \/ stage = "add subscriber" /\ op.email \in lists["subscribers"]
    \/ stage = "select" /\ ~Row(op.guid)

\* UPDATE works on the row there is; Updates sets persistent when it is true.
SetRow(i) ==
    IF Row(i.guid) THEN Replace(DBContent, [i EXCEPT !.persistent = @ \/ files[i.guid] = None])
                   ELSE DBContent

\* persistent = false.
Unlisted(g) ==
    LET ver == lists["persistents"][g]
    IN  IF ver = None THEN DBContent ELSE [Erase(DBContent, g) EXCEPT !.file[g] = ver]

\* What a statement makes of the tables.
Made(op, stage) ==
    CASE stage = "add messages"      -> AddMsg(DBContent, op.inc.guid)
      [] stage = "delete messages"   -> DropMsg(DBContent, Target(op))
      [] stage = "add row"           -> Put(DBContent, op.inc)
      [] stage = "set row"           -> SetRow(op.inc)
      [] stage = "set persistent"    -> Unlisted(op.inc.guid)
      [] stage = "delete row"        -> Erase(DBContent, op.guid)
      [] stage = "add subscriber"    -> AddSub(DBContent, op.email)
      [] stage = "delete subscriber" -> DropSub(DBContent, op.email)
      [] OTHER                       -> DBContent

Tables(content) ==
    /\ files' = content.file
    /\ lists' = [persistents |-> content.pers, subscribers |-> content.subs]
    /\ messages' = content.msgs

Unchanged == UNCHANGED <<files, lists, messages>>

\* The nth statement of c's call is executed.
Execute(c, n) ==
    /\ Statement(c, n)
    /\ IF Refused(client[c].op, client[c].stage)
       THEN Unchanged /\ Answered(c, n, "other")
       ELSE Tables(Made(client[c].op, client[c].stage)) /\ Answered(c, n, "nil")
    /\ UNCHANGED env

\* It fails, with or without having taken effect.
DBFault(c, n) ==
    /\ Statement(c, n)
    /\ env.faults < MaxFaults
    /\ env' = [env EXCEPT !.faults = env.faults + 1]
    /\ \/ ~Refused(client[c].op, client[c].stage)
          /\ Tables(Made(client[c].op, client[c].stage))
       \/ Unchanged
    /\ Answered(c, n, "other")

DBNext ==
    \E c \in Clients : \/ DBRequest(c)
                       \/ \E n \in DOMAIN Statements.updated : Execute(c, n) \/ DBFault(c, n)
=============================================================================
