------------------------------ MODULE Backends ------------------------------
(***************************************************************************)
(* What one call on one storage backend (Local, S3, DB) does to the data    *)
(* that backend holds: for every operation of the Store interface that      *)
(* writes, the result of an undisturbed call, and the results of a call in  *)
(* which some file, object or SQL operation fails.                          *)
(*                                                                         *)
(* A backend's content is a record:                                         *)
(*   file  incidents kept on their own: a file (Local), an object (S3), a   *)
(*         row with persistent = false (DB).  This is what ByDate lists.    *)
(*   pers  incidents of persistents.json, or rows with persistent = true.   *)
(*         This is what Persistents lists.                                  *)
(*   msgs  DB only: the incidents whose creation message has a row in the   *)
(*         messages table (its primary key is what makes an INSERT fail).   *)
(*   subs  the subscribers.                                                 *)
(*   subsFile  S3 only: whether the object subscribers.json exists.         *)
(* An incident is its guid, its persistent flag and a version standing for  *)
(* all its other fields.  Every incident carries the message it was created *)
(* with (CreateIncident refuses an incident without one).                   *)
(*                                                                         *)
(* Single file, object and SQL operations are all-or-nothing here.  The     *)
(* interleaving of two calls inside one backend is not the subject of this  *)
(* module.                                                                  *)
(***************************************************************************)
CONSTANTS Guids, Emails, Versions,
          None      \* "no incident", "no store", "no operation"

ASSUME NoneAssumption == None \notin Versions

Incident == [guid : Guids, ver : Versions, persistent : BOOLEAN]

\* recordAction: the operations that write
Actions == {"created", "updated", "deleted", "subscribe", "unsubscribe"}

IncidentOp == [act : {"created", "updated"}, inc : Incident]
DeleteOp   == [act : {"deleted"}, guid : Guids]
EmailOp    == [act : {"subscribe", "unsubscribe"}, email : Emails]
Op         == IncidentOp \cup DeleteOp \cup EmailOp

\* Read(guid), and all the operations of this model.
ReadOp  == [act : {"read"}, guid : Guids]
StoreOp == Op \cup ReadOp

Shelf   == [Guids -> Versions \cup {None}]
Content == [file : Shelf, pers : Shelf, msgs : SUBSET Guids,
            subs : SUBSET Emails, subsFile : BOOLEAN]

Empty == [file |-> [g \in Guids |-> None], pers |-> [g \in Guids |-> None],
          msgs |-> {}, subs |-> {}, subsFile |-> FALSE]

Kinds  == {"local", "s3", "db"}

\* The errors Retry and the handlers tell apart: os.IsNotExist or any other.
Errors == {"nil", "notexist", "other"}
Result == [content : Content, err : Errors]

Done(c)    == [content |-> c, err |-> "nil"]
Fail(c, e) == [content |-> c, err |-> e]

-----------------------------------------------------------------------------
(* Edits of a content *)

DropPers(c, g) == [c EXCEPT !.pers[g] = None]
Erase(c, g)    == [c EXCEPT !.file[g] = None, !.pers[g] = None]
Put(c, i)      == IF i.persistent THEN [c EXCEPT !.pers[i.guid] = i.ver]
                                  ELSE [c EXCEPT !.file[i.guid] = i.ver]
Replace(c, i)  == Put(Erase(c, i.guid), i)
AddMsg(c, g)   == [c EXCEPT !.msgs = @ \cup {g}]
DropMsg(c, g)  == [c EXCEPT !.msgs = @ \ {g}]
AddSub(c, e)   == [c EXCEPT !.subs = @ \cup {e}]
DropSub(c, e)  == [c EXCEPT !.subs = @ \ {e}]

\* Read(guid) succeeds: Local looks in persistents.json and then for the
\* file, S3 for the object and then in persistents.json, DB for the row.
Readable(c, g) == c.file[g] # None \/ c.pers[g] # None

-----------------------------------------------------------------------------
(* Local: one file per incident, persistents.json, subscribers.json *)

LocalCreate(i, c) == Done(Put(c, i))

\* Persistent: Delete, its error ignored, then addPersistent.  Otherwise:
\* removePersistent, its error ignored, then the file is (over)written.
LocalUpdate(i, c) == Done(Replace(c, i))

\* os.Remove fails with ErrNotExist when the incident has no file of its own,
\* after removePersistent has already been carried out.
LocalDelete(g, c) ==
    IF c.file[g] = None THEN Fail(DropPers(c, g), "notexist")
                        ELSE Done(Erase(c, g))

LocalSubscribe(e, c)   == Done(AddSub(c, e))
LocalUnsubscribe(e, c) == Done(DropSub(c, e))

-----------------------------------------------------------------------------
(* S3: one object per incident, persistents.json, subscribers.json *)

S3Create(i, c) == Done(Put(c, i))

\* Variant: the update does not remove the incident from persistents.json.
S3Update_KeepsOther(i, c) == Done(Put(c, i))

S3Update(i, c) == Done(Replace(c, i))
S3Delete(g, c) == Done(Erase(c, g))

\* The error of retrieveSubscribers, NoSuchKey included, is ignored; a
\* subscriber already on the list writes nothing.
S3Subscribe(e, c) ==
    Done(IF e \in c.subs THEN c ELSE [AddSub(c, e) EXCEPT !.subsFile = TRUE])

S3Unsubscribe(e, c) ==
    IF c.subsFile THEN Done(DropSub(c, e)) ELSE Fail(c, "notexist")

-----------------------------------------------------------------------------
(* DB: tables incidents, messages, subscribers; no transaction per call *)

\* The messages are inserted before the incident.
DBCreate(i, c) ==
    IF i.guid \in c.msgs THEN Fail(c, "other")
    ELSE IF Readable(c, i.guid) THEN Fail(AddMsg(c, i.guid), "other")
    ELSE Done(Put(AddMsg(c, i.guid), i))

\* The UPDATE statements do nothing, without error, when there is no row; the
\* messages are inserted all the same.
DBUpdate(i, c) ==
    Done(IF Readable(c, i.guid) THEN Replace(AddMsg(c, i.guid), i)
                                ELSE AddMsg(c, i.guid))

DBDelete(g, c) == Done(Erase(DropMsg(c, g), g))

\* The email is the primary key.
DBSubscribe(e, c) == IF e \in c.subs THEN Fail(c, "other") ELSE Done(AddSub(c, e))
DBUnsubscribe(e, c) == Done(DropSub(c, e))

-----------------------------------------------------------------------------
(* One undisturbed call *)

LocalCall(op, c) ==
    CASE op.act = "created"     -> LocalCreate(op.inc, c)
      [] op.act = "updated"     -> LocalUpdate(op.inc, c)
      [] op.act = "deleted"     -> LocalDelete(op.guid, c)
      [] op.act = "subscribe"   -> LocalSubscribe(op.email, c)
      [] op.act = "unsubscribe" -> LocalUnsubscribe(op.email, c)

S3Call(op, c) ==
    CASE op.act = "created"     -> S3Create(op.inc, c)
      [] op.act = "updated"     -> S3Update(op.inc, c)
      [] op.act = "deleted"     -> S3Delete(op.guid, c)
      [] op.act = "subscribe"   -> S3Subscribe(op.email, c)
      [] op.act = "unsubscribe" -> S3Unsubscribe(op.email, c)

DBCall(op, c) ==
    CASE op.act = "created"     -> DBCreate(op.inc, c)
      [] op.act = "updated"     -> DBUpdate(op.inc, c)
      [] op.act = "deleted"     -> DBDelete(op.guid, c)
      [] op.act = "subscribe"   -> DBSubscribe(op.email, c)
      [] op.act = "unsubscribe" -> DBUnsubscribe(op.email, c)

Apply(kind, op, c) ==
    CASE kind = "local" -> LocalCall(op, c)
      [] kind = "s3"    -> S3Call(op, c)
      [] kind = "db"    -> DBCall(op, c)

-----------------------------------------------------------------------------
(* One call in which an operation underneath fails.  Stages: the contents   *)
(* the call can stop at.  On a remote backend the last operation may have   *)
(* taken effect although its answer was lost; a local system call has not.  *)

UpdateStages(i, c) == {c, DropPers(c, i.guid)}
                        \cup IF i.persistent THEN {Erase(c, i.guid)} ELSE {}

LocalStages(op, c) ==
    CASE op.act = "updated" -> UpdateStages(op.inc, c)
      [] op.act = "deleted" -> {c, DropPers(c, op.guid)}
      [] OTHER              -> {c}

\* Failures the code swallows: Update on Local and S3 goes on when removing
\* the previous incarnation fails, and S3's Subscribe takes a list it could
\* not read for an empty one.
Swallowed(kind, op, c) ==
    IF kind \in {"local", "s3"} /\ op.act = "updated"
    THEN {Put(c, op.inc)}
    ELSE IF kind = "s3" /\ op.act = "subscribe"
    THEN {[c EXCEPT !.subs = {op.email}, !.subsFile = TRUE]}
    ELSE {}

S3Stages(op, c) ==
    {c, S3Call(op, c).content} \cup Swallowed("s3", op, c) \cup
    CASE op.act = "updated"   -> UpdateStages(op.inc, c)
      [] op.act = "deleted"   -> {DropPers(c, op.guid)}
      [] OTHER                -> {}

\* The UPDATE with the fields that are not zero, before persistent = false.
DBRowSet(i, c) ==
    IF c.pers[i.guid] # None THEN [AddMsg(c, i.guid) EXCEPT !.pers[i.guid] = i.ver]
                             ELSE DBUpdate(i, c).content

DBStages(op, c) ==
    {c, DBCall(op, c).content} \cup
    CASE op.act = "created" -> {AddMsg(c, op.inc.guid)}
      [] op.act = "updated" -> {DropMsg(c, op.inc.guid), AddMsg(c, op.inc.guid),
                                DBRowSet(op.inc, c)}
      [] op.act = "deleted" -> {DropMsg(c, op.guid)}
      [] OTHER              -> {}

Stages(kind, op, c) ==
    CASE kind = "local" -> LocalStages(op, c)
      [] kind = "s3"    -> S3Stages(op, c)
      [] kind = "db"    -> DBStages(op, c)

\* The results of a disturbed call.
Faulty(kind, op, c) ==
    {Fail(d, "other") : d \in Stages(kind, op, c)} \cup
    {Done(d) : d \in Swallowed(kind, op, c)}

-----------------------------------------------------------------------------
(* One call of any operation, Read included *)

\* gorm's "record not found" is not os.ErrNotExist.
Missing(kind) == IF kind = "db" THEN "other" ELSE "notexist"

\* The result of an undisturbed call.
Outcome(kind, op, c) ==
    IF op.act = "read"
    THEN [content |-> c, err |-> IF Readable(c, op.guid) THEN "nil" ELSE Missing(kind)]
    ELSE Apply(kind, op, c)

\* The results of a disturbed one.  Read in S3 takes a list it could not read
\* for one without the incident.
Disturbed(kind, op, c) ==
    IF op.act # "read" THEN Faulty(kind, op, c)
    ELSE {Fail(c, "other")} \cup
         IF kind = "s3" /\ c.file[op.guid] = None THEN {Fail(c, "notexist")} ELSE {}
=============================================================================
