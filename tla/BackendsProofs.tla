---------------------------- MODULE BackendsProofs ----------------------------
(***************************************************************************)
(* Lemmas about Backends: calls, undisturbed or not, take a content to a    *)
(* content.                                                                 *)
(***************************************************************************)
EXTENDS Backends, TLAPS

-----------------------------------------------------------------------------
(* The backends: a call takes a content to a content *)

\* The edits a backend makes to its data leave it well-formed.
LEMMA EditsType ==
    ASSUME NEW c \in Content, NEW g \in Guids
    PROVE  /\ DropPers(c, g) \in Content
           /\ Erase(c, g) \in Content
           /\ AddMsg(c, g) \in Content
           /\ DropMsg(c, g) \in Content
  BY DEF Content, Shelf, DropPers, Erase, AddMsg, DropMsg

\* Storing an incident, in the place of an earlier one or not, likewise.
LEMMA PutType ==
    ASSUME NEW c \in Content, NEW i \in Incident
    PROVE  Put(c, i) \in Content /\ Replace(c, i) \in Content
  <1>0. i.guid \in Guids /\ i.ver \in Versions
    BY DEF Incident
  <1>1. ASSUME NEW d \in Content PROVE Put(d, i) \in Content
    BY <1>0 DEF Content, Shelf, Put
  <1>2. Erase(c, i.guid) \in Content
    BY <1>0, EditsType
  <1> QED BY <1>1, <1>2 DEF Replace

\* An operation has the fields its action needs.
LEMMA OpFields ==
    ASSUME NEW op \in Op
    PROVE  /\ op.act \in Actions
           /\ op.act \in {"created", "updated"} => op.inc \in Incident
           /\ op.act = "deleted" => op.guid \in Guids
           /\ op.act \in {"subscribe", "unsubscribe"} => op.email \in Emails
  BY DEF Op, IncidentOp, DeleteOp, EmailOp, Actions

\* An undisturbed call on a Local store.
LEMMA LocalType ==
    ASSUME NEW op \in Op, NEW c \in Content
    PROVE  LocalCall(op, c) \in Result
  <1>1. CASE op.act = "created"
    BY <1>1, OpFields, PutType DEF LocalCall, LocalCreate, Done, Result, Errors
  <1>2. CASE op.act = "updated"
    BY <1>2, OpFields, PutType DEF LocalCall, LocalUpdate, Done, Result, Errors
  <1>3. CASE op.act = "deleted"
    <2>1. op.guid \in Guids
      BY <1>3, OpFields
    <2>2. DropPers(c, op.guid) \in Content /\ Erase(c, op.guid) \in Content
      BY <2>1, EditsType
    <2> QED BY <1>3, <2>2 DEF LocalCall, LocalDelete, Done, Fail, Result, Errors
  <1>4. CASE op.act = "subscribe"
    BY <1>4, OpFields DEF LocalCall, LocalSubscribe, AddSub, Content, Done, Result, Errors
  <1>5. CASE op.act = "unsubscribe"
    BY <1>5, OpFields DEF LocalCall, LocalUnsubscribe, DropSub, Content, Done, Result, Errors
  <1> QED BY <1>1, <1>2, <1>3, <1>4, <1>5, OpFields DEF Actions

\* An undisturbed call on an S3 store.
LEMMA S3Type ==
    ASSUME NEW op \in Op, NEW c \in Content
    PROVE  S3Call(op, c) \in Result
  <1>1. CASE op.act = "created"
    BY <1>1, OpFields, PutType DEF S3Call, S3Create, Done, Result, Errors
  <1>2. CASE op.act = "updated"
    BY <1>2, OpFields, PutType DEF S3Call, S3Update, Done, Result, Errors
  <1>3. CASE op.act = "deleted"
    <2>1. op.guid \in Guids
      BY <1>3, OpFields
    <2>2. Erase(c, op.guid) \in Content
      BY <2>1, EditsType
    <2> QED BY <1>3, <2>2 DEF S3Call, S3Delete, Done, Result, Errors
  <1>4. CASE op.act = "subscribe"
    <2>1. op.email \in Emails
      BY <1>4, OpFields
    <2>2. [AddSub(c, op.email) EXCEPT !.subsFile = TRUE] \in Content
      BY <2>1 DEF AddSub, Content
    <2> QED BY <1>4, <2>2 DEF S3Call, S3Subscribe, Done, Result, Errors
  <1>5. CASE op.act = "unsubscribe"
    BY <1>5, OpFields DEF S3Call, S3Unsubscribe, DropSub, Content, Done, Fail, Result, Errors
  <1> QED BY <1>1, <1>2, <1>3, <1>4, <1>5, OpFields DEF Actions

\* An undisturbed call on a DB store.
LEMMA DBType ==
    ASSUME NEW op \in Op, NEW c \in Content
    PROVE  DBCall(op, c) \in Result
  <1>0. ASSUME NEW i \in Incident
        PROVE  AddMsg(c, i.guid) \in Content
    BY EditsType DEF Incident
  <1>1. CASE op.act = "created"
    <2>1. op.inc \in Incident
      BY <1>1, OpFields
    <2>2. /\ AddMsg(c, op.inc.guid) \in Content
          /\ Put(AddMsg(c, op.inc.guid), op.inc) \in Content
      BY <2>1, <1>0, PutType
    <2> QED BY <1>1, <2>2 DEF DBCall, DBCreate, Done, Fail, Result, Errors
  <1>2. CASE op.act = "updated"
    <2>1. op.inc \in Incident
      BY <1>2, OpFields
    <2>2. /\ AddMsg(c, op.inc.guid) \in Content
          /\ Replace(AddMsg(c, op.inc.guid), op.inc) \in Content
      BY <2>1, <1>0, PutType
    <2> QED BY <1>2, <2>2 DEF DBCall, DBUpdate, Done, Result, Errors
  <1>3. CASE op.act = "deleted"
    <2>1. op.guid \in Guids
      BY <1>3, OpFields
    <2>2. DropMsg(c, op.guid) \in Content
      BY <2>1, EditsType
    <2>3. Erase(DropMsg(c, op.guid), op.guid) \in Content
      BY <2>1, <2>2, EditsType
    <2> QED BY <1>3, <2>3 DEF DBCall, DBDelete, Done, Result, Errors
  <1>4. CASE op.act = "subscribe"
    BY <1>4, OpFields DEF DBCall, DBSubscribe, AddSub, Content, Done, Fail, Result, Errors
  <1>5. CASE op.act = "unsubscribe"
    BY <1>5, OpFields DEF DBCall, DBUnsubscribe, DropSub, Content, Done, Result, Errors
  <1> QED BY <1>1, <1>2, <1>3, <1>4, <1>5, OpFields DEF Actions

\* An undisturbed call on any backend.
LEMMA ApplyType ==
    ASSUME NEW k \in Kinds, NEW op \in Op, NEW c \in Content
    PROVE  Apply(k, op, c) \in Result
  BY LocalType, S3Type, DBType DEF Apply, Kinds

\* Wherever a failure stops a call, the content it leaves is well-formed.
LEMMA StagesType ==
    ASSUME NEW k \in Kinds, NEW op \in Op, NEW c \in Content
    PROVE  Stages(k, op, c) \subseteq Content /\ Swallowed(k, op, c) \subseteq Content
  <1>a. ASSUME NEW g \in Guids
        PROVE  /\ DropPers(c, g) \in Content /\ Erase(c, g) \in Content
               /\ AddMsg(c, g) \in Content /\ DropMsg(c, g) \in Content
    BY EditsType
  <1>b. ASSUME NEW i \in Incident PROVE i.guid \in Guids /\ i.ver \in Versions
    BY DEF Incident
  <1>c. ASSUME NEW i \in Incident PROVE UpdateStages(i, c) \subseteq Content
    BY <1>a, <1>b DEF UpdateStages
  <1>d. S3Call(op, c).content \in Content /\ DBCall(op, c).content \in Content
    BY S3Type, DBType DEF Result
  <1>e. ASSUME NEW i \in Incident PROVE DBRowSet(i, c) \in Content
    <2>1. CASE c.pers[i.guid] # None
      <3>1. [AddMsg(c, i.guid) EXCEPT !.pers[i.guid] = i.ver] \in Content
        BY <1>a, <1>b DEF Content, Shelf
      <3> QED BY <2>1, <3>1 DEF DBRowSet
    <2>2. CASE c.pers[i.guid] = None
      <3>1. AddMsg(c, i.guid) \in Content /\ Replace(AddMsg(c, i.guid), i) \in Content
        BY <1>a, <1>b, PutType
      <3> QED BY <2>2, <3>1 DEF DBRowSet, DBUpdate, Done
    <2> QED BY <2>1, <2>2
  <1>f. ASSUME NEW kind PROVE Swallowed(kind, op, c) \subseteq Content
    <2>1. CASE op.act = "updated"
      BY <2>1, OpFields, PutType DEF Swallowed
    <2>2. CASE op.act = "subscribe"
      <3>1. [c EXCEPT !.subs = {op.email}, !.subsFile = TRUE] \in Content
        BY <2>2, OpFields DEF Content
      <3> QED BY <2>2, <3>1 DEF Swallowed
    <2> QED BY <2>1, <2>2 DEF Swallowed
  <1>1. LocalStages(op, c) \subseteq Content
    BY <1>a, <1>c, OpFields DEF LocalStages
  <1>2. S3Stages(op, c) \subseteq Content
    BY <1>a, <1>c, <1>d, <1>f, OpFields DEF S3Stages
  <1>3. DBStages(op, c) \subseteq Content
    <2>1. CASE op.act = "created"
      BY <2>1, <1>a, <1>b, <1>d, OpFields DEF DBStages
    <2>2. CASE op.act = "updated"
      BY <2>2, <1>a, <1>b, <1>d, <1>e, OpFields DEF DBStages
    <2>3. CASE op.act = "deleted"
      BY <2>3, <1>a, <1>d, OpFields DEF DBStages
    <2>4. CASE op.act \in {"subscribe", "unsubscribe"}
      BY <2>4, <1>d DEF DBStages
    <2> QED BY <2>1, <2>2, <2>3, <2>4, OpFields DEF Actions
  <1>4. Stages(k, op, c) \subseteq Content
    BY <1>1, <1>2, <1>3 DEF Stages, Kinds
  <1> QED BY <1>4, <1>f

\* A disturbed call on any backend.
LEMMA FaultyType ==
    ASSUME NEW k \in Kinds, NEW op \in Op, NEW c \in Content
    PROVE  Faulty(k, op, c) \subseteq Result
  BY StagesType DEF Faulty, Fail, Done, Result, Errors

-----------------------------------------------------------------------------
(* What an operation spares *)

\* The operation leaves the incident of g on its own where it is: it is not its
\* deletion, and writes no persistent incident.
Spares(op, g) ==
    /\ op.act = "deleted" => op.guid # g
    /\ op.act \in {"created", "updated"} => ~op.inc.persistent

\* Storing an incident that is not persistent keeps all those on their own.
LEMMA EditsSpare ==
    ASSUME NEW c \in Content, NEW g \in Guids, c.file[g] # None
    PROVE  /\ \A x \in Guids : /\ DropPers(c, x).file[g] # None
                               /\ AddMsg(c, x).file[g] # None
                               /\ DropMsg(c, x).file[g] # None
                               /\ x # g => Erase(c, x).file[g] # None
           /\ \A i \in Incident : ~i.persistent =>
                /\ Put(c, i).file[g] # None /\ Replace(c, i).file[g] # None
                /\ Replace(AddMsg(c, i.guid), i).file[g] # None
                /\ Put(AddMsg(c, i.guid), i).file[g] # None
  <1>1. \A x \in Guids : /\ DropPers(c, x).file[g] # None
                         /\ AddMsg(c, x).file[g] # None
                         /\ DropMsg(c, x).file[g] # None
                         /\ x # g => Erase(c, x).file[g] # None
    BY DEF Content, Shelf, DropPers, AddMsg, DropMsg, Erase
  <1>2. ASSUME NEW d \in Content, d.file[g] # None, NEW i \in Incident, ~i.persistent
        PROVE  Put(d, i).file[g] # None /\ Replace(d, i).file[g] # None
    <2>1. i.ver \in Versions /\ i.guid \in Guids /\ i.ver # None
      BY NoneAssumption DEF Incident
    <2>2. ASSUME NEW e \in Content, i.guid = g \/ e.file[g] # None PROVE Put(e, i).file[g] # None
      BY <1>2, <2>1, <2>2 DEF Put, Content, Shelf
    <2>3. Erase(d, i.guid) \in Content
      BY <2>1, EditsType
    <2>4. i.guid = g \/ Erase(d, i.guid).file[g] # None
      BY <1>2, <2>1 DEF Erase, Content, Shelf
    <2> QED BY <1>2, <2>2, <2>3, <2>4 DEF Replace
  <1>3. \A i \in Incident : AddMsg(c, i.guid) \in Content /\ AddMsg(c, i.guid).file[g] # None
    BY <1>1, EditsType DEF Incident
  <1> QED BY <1>1, <1>2, <1>3

\* No call of such an operation, undisturbed or not, loses it.
LEMMA CallsSpare ==
    ASSUME NEW k \in Kinds, NEW op \in Op, NEW c \in Content, NEW g \in Guids,
           c.file[g] # None, Spares(op, g)
    PROVE  /\ Apply(k, op, c).content.file[g] # None
           /\ \A r \in Faulty(k, op, c) : r.content.file[g] # None
  <1>a. op.act \in {"created", "updated"} =>
            /\ op.inc \in Incident /\ ~op.inc.persistent /\ op.inc.guid \in Guids
            /\ Put(c, op.inc).file[g] # None /\ Replace(c, op.inc).file[g] # None
            /\ Replace(AddMsg(c, op.inc.guid), op.inc).file[g] # None
            /\ Put(AddMsg(c, op.inc.guid), op.inc).file[g] # None
            /\ AddMsg(c, op.inc.guid).file[g] # None
            /\ DropMsg(c, op.inc.guid).file[g] # None
            /\ DropPers(c, op.inc.guid).file[g] # None
    BY OpFields, EditsSpare DEF Spares, Incident
  <1>b. op.act = "deleted" =>
            /\ DropPers(c, op.guid).file[g] # None
            /\ DropMsg(c, op.guid).file[g] # None
            /\ Erase(c, op.guid).file[g] # None
            /\ Erase(DropMsg(c, op.guid), op.guid).file[g] # None
    <2> SUFFICES ASSUME op.act = "deleted"
                 PROVE  /\ DropPers(c, op.guid).file[g] # None
                        /\ DropMsg(c, op.guid).file[g] # None
                        /\ Erase(c, op.guid).file[g] # None
                        /\ Erase(DropMsg(c, op.guid), op.guid).file[g] # None
      OBVIOUS
    <2>1. op.guid \in Guids /\ op.guid # g
      BY OpFields DEF Spares
    <2>2. DropMsg(c, op.guid) \in Content /\ DropMsg(c, op.guid).file[g] # None
      BY <2>1, EditsType, EditsSpare
    <2> QED BY <2>1, <2>2, EditsSpare
  <1>1. Apply(k, op, c).content.file[g] # None
    <2>1. LocalCall(op, c).content.file[g] # None
      BY <1>a, <1>b, OpFields DEF LocalCall, LocalCreate, LocalUpdate, LocalDelete, LocalSubscribe,
         LocalUnsubscribe, AddSub, DropSub, Done, Fail, Actions, Content
    <2>2. S3Call(op, c).content.file[g] # None
      BY <1>a, <1>b, OpFields DEF S3Call, S3Create, S3Update, S3Delete, S3Subscribe,
         S3Unsubscribe, AddSub, DropSub, Done, Fail, Actions, Content
    <2>3. DBCall(op, c).content.file[g] # None
      BY <1>a, <1>b, OpFields DEF DBCall, DBCreate, DBUpdate, DBDelete, DBSubscribe,
         DBUnsubscribe, AddSub, DropSub, Done, Fail, Actions, Content
    <2> QED BY <2>1, <2>2, <2>3 DEF Apply, Kinds
  <1>2. \A d \in Swallowed(k, op, c) : d.file[g] # None
    BY <1>a DEF Swallowed, Content
  <1>3. op.act = "updated" => DBRowSet(op.inc, c).file[g] # None
    <2> SUFFICES ASSUME op.act = "updated" PROVE DBRowSet(op.inc, c).file[g] # None
      OBVIOUS
    <2>1. [AddMsg(c, op.inc.guid) EXCEPT !.pers[op.inc.guid] = op.inc.ver].file[g] # None
      <3>1. AddMsg(c, op.inc.guid) \in Content
        BY <1>a, EditsType
      <3> QED BY <1>a, <3>1 DEF Content
    <2> QED BY <1>a, <2>1 DEF DBRowSet, DBUpdate, Done
  <1>4. \A d \in Stages(k, op, c) : d.file[g] # None
    <2>1. op.act = "updated" => \A d \in UpdateStages(op.inc, c) : d.file[g] # None
      BY <1>a DEF UpdateStages
    <2>2. CASE k = "local"
      BY <1>b, <2>1, <2>2 DEF Stages, LocalStages
    <2>3. CASE k = "s3"
      BY <1>1, <1>2, <1>b, <2>1, <2>3 DEF Stages, S3Stages, Apply
    <2>4. CASE k = "db"
      BY <1>1, <1>3, <1>a, <1>b, <2>4 DEF Stages, DBStages, Apply
    <2> QED BY <2>2, <2>3, <2>4 DEF Kinds
  <1> QED BY <1>1, <1>2, <1>4 DEF Faulty, Fail, Done

\* A creation that returns no error leaves the incident on its own.
LEMMA CreationLasts ==
    ASSUME NEW k \in Kinds, NEW op \in Op, NEW c \in Content,
           op.act = "created", ~op.inc.persistent
    PROVE  /\ Apply(k, op, c).err = "nil" => Apply(k, op, c).content.file[op.inc.guid] # None
           /\ \A r \in Faulty(k, op, c) : r.err # "nil"
  <1>1. op.inc \in Incident /\ op.inc.guid \in Guids /\ op.inc.ver # None
    BY OpFields, NoneAssumption DEF Incident
  <1>2. ASSUME NEW d \in Content PROVE Put(d, op.inc).file[op.inc.guid] # None
    BY <1>1 DEF Put, Content, Shelf
  <1>3. AddMsg(c, op.inc.guid) \in Content
    BY <1>1, EditsType
  <1>4. Apply(k, op, c).err = "nil" => Apply(k, op, c).content.file[op.inc.guid] # None
    BY <1>2, <1>3 DEF Apply, Kinds, LocalCall, LocalCreate, S3Call, S3Create, DBCall, DBCreate, Done, Fail
  <1>5. \A r \in Faulty(k, op, c) : r.err # "nil"
    BY DEF Faulty, Swallowed, Fail
  <1> QED BY <1>4, <1>5
=============================================================================
