----------------------------- MODULE StoresProofs -----------------------------
(***************************************************************************)
(* What the stores keep, for every set of callers, guids, emails and       *)
(* versions, and every number of calls, of failures and of restarts.       *)
(* First the types and the lists of LocalStore; then, for a Local or an S3 *)
(* store of Stores, what was acknowledged although calls overlap; last,    *)
(* with one caller, that a store of any kind implements AtomicStore.  The  *)
(* invariant of the last part says what the store holds before each stage  *)
(* of a call, in terms of what it held when the call began.                *)
(***************************************************************************)
EXTENDS Stores, BackendsProofs

\* A call has the fields its action needs.
LEMMA CallFields ==
    ASSUME NEW op \in StoreOp
    PROVE  /\ op.act \in Actions \cup {"read"}
           /\ op.act \in {"created", "updated"} => op.inc \in Incident
           /\ op.act \notin {"subscribe", "unsubscribe"} => Target(op) \in Guids
           /\ op.act \in {"subscribe", "unsubscribe"} => op.email \in Emails
           /\ op.act = "read" => op.guid \in Guids
  <1>1. CASE op \in Op
    <2>1. op.act \in {"created", "updated"} => op.inc.guid \in Guids
      BY <1>1, OpFields DEF Incident
    <2> QED BY <1>1, <2>1, OpFields DEF Target, Actions
  <1>2. CASE op \in ReadOp
    BY <1>2 DEF ReadOp, Target
  <1> QED BY <1>1, <1>2 DEF StoreOp

-----------------------------------------------------------------------------
(* The stages of a call *)

\* A call starts with a stage of its own.
LEMMA FirstStageType ==
    ASSUME NEW op \in StoreOp
    PROVE  FirstStage(op) \in StagesOf[op.act]
  BY CallFields DEF FirstStage, StagesOf, Actions

\* A call goes on with a stage of its own, or ends.
LEMMA NextStageType ==
    ASSUME NEW op \in StoreOp, NEW stage \in StagesOf[op.act], NEW err
    PROVE  NextStage(op, stage, err) \in StagesOf[op.act] \cup {"end"}
  BY CallFields DEF NextStage, StagesOf, Actions

\* Entering a stage, or none, leaves the call well-formed.
LEMMA AtType ==
    ASSUME NEW op \in StoreOp, NEW stage \in StagesOf[op.act] \cup {"end"}
    PROVE  /\ WellFormed(At(op, stage))
           /\ At(op, stage).pc \notin {"lock", "open", "write"}
           /\ stage # "end" => At(op, stage).pc # "idle"
  <1>1. CASE stage = "end"
    BY <1>1 DEF At, Entry, WellFormed, Idle
  <1>2. CASE stage # "end"
    <2>1. stage \in {"add", "file", "drop", "unlink", "sub", "unsub", "find", "load"}
      BY <1>2, CallFields DEF StagesOf, Actions
    <2>2. Entry(stage) \in PcsOf[stage] /\ Entry(stage) \notin {"lock", "open", "write", "idle"}
      BY <2>1 DEF Entry, PcsOf, ReadWrite
    <2> QED BY <1>2, <2>2 DEF At, WellFormed, StoreOp
  <1> QED BY <1>1, <1>2

\* Changing a list gives a list.
LEMMA EditedType ==
    ASSUME NEW op \in StoreOp, NEW stage \in StagesOf[op.act],
           stage \in {"drop", "add", "sub", "unsub"},
           NEW list \in ListValue(ListOf(stage))
    PROVE  Edited(op, stage, list) \in ListValue(ListOf(stage))
  <1>1. CASE stage = "drop"
    <2>1. Target(op) \in Guids
      BY <1>1, CallFields DEF StagesOf, Actions
    <2> QED BY <1>1, <2>1 DEF Edited, ListValue, ListOf, Shelf
  <1>2. CASE stage = "add"
    <2>1. Target(op) \in Guids /\ op.inc.ver \in Versions
      BY <1>2, CallFields DEF StagesOf, Actions, Incident
    <2> QED BY <1>2, <2>1 DEF Edited, ListValue, ListOf, Shelf
  <1>3. CASE stage \in {"sub", "unsub"}
    <2>1. op.email \in Emails
      BY <1>3, CallFields DEF StagesOf, Actions
    <2> QED BY <1>3, <2>1 DEF Edited, ListValue, ListOf
  <1> QED BY <1>1, <1>2, <1>3

\* A call in progress.
LEMMA InProgress ==
    ASSUME NEW k, WellFormed(k), k.pc # "idle"
    PROVE  /\ k.op \in StoreOp /\ k.stage \in StagesOf[k.op.act] /\ k.pc \in PcsOf[k.stage]
           /\ k.pc \in {"lock", "open", "write"} => k.list \in ListValue(ListOf(k.stage))
           /\ k.stage \in {"add", "file", "drop", "unlink", "sub", "unsub", "find", "load"}
  <1>1. /\ k.op \in StoreOp /\ k.stage \in StagesOf[k.op.act] /\ k.pc \in PcsOf[k.stage]
        /\ k.pc \in {"lock", "open", "write"} => k.list \in ListValue(ListOf(k.stage))
    BY DEF WellFormed, Idle, StoreOp
  <1> QED BY <1>1, CallFields DEF StagesOf, Actions

\* What the place of a call says about its stage.
LEMMA PcStage ==
    ASSUME NEW k, WellFormed(k)
    PROVE  /\ k.pc \in {"lock", "open", "write"} => k.stage \in {"drop", "add", "sub", "unsub"}
           /\ k.pc = "read" => k.stage \in {"drop", "add", "sub", "unsub", "find"}
           /\ k.pc = "unlink" => k.stage = "unlink"
           /\ k.pc \in {"create", "fill"} => k.stage = "file"
           /\ k.pc = "load" => k.stage = "load"
  BY InProgress DEF PcsOf, ReadWrite

\* Going from one system call of a stage to another.
LEMMA MovedType ==
    ASSUME NEW k, WellFormed(k), k.pc # "idle", NEW pc \in PcsOf[k.stage], NEW list,
           pc \in {"lock", "open", "write"} => list \in ListValue(ListOf(k.stage))
    PROVE  WellFormed(Moved(k, pc, list))
  BY InProgress DEF WellFormed, Moved, StoreOp

-----------------------------------------------------------------------------
(* Type correctness *)

\* Replacing one client's call by a well-formed one.
LEMMA ClientStep ==
    ASSUME TypeOK, NEW c \in Clients, NEW k, WellFormed(k), client' = [client EXCEPT ![c] = k]
    PROVE  DOMAIN client' = Clients /\ \A x \in Clients : WellFormed(client'[x])
  BY DEF TypeOK

\* A call goes on, or returns.
LEMMA GoToType ==
    ASSUME TypeOK, NEW c \in Clients, client[c].pc # "idle",
           NEW stage \in StagesOf[client[c].op.act] \cup {"end"}, NEW err \in Errors,
           GoTo(c, stage, err)
    PROVE  /\ DOMAIN client' = Clients /\ \A x \in Clients : WellFormed(client'[x])
           /\ reply' \in [Clients -> Errors]
           /\ acked' \subseteq Guids /\ doomed' \subseteq Guids
  <1>1. WellFormed(client[c]) /\ client[c].op \in StoreOp
    BY InProgress DEF TypeOK
  <1>2. WellFormed(At(client[c].op, stage))
    BY <1>1, AtType
  <1>3. DOMAIN client' = Clients /\ \A x \in Clients : WellFormed(client'[x])
    BY <1>2, ClientStep DEF GoTo
  <1>4. reply' \in [Clients -> Errors]
    BY DEF GoTo, TypeOK
  <1>5. client[c].op.act = "created" => Target(client[c].op) \in Guids
    BY <1>1, CallFields
  <1> QED BY <1>3, <1>4, <1>5 DEF GoTo, TypeOK

\* A stage is over.
LEMMA FinishType ==
    ASSUME TypeOK, NEW c \in Clients, client[c].pc # "idle", NEW err \in Errors, Finish(c, err)
    PROVE  /\ DOMAIN client' = Clients /\ \A x \in Clients : WellFormed(client'[x])
           /\ reply' \in [Clients -> Errors]
           /\ acked' \subseteq Guids /\ doomed' \subseteq Guids
  <1>1. client[c].op \in StoreOp /\ client[c].stage \in StagesOf[client[c].op.act]
    BY InProgress DEF TypeOK
  <1>2. NextStage(client[c].op, client[c].stage, err) \in StagesOf[client[c].op.act] \cup {"end"}
    BY <1>1, NextStageType
  <1> QED BY <1>2, GoToType DEF Finish

\* The system call that follows in the same stage.
LEMMA MoveType ==
    ASSUME TypeOK, NEW c \in Clients, client[c].pc # "idle",
           NEW pc \in PcsOf[client[c].stage], NEW list,
           pc \in {"lock", "open", "write"} => list \in ListValue(ListOf(client[c].stage)),
           client' = [client EXCEPT ![c] = Moved(client[c], pc, list)]
    PROVE  DOMAIN client' = Clients /\ \A x \in Clients : WellFormed(client'[x])
  <1>1. WellFormed(client[c])
    BY DEF TypeOK
  <1>2. WellFormed(Moved(client[c], pc, list))
    BY <1>1, MovedType
  <1> QED BY <1>2, ClientStep

\* Changing the file of one list.
LEMMA ListStep ==
    ASSUME TypeOK, NEW l \in Lists, NEW v \in Broken \cup ListValue(l),
           lists' = [lists EXCEPT ![l] = v]
    PROVE  DOMAIN lists' = Lists /\ \A m \in Lists : lists'[m] \in Broken \cup ListValue(m)
  BY DEF TypeOK

\* The state has its type when the callers have called nothing.
LEMMA TypeInit == Init => TypeOK
  <1> SUFFICES ASSUME Init PROVE TypeOK
    OBVIOUS
  <1>1. files \in [Guids -> Versions \cup {None} \cup Broken]
    BY DEF Init, CallInit, Empty
  <1>2. DOMAIN lists = Lists /\ \A l \in Lists : lists[l] \in Broken \cup ListValue(l)
    BY DEF Init, CallInit, Empty, Lists, ListValue, Shelf
  <1>3. DOMAIN client = Clients /\ \A c \in Clients : WellFormed(client[c])
    BY DEF Init, CallInit, WellFormed
  <1> QED BY <1>1, <1>2, <1>3, LocalAssumption DEF Init, CallInit, TypeOK, Errors

\* Every step of a caller, of the environment or of the file system keeps the type.
LEMMA TypeStep == TypeOK /\ [Next]_vars => TypeOK'
  <1> SUFFICES ASSUME TypeOK, [Next]_vars PROVE TypeOK'
    OBVIOUS
  <1> USE DEF Errors
  <1>a. ASSUME NEW c \in Clients PROVE WellFormed(client[c])
    BY DEF TypeOK
  <1>b. \A s : ListOf(s) \in Lists
    BY DEF ListOf, Lists
  <1>1. ASSUME NEW c \in Clients, Request(c) PROVE TypeOK'
    <2>1. PICK op \in StoreOp : Begin(c, op, FirstStage(op), Decoded)
      BY <1>1 DEF Request, MayCall, StoreOp
    <2>2. WellFormed(At(op, FirstStage(op)))
      BY FirstStageType, AtType
    <2>3. DOMAIN client' = Clients /\ \A x \in Clients : WellFormed(client'[x])
      BY <2>1, <2>2, ClientStep DEF Begin
    <2>4. env' \in [ops : 0..MaxOps, faults : 0..MaxFaults, crashes : 0..MaxCrashes]
      BY <2>1, LocalAssumption DEF Begin, TypeOK
    <2>5. doomed' \subseteq Guids
      <3>1. op.act = "deleted" => op.guid \in Guids
        BY CallFields DEF Target
      <3> QED BY <2>1, <3>1 DEF Begin, TypeOK
    <2> QED BY <1>1, <2>1, <2>3, <2>4, <2>5 DEF Request, Begin, TypeOK
  <1>2. ASSUME NEW c \in Clients, ReadList(c) PROVE TypeOK'
    <2> DEFINE op == client[c].op
               stage == client[c].stage
               list == lists[ListOf(stage)]
    <2>0. /\ client[c].pc # "idle" /\ op \in StoreOp /\ stage \in StagesOf[op.act]
          /\ stage \in {"drop", "add", "sub", "unsub", "find"}
      BY <1>2, <1>a, InProgress, PcStage DEF ReadList
    <2>1. ASSUME NEW s \in StagesOf[op.act] \cup {"end"}, NEW err \in Errors, GoTo(c, s, err)
          PROVE  TypeOK'
      <3>1. /\ DOMAIN client' = Clients /\ \A x \in Clients : WellFormed(client'[x])
            /\ reply' \in [Clients -> Errors]
            /\ acked' \subseteq Guids /\ doomed' \subseteq Guids
        BY <2>0, <2>1, GoToType
      <3> QED BY <1>2, <3>1 DEF ReadList, TypeOK
    <2>2. CASE GoTo(c, NextStage(op, stage, "other"), "other")
      BY <2>0, <2>1, <2>2, NextStageType
    <2>3. CASE GoTo(c, "end", "nil")
      BY <2>1, <2>3
    <2>4. CASE stage = "find" /\ GoTo(c, "load", "nil")
      <3>1. "load" \in StagesOf[op.act]
        BY <2>0, <2>4, CallFields DEF StagesOf, Actions
      <3> QED BY <2>1, <2>4, <3>1
    <2>5. CASE /\ list \notin Broken /\ stage # "find"
               /\ client' = [client EXCEPT ![c] = Moved(client[c], "lock", Edited(op, stage, list))]
               /\ UNCHANGED <<reply, start, acked, doomed>>
      <3>1. list \in ListValue(ListOf(stage))
        BY <1>b, <2>5 DEF TypeOK
      <3>2. Edited(op, stage, list) \in ListValue(ListOf(stage))
        BY <2>0, <2>5, <3>1, EditedType
      <3>3. "lock" \in PcsOf[stage]
        BY <2>0, <2>5 DEF PcsOf, ReadWrite
      <3>4. DOMAIN client' = Clients /\ \A x \in Clients : WellFormed(client'[x])
        BY <2>0, <2>5, <3>2, <3>3, MoveType
      <3> QED BY <1>2, <2>5, <3>4 DEF ReadList, TypeOK
    <2> QED BY <1>2, <2>2, <2>3, <2>4, <2>5 DEF ReadList
  <1>3. ASSUME NEW c \in Clients, Lock(c) PROVE TypeOK'
    <2>1. /\ client[c].pc # "idle" /\ client[c].list \in ListValue(ListOf(client[c].stage))
          /\ "open" \in PcsOf[client[c].stage]
      BY <1>3, <1>a, InProgress, PcStage DEF Lock, PcsOf, ReadWrite
    <2>2. DOMAIN client' = Clients /\ \A x \in Clients : WellFormed(client'[x])
      BY <1>3, <2>1, MoveType DEF Lock
    <2> QED BY <1>3, <1>b, <2>2 DEF Lock, TypeOK
  <1>4. ASSUME NEW c \in Clients, OpenList(c) PROVE TypeOK'
    <2>1. /\ client[c].pc # "idle" /\ client[c].list \in ListValue(ListOf(client[c].stage))
          /\ "write" \in PcsOf[client[c].stage]
      BY <1>4, <1>a, InProgress, PcStage DEF OpenList, PcsOf, ReadWrite
    <2>2. DOMAIN client' = Clients /\ \A x \in Clients : WellFormed(client'[x])
      BY <1>4, <2>1, MoveType DEF OpenList
    <2>3. DOMAIN lists' = Lists /\ \A m \in Lists : lists'[m] \in Broken \cup ListValue(m)
      BY <1>4, <1>b, ListStep DEF OpenList, Broken
    <2> QED BY <1>4, <2>2, <2>3 DEF OpenList, TypeOK
  <1>5. ASSUME NEW c \in Clients, WriteList(c) PROVE TypeOK'
    <2> DEFINE l == ListOf(client[c].stage)
    <2>1. /\ l \in Lists /\ client[c].pc # "idle" /\ client[c].list \in ListValue(l)
      BY <1>5, <1>a, <1>b, InProgress DEF WriteList
    <2>2. PICK v \in Written(lists[l], client[c].list) : lists' = [lists EXCEPT ![l] = v]
      BY <1>5 DEF WriteList
    <2>3. v \in Broken \cup ListValue(l)
      BY <2>1, <2>2 DEF Written, Broken
    <2>4. DOMAIN lists' = Lists /\ \A m \in Lists : lists'[m] \in Broken \cup ListValue(m)
      BY <2>1, <2>2, <2>3, ListStep
    <2>5. /\ DOMAIN client' = Clients /\ \A x \in Clients : WellFormed(client'[x])
          /\ reply' \in [Clients -> Errors]
          /\ acked' \subseteq Guids /\ doomed' \subseteq Guids
      BY <1>5, <2>1, FinishType DEF WriteList
    <2> QED BY <1>5, <2>1, <2>4, <2>5 DEF WriteList, TypeOK
  <1>6. ASSUME NEW c \in Clients, Unlink(c) PROVE TypeOK'
    <2> DEFINE g == Target(client[c].op)
               err == IF files[g] = None THEN "notexist" ELSE "nil"
    <2>1. client[c].pc # "idle" /\ Finish(c, err) /\ err \in Errors
      BY <1>6 DEF Unlink
    <2> HIDE DEF err
    <2>2. /\ DOMAIN client' = Clients /\ \A x \in Clients : WellFormed(client'[x])
          /\ reply' \in [Clients -> Errors]
          /\ acked' \subseteq Guids /\ doomed' \subseteq Guids
      BY <2>1, FinishType
    <2> QED BY <1>6, <2>2 DEF Unlink, TypeOK
  <1>7. ASSUME NEW c \in Clients, CreateFile(c) PROVE TypeOK'
    <2>1. client[c].pc # "idle" /\ "fill" \in PcsOf[client[c].stage]
      BY <1>7, <1>a, PcStage DEF CreateFile, PcsOf
    <2>2. DOMAIN client' = Clients /\ \A x \in Clients : WellFormed(client'[x])
      BY <1>7, <2>1, MoveType DEF CreateFile
    <2> QED BY <1>7, <2>2 DEF CreateFile, TypeOK, Broken
  <1>8. ASSUME NEW c \in Clients, FillFile(c) PROVE TypeOK'
    <2>1. client[c].pc # "idle" /\ client[c].stage = "file" /\ client[c].op \in StoreOp
          /\ client[c].stage \in StagesOf[client[c].op.act]
      BY <1>8, <1>a, InProgress, PcStage DEF FillFile
    <2>2. client[c].op.inc.ver \in Versions
      BY <2>1, CallFields DEF StagesOf, Actions, Incident
    <2>3. files' \in [Guids -> Versions \cup {None} \cup Broken]
      BY <1>8, <2>2 DEF FillFile, TypeOK, Written, Broken
    <2>4. /\ DOMAIN client' = Clients /\ \A x \in Clients : WellFormed(client'[x])
          /\ reply' \in [Clients -> Errors]
          /\ acked' \subseteq Guids /\ doomed' \subseteq Guids
      BY <1>8, <2>1, FinishType DEF FillFile
    <2> QED BY <1>8, <2>3, <2>4 DEF FillFile, TypeOK
  <1>9. ASSUME NEW c \in Clients, LoadFile(c) PROVE TypeOK'
    <2>1. PICK err \in Errors : Finish(c, err)
      BY <1>9 DEF LoadFile
    <2>2. /\ DOMAIN client' = Clients /\ \A x \in Clients : WellFormed(client'[x])
          /\ reply' \in [Clients -> Errors]
          /\ acked' \subseteq Guids /\ doomed' \subseteq Guids
      BY <1>9, <2>1, FinishType DEF LoadFile
    <2> QED BY <1>9, <2>2 DEF LoadFile, TypeOK
  <1>10. ASSUME NEW c \in Clients, Fault(c) PROVE TypeOK'
    <2>1. /\ DOMAIN client' = Clients /\ \A x \in Clients : WellFormed(client'[x])
          /\ reply' \in [Clients -> Errors]
          /\ acked' \subseteq Guids /\ doomed' \subseteq Guids
      BY <1>10, FinishType DEF Fault
    <2>2. env' \in [ops : 0..MaxOps, faults : 0..MaxFaults, crashes : 0..MaxCrashes]
      BY <1>10, LocalAssumption DEF Fault, TypeOK
    <2> QED BY <1>10, <2>1, <2>2 DEF Fault, TypeOK
  <1>11. ASSUME Crash PROVE TypeOK'
    <2>1. DOMAIN client' = Clients /\ \A x \in Clients : WellFormed(client'[x])
      BY <1>11 DEF Crash, WellFormed
    <2>2. env' \in [ops : 0..MaxOps, faults : 0..MaxFaults, crashes : 0..MaxCrashes]
      BY <1>11, LocalAssumption DEF Crash, TypeOK
    <2> QED BY <1>11, <2>1, <2>2 DEF Crash, TypeOK
  <1>12. ASSUME UNCHANGED vars PROVE TypeOK'
    BY <1>12 DEF vars, TypeOK
  <1> QED BY <1>1, <1>2, <1>3, <1>4, <1>5, <1>6, <1>7, <1>8, <1>9, <1>10, <1>11, <1>12
          DEF Next, Step

\* Every variable of the Local store keeps its type: in particular a goroutine
\* writes back a list of the kind it read.
THEOREM TypeCorrect == Spec => []TypeOK
  BY TypeInit, TypeStep, PTL DEF Spec

-----------------------------------------------------------------------------
(* The lists stay whole *)

\* Between Lock and the end of the write a client holds the mutex of its list,
\* and between the opening and the write the list's file is empty: so nobody
\* writes over anything but an empty file.
LockInv ==
    /\ \A c \in Clients : client[c].pc \in {"open", "write"} => mutex[ListOf(client[c].stage)] = c
    /\ \A c \in Clients : client[c].pc = "write" => lists[ListOf(client[c].stage)] = Truncated
    /\ ListsWhole

\* A step that leaves lists and mutexes alone, after which no other client than
\* before is about to open or to write a list, keeps LockInv.
LEMMA LockInvFrame ==
    ASSUME LockInv, lists' = lists, mutex' = mutex,
           env.crashes > 0 => env'.crashes > 0,
           \A x \in Clients : client'[x].pc \in {"open", "write"} => client'[x] = client[x],
           \A x \in Clients : client[x].pc = "write" => client'[x] = client[x]
    PROVE  LockInv'
  BY DEF LockInv, ListsWhole, Writing

\* A stage that ends leaves its client outside the write of a list, and the
\* other clients where they were.
LEMMA GoToPlace ==
    ASSUME TypeOK, NEW c \in Clients, client[c].pc # "idle",
           NEW stage \in StagesOf[client[c].op.act] \cup {"end"}, NEW err,
           GoTo(c, stage, err)
    PROVE  /\ client'[c].pc \notin {"open", "write"}
           /\ \A x \in Clients \ {c} : client'[x] = client[x]
  <1>1. client[c].op \in StoreOp
    BY InProgress DEF TypeOK
  <1>2. At(client[c].op, stage).pc \notin {"open", "write"}
    BY <1>1, AtType
  <1> QED BY <1>2 DEF GoTo, TypeOK

\* Neither does the end of a stage lead into the middle of a rewrite.
LEMMA FinishPlace ==
    ASSUME TypeOK, NEW c \in Clients, client[c].pc # "idle", NEW err, Finish(c, err)
    PROVE  /\ client'[c].pc \notin {"open", "write"}
           /\ \A x \in Clients \ {c} : client'[x] = client[x]
  <1>1. client[c].op \in StoreOp /\ client[c].stage \in StagesOf[client[c].op.act]
    BY InProgress DEF TypeOK
  <1>2. NextStage(client[c].op, client[c].stage, err) \in StagesOf[client[c].op.act] \cup {"end"}
    BY <1>1, NextStageType
  <1> QED BY <1>2, GoToPlace DEF Finish

\* Every step keeps a list that is rewritten locked by its caller.
LEMMA LockInvStep == TypeOK /\ LockInv /\ [Next]_vars => LockInv'
  <1> SUFFICES ASSUME TypeOK, LockInv, [Next]_vars PROVE LockInv'
    OBVIOUS
  <1>a. ASSUME NEW c \in Clients PROVE WellFormed(client[c])
    BY DEF TypeOK
  <1>b. \A s : ListOf(s) \in Lists
    BY DEF ListOf, Lists
  <1>c. DOMAIN client = Clients /\ DOMAIN lists = Lists /\ mutex \in [Lists -> Clients \cup {None}]
    BY DEF TypeOK
  <1>1. ASSUME NEW c \in Clients, Request(c) PROVE LockInv'
    <2>1. PICK op \in StoreOp : Begin(c, op, FirstStage(op), Decoded)
      BY <1>1 DEF Request, MayCall, StoreOp
    <2>2. At(op, FirstStage(op)).pc \notin {"open", "write"}
      BY FirstStageType, AtType
    <2>3. env'.crashes = env.crashes
      BY <2>1 DEF Begin, TypeOK
    <2> QED BY <1>1, <1>c, <2>1, <2>2, <2>3, LockInvFrame DEF Request, Begin
  <1>2. ASSUME NEW c \in Clients, ReadList(c) PROVE LockInv'
    <2> DEFINE op == client[c].op
               stage == client[c].stage
    <2>0. /\ client[c].pc = "read" /\ op \in StoreOp /\ stage \in StagesOf[op.act]
          /\ lists' = lists /\ mutex' = mutex /\ env' = env
      BY <1>2, <1>a, InProgress DEF ReadList
    <2>1. ASSUME NEW s \in StagesOf[op.act] \cup {"end"}, NEW err, GoTo(c, s, err)
          PROVE  LockInv'
      <3>1. /\ client'[c].pc \notin {"open", "write"}
            /\ \A x \in Clients \ {c} : client'[x] = client[x]
        BY <2>0, <2>1, GoToPlace
      <3> QED BY <2>0, <3>1, LockInvFrame
    <2>2. CASE GoTo(c, NextStage(op, stage, "other"), "other")
      BY <2>0, <2>1, <2>2, NextStageType
    <2>3. CASE GoTo(c, "end", "nil")
      BY <2>1, <2>3
    <2>4. CASE stage = "find" /\ GoTo(c, "load", "nil")
      <3>1. "load" \in StagesOf[op.act]
        BY <2>0, <2>4, CallFields DEF StagesOf, Actions
      <3> QED BY <2>1, <2>4, <3>1
    <2>5. ASSUME NEW list, client' = [client EXCEPT ![c] = Moved(client[c], "lock", list)]
          PROVE  LockInv'
      BY <1>c, <2>0, <2>5, LockInvFrame DEF Moved
    <2> QED BY <1>2, <2>2, <2>3, <2>4, <2>5 DEF ReadList
  <1>3. ASSUME NEW c \in Clients, Lock(c) PROVE LockInv'
    <2> DEFINE l == ListOf(client[c].stage)
    <2>1. /\ l \in Lists /\ mutex[l] = None /\ mutex' = [mutex EXCEPT ![l] = c]
          /\ lists' = lists /\ env' = env /\ client[c].pc = "lock"
          /\ client' = [client EXCEPT ![c] = Moved(client[c], "open", client[c].list)]
      BY <1>3, <1>b DEF Lock
    <2>2. /\ client'[c].pc = "open" /\ client'[c].stage = client[c].stage
          /\ \A x \in Clients \ {c} : client'[x] = client[x]
      BY <1>c, <2>1 DEF Moved
    <2>3. \A x \in Clients : client'[x].pc \in {"open", "write"} =>
                               mutex'[ListOf(client'[x].stage)] = x
      BY <1>b, <1>c, <2>1, <2>2, LocalAssumption DEF LockInv
    <2> QED BY <2>1, <2>2, <2>3 DEF LockInv, ListsWhole, Writing
  <1>4. ASSUME NEW c \in Clients, OpenList(c) PROVE LockInv'
    <2> DEFINE l == ListOf(client[c].stage)
    <2>1. /\ l \in Lists /\ lists' = [lists EXCEPT ![l] = Truncated]
          /\ mutex' = mutex /\ env' = env /\ client[c].pc = "open"
          /\ client' = [client EXCEPT ![c] = Moved(client[c], "write", client[c].list)]
      BY <1>4, <1>b DEF OpenList
    <2>2. /\ client'[c].pc = "write" /\ client'[c].stage = client[c].stage
          /\ \A x \in Clients \ {c} : client'[x] = client[x]
      BY <1>c, <2>1 DEF Moved
    <2>3. lists'[l] = Truncated /\ \A m \in Lists \ {l} : lists'[m] = lists[m]
      BY <1>c, <2>1
    <2>4. \A x \in Clients : client'[x].pc = "write" => lists'[ListOf(client'[x].stage)] = Truncated
      BY <1>b, <2>2, <2>3 DEF LockInv
    <2>5. ListsWhole'
      BY <2>1, <2>2, <2>3, LocalAssumption DEF LockInv, ListsWhole, Writing
    <2> QED BY <2>1, <2>2, <2>4, <2>5 DEF LockInv
  <1>5. ASSUME NEW c \in Clients, WriteList(c) PROVE LockInv'
    <2> DEFINE l == ListOf(client[c].stage)
    <2>1. /\ l \in Lists /\ client[c].pc = "write" /\ client[c].list \in ListValue(l)
          /\ mutex' = [mutex EXCEPT ![l] = None] /\ env' = env /\ Finish(c, "nil")
      BY <1>5, <1>a, <1>b, InProgress DEF WriteList
    <2>2. /\ client'[c].pc \notin {"open", "write"}
          /\ \A x \in Clients \ {c} : client'[x] = client[x]
      BY <2>1, FinishPlace
    <2>3. lists[l] = Truncated /\ mutex[l] = c
      BY <2>1 DEF LockInv
    <2>4. lists' = [lists EXCEPT ![l] = client[c].list]
      BY <1>5, <2>3 DEF WriteList, Written
    <2>5. client[c].list \notin Broken
      BY <2>1, LocalAssumption DEF ListValue
    <2>6. lists'[l] \notin Broken /\ \A m \in Lists \ {l} : lists'[m] = lists[m]
      BY <1>c, <2>1, <2>4, <2>5
    <2>7. \A x \in Clients \ {c} : client[x].pc \in {"open", "write"} => ListOf(client[x].stage) # l
      BY <2>3 DEF LockInv
    <2>8. \A x \in Clients : client'[x].pc \in {"open", "write"} =>
                               mutex'[ListOf(client'[x].stage)] = x
      BY <1>b, <1>c, <2>1, <2>2, <2>7 DEF LockInv
    <2>9. \A x \in Clients : client'[x].pc = "write" => lists'[ListOf(client'[x].stage)] = Truncated
      BY <1>b, <2>2, <2>6, <2>7 DEF LockInv
    <2>10. ListsWhole'
      <3>1. SUFFICES ASSUME NEW m \in Lists
                     PROVE  /\ lists'[m] # Mixed
                            /\ lists'[m] = Truncated =>
                                  env'.crashes > 0 \/ \E x \in Clients : Writing(x, m)'
        BY DEF ListsWhole
      <3>2. CASE m = l
        BY <2>6, <3>2 DEF Broken
      <3>3. CASE m # l
        <4>1. ASSUME NEW x \in Clients, Writing(x, m) PROVE Writing(x, m)'
          BY <2>2, <3>3, <4>1 DEF Writing
        <4> QED BY <2>1, <2>6, <3>3, <4>1 DEF LockInv, ListsWhole
      <3> QED BY <3>2, <3>3
    <2> QED BY <2>8, <2>9, <2>10 DEF LockInv
  <1>6. ASSUME NEW c \in Clients, Unlink(c) \/ FillFile(c) \/ LoadFile(c) PROVE LockInv'
    <2>1. /\ client[c].pc \in {"unlink", "fill", "load"}
          /\ lists' = lists /\ mutex' = mutex /\ env' = env
          /\ \E err : Finish(c, err)
      BY <1>6 DEF Unlink, FillFile, LoadFile
    <2>2. /\ client'[c].pc \notin {"open", "write"}
          /\ \A x \in Clients \ {c} : client'[x] = client[x]
      BY <2>1, FinishPlace
    <2> QED BY <2>1, <2>2, LockInvFrame
  <1>7. ASSUME NEW c \in Clients, CreateFile(c) PROVE LockInv'
    BY <1>c, <1>7, LockInvFrame DEF CreateFile, Moved
  <1>8. ASSUME NEW c \in Clients, Fault(c) PROVE LockInv'
    <2> DEFINE l == ListOf(client[c].stage)
    <2>1. /\ client[c].pc \in {"read", "open", "unlink", "create", "load"}
          /\ lists' = lists /\ l \in Lists /\ Finish(c, "other")
      BY <1>8, <1>b DEF Fault
    <2>2. /\ client'[c].pc \notin {"open", "write"}
          /\ \A x \in Clients \ {c} : client'[x] = client[x]
      BY <2>1, FinishPlace
    <2>3. env'.crashes = env.crashes
      BY <1>8 DEF Fault, TypeOK
    <2>4. CASE client[c].pc # "open"
      <3>1. mutex' = mutex
        BY <1>8, <2>4 DEF Fault
      <3> QED BY <2>1, <2>2, <2>3, <3>1, LockInvFrame
    <2>5. CASE client[c].pc = "open"
      <3>1. mutex' = [mutex EXCEPT ![l] = None] /\ mutex[l] = c
        BY <1>8, <2>5 DEF Fault, LockInv
      <3>2. \A x \in Clients : client'[x].pc \in {"open", "write"} =>
                                 mutex'[ListOf(client'[x].stage)] = x
        BY <1>b, <1>c, <2>1, <2>2, <3>1 DEF LockInv
      <3>3. \A x \in Clients : client[x].pc = "write" => client'[x] = client[x]
        BY <2>2, <2>5
      <3>4. \A x \in Clients : client'[x].pc = "write" =>
                                 lists'[ListOf(client'[x].stage)] = Truncated
        BY <2>1, <2>2 DEF LockInv
      <3>5. ListsWhole'
        BY <2>1, <2>3, <3>3 DEF LockInv, ListsWhole, Writing
      <3> QED BY <3>2, <3>4, <3>5 DEF LockInv
    <2> QED BY <2>4, <2>5
  <1>9. ASSUME Crash PROVE LockInv'
    <2>1. env'.crashes > 0 /\ lists' = lists /\ client' = [c \in Clients |-> Idle]
      BY <1>9 DEF Crash, TypeOK
    <2>2. \A c \in Clients : client'[c].pc = "idle"
      BY <2>1 DEF Idle
    <2> QED BY <2>1, <2>2 DEF LockInv, ListsWhole
  <1>10. ASSUME UNCHANGED vars PROVE LockInv'
    BY <1>10, LockInvFrame DEF vars
  <1> QED BY <1>1, <1>2, <1>3, <1>4, <1>5, <1>6, <1>7, <1>8, <1>9, <1>10 DEF Next, Step

\* persistents.json and subscribers.json are never a mixture of two writes, and
\* are undecodable only during a write or after the process died in one, however
\* many goroutines read, change and write them back.
THEOREM ListsWholeHolds == Spec => []ListsWhole
  <1>1. Init => LockInv
    <2> SUFFICES ASSUME Init PROVE LockInv
      OBVIOUS
    <2>1. \A c \in Clients : client[c].pc = "idle"
      BY DEF Init, CallInit, Idle
    <2>2. \A l \in Lists : lists[l] \notin Broken
      BY LocalAssumption DEF Init, CallInit, Empty, Shelf
    <2> QED BY <2>1, <2>2 DEF LockInv, ListsWhole, Broken
  <1>2. LockInv => ListsWhole
    BY DEF LockInv
  <1> QED BY <1>1, <1>2, LockInvStep, TypeCorrect, PTL DEF Spec

-----------------------------------------------------------------------------
(* Where an acknowledged incident is *)

\* c's call writes the incident g.
Writes(c, g) == /\ client[c].op # None /\ client[c].op.act \in {"created", "updated"}
                /\ Target(client[c].op) = g

\* c has read the persistent incidents and not yet written them back.
HoldsList(c) == /\ client[c].pc \in {"lock", "open", "write"}
                /\ ListOf(client[c].stage) = "persistents"

Persistents == lists["persistents"]

\* g is among the persistent incidents, and will still be once those who are
\* about to write them have.
InList(g) == /\ Persistents \notin Broken => Persistents[g] # None
             /\ \A c \in Clients : HoldsList(c) => client[c].list[g] # None

InFile(g) == files[g] \in Versions

Undisturbed == ~raced /\ env.faults = 0 /\ env.crashes = 0

\* What a call has done so far: the list it is about to write has the incident
\* it adds, the file it is about to fill is empty and still its own, and the
\* incident it deletes was named when it began.
Underway(c) ==
    /\ HoldsList(c) /\ client[c].stage = "add" => client[c].list[Target(client[c].op)] # None
    /\ client[c].pc = "fill" => c \in linked /\ files[Target(client[c].op)] = Truncated
    /\ client[c].op # None /\ client[c].op.act = "deleted" => Target(client[c].op) \in doomed

\* The inductive invariant: nothing overlapped, every call is where Underway
\* says, and an incident nobody is writing is in its file or, for good, in the
\* list.
KeptInv ==
    Undisturbed =>
        /\ ~Overlap
        /\ \A c \in Clients : Underway(c)
        /\ \A g \in acked \ doomed :
              (\A c \in Clients : ~Writes(c, g)) => InFile(g) \/ InList(g)

\* In S3 a list is an object, put as a whole and without a lock.
Whole == /\ \A l \in Lists : lists[l] \notin Broken
         /\ \A c \in Clients : client[c].pc \notin {"lock", "open", "fill"}

Sound == /\ TypeOK
         /\ kind \in {"local", "s3"}
         /\ kind = "local" => LockInv
         /\ kind = "s3" => Whole

-----------------------------------------------------------------------------
(* S3 keeps its types *)

\* A call goes on with a stage of its own, or ends.
LEMMA S3NextType ==
    ASSUME NEW op \in StoreOp, NEW stage \in StagesOf[op.act], NEW err
    PROVE  S3NextStage(op, stage, err) \in StagesOf[op.act] \cup {"end"}
  <1>1. stage = "load" => op.act = "read"
    BY CallFields DEF StagesOf, Actions
  <1>2. op.act = "read" => "find" \in StagesOf[op.act]
    BY DEF StagesOf
  <1> QED BY <1>1, <1>2, NextStageType DEF S3NextStage

\* Between two calls a caller is Idle, and it is not during one.
LEMMA IdleCall ==
    ASSUME NEW k, WellFormed(k)
    PROVE  k.pc = "idle" <=> k.op = None
  <1>1. CASE k = Idle
    BY <1>1 DEF Idle
  <1>2. CASE k # Idle
    <2>1. k.op \in StoreOp /\ k.stage \in StagesOf[k.op.act] /\ k.pc \in PcsOf[k.stage]
      BY <1>2 DEF WellFormed
    <2>2. k.stage \in {"add", "file", "drop", "unlink", "sub", "unsub", "find", "load"}
      BY <2>1, CallFields DEF StagesOf, Actions
    <2>3. k.pc # "idle"
      BY <2>1, <2>2 DEF PcsOf, ReadWrite
    <2> QED BY <2>1, <2>3, CallAssumption
  <1> QED BY <1>1, <1>2

\* A stage of S3 is over.
LEMMA S3FinishType ==
    ASSUME TypeOK, Whole, NEW c \in Clients, client[c].pc # "idle", NEW err \in Errors,
           S3Finish(c, err)
    PROVE  /\ DOMAIN client' = Clients /\ \A x \in Clients : WellFormed(client'[x])
           /\ reply' \in [Clients -> Errors]
           /\ acked' \subseteq Guids /\ doomed' \subseteq Guids
           /\ \A x \in Clients : client'[x].pc \notin {"lock", "open", "fill"}
  <1> DEFINE k == client[c]
             s == S3NextStage(k.op, k.stage, err)
             e == IF k.stage = "find" THEN "notexist" ELSE err
  <1>1. k.op \in StoreOp /\ k.stage \in StagesOf[k.op.act]
    BY InProgress DEF TypeOK
  <1>2. s \in StagesOf[k.op.act] \cup {"end"}
    BY <1>1, S3NextType
  <1>3. GoTo(c, s, e) /\ e \in Errors
    BY DEF S3Finish, Errors
  <1>4. At(k.op, s).pc \notin {"lock", "open", "fill"}
    BY DEF At, Entry
  <1>5. client' = [client EXCEPT ![c] = At(k.op, s)]
    BY <1>3 DEF GoTo
  <1> HIDE DEF s, e
  <1> QED BY <1>2, <1>3, <1>4, <1>5, GoToType DEF Whole, TypeOK

\* What a request to the bucket changes keeps its type.
LEMMA S3EffectType ==
    ASSUME TypeOK, Whole, NEW c \in Clients, Effect(c)
    PROVE  /\ files' \in [Guids -> Versions \cup {None} \cup Broken]
           /\ DOMAIN lists' = Lists /\ \A l \in Lists : lists'[l] \in Broken \cup ListValue(l)
           /\ \A l \in Lists : lists'[l] \notin Broken
  <1> DEFINE k == client[c]
  <1>1. WellFormed(k)
    BY DEF TypeOK
  <1>2. CASE k.pc = "write"
    <2>1. files' = files /\ lists' = [lists EXCEPT ![ListOf(k.stage)] = k.list]
      BY <1>2 DEF Effect
    <2>2. k.list \in ListValue(ListOf(k.stage)) /\ ListOf(k.stage) \in Lists
      BY <1>1, <1>2, InProgress DEF ListOf, Lists
    <2>3. k.list \notin Broken
      BY <2>2, LocalAssumption DEF ListValue
    <2> QED BY <2>1, <2>2, <2>3 DEF TypeOK, Whole
  <1>3. CASE k.pc = "create"
    <2>1. k.op \in StoreOp /\ k.op.act \in {"created", "updated"}
      BY <1>1, <1>3, InProgress, PcStage, CallFields DEF StagesOf, Actions
    <2>2. k.op.inc.ver \in Versions
      BY <2>1, CallFields DEF Incident
    <2>3. files' = [files EXCEPT ![Target(k.op)] = k.op.inc.ver] /\ lists' = lists
      BY <1>3 DEF Effect
    <2> QED BY <2>2, <2>3 DEF TypeOK, Whole
  <1>4. CASE k.pc = "unlink"
    BY <1>4 DEF Effect, TypeOK, Whole
  <1> QED BY <1>2, <1>3, <1>4 DEF Effect

\* The list changed by S3 keeps its type.
LEMMA S3ChangeType ==
    ASSUME TypeOK, Whole, NEW c \in Clients, client[c].pc = "read", client[c].stage # "find",
           NEW list \in ListValue(ListOf(client[c].stage)), Change(c, list)
    PROVE  /\ DOMAIN client' = Clients /\ \A x \in Clients : WellFormed(client'[x])
           /\ \A x \in Clients : client'[x].pc \notin {"lock", "open", "fill"}
  <1> DEFINE k == client[c]
             new == Edited(k.op, k.stage, list)
  <1>1. WellFormed(k)
    BY DEF TypeOK
  <1>2. k.op \in StoreOp /\ k.stage \in StagesOf[k.op.act] /\ k.stage \in {"drop", "add", "sub", "unsub"}
    BY <1>1, InProgress, PcStage
  <1>3. new \in ListValue(ListOf(k.stage))
    BY <1>2, EditedType
  <1>4. "write" \in PcsOf[k.stage]
    BY <1>2 DEF PcsOf, ReadWrite
  <1>5. client' = [client EXCEPT ![c] = Moved(k, "write", new)]
    BY DEF Change
  <1>6. Moved(k, "write", new).pc = "write"
    BY DEF Moved
  <1> HIDE DEF new
  <1> QED BY <1>3, <1>4, <1>5, <1>6, MoveType DEF Whole, TypeOK

\* A step of an S3 store keeps the types.
LEMMA S3TypeStep ==
    TypeOK /\ Whole /\ S3Next /\ UNCHANGED <<linked, mutex>> => TypeOK' /\ Whole'
  <1> SUFFICES ASSUME TypeOK, Whole, S3Next, UNCHANGED <<linked, mutex>> PROVE TypeOK' /\ Whole'
    OBVIOUS
  <1> USE DEF Errors
  <1>a. ASSUME NEW c \in Clients PROVE WellFormed(client[c])
    BY DEF TypeOK
  <1>b. \A s : ListOf(s) \in Lists
    BY DEF ListOf, Lists
  <1>1. ASSUME NEW c \in Clients, S3Request(c) PROVE TypeOK' /\ Whole'
    <2>1. PICK op \in StoreOp : Begin(c, op, S3First(op), S3Content)
      BY <1>1 DEF S3Request, MayCall, StoreOp
    <2>2. S3First(op) \in StagesOf[op.act]
      BY FirstStageType DEF S3First, StagesOf
    <2>3. WellFormed(At(op, S3First(op))) /\ At(op, S3First(op)).pc \notin {"lock", "open", "fill"}
      BY <2>2, AtType DEF At, Entry
    <2>4. /\ DOMAIN client' = Clients /\ \A x \in Clients : WellFormed(client'[x])
          /\ \A x \in Clients : client'[x].pc \notin {"lock", "open", "fill"}
      BY <2>1, <2>3, ClientStep DEF Begin, Whole, TypeOK
    <2>5. env' \in [ops : 0..MaxOps, faults : 0..MaxFaults, crashes : 0..MaxCrashes]
      BY <2>1, LocalAssumption DEF Begin, TypeOK
    <2>6. doomed' \subseteq Guids
      <3>1. op.act = "deleted" => op.guid \in Guids
        BY CallFields DEF Target
      <3> QED BY <2>1, <3>1 DEF Begin, TypeOK
    <2> QED BY <2>1, <2>4, <2>5, <2>6 DEF Begin, TypeOK, Whole
  <1>2. ASSUME NEW c \in Clients, GetList(c) PROVE TypeOK' /\ Whole'
    <2> DEFINE k == client[c]
               list == lists[ListOf(k.stage)]
    <2>1. k.pc = "read" /\ UNCHANGED <<files, lists, env>>
      BY <1>2 DEF GetList
    <2>2. CASE S3Finish(c, "notexist")
      BY <2>1, <2>2, S3FinishType DEF TypeOK, Whole
    <2>3. CASE GoTo(c, "end", "nil")
      <3>1. At(k.op, "end").pc \notin {"lock", "open", "fill"}
        BY DEF At, Entry
      <3>2. \A x \in Clients : client'[x].pc \notin {"lock", "open", "fill"}
        BY <2>3, <3>1 DEF GoTo, Whole, TypeOK
      <3> QED BY <2>1, <2>3, <3>2, GoToType DEF TypeOK, Whole
    <2>4. CASE k.stage # "find" /\ Change(c, list)
      <3>1. list \in ListValue(ListOf(k.stage))
        BY <1>b DEF TypeOK, Whole
      <3> QED BY <2>1, <2>4, <3>1, S3ChangeType DEF Change, TypeOK, Whole
    <2> QED BY <1>2, <2>2, <2>3, <2>4 DEF GetList
  <1>3. ASSUME NEW c \in Clients, GetIncident(c) PROVE TypeOK' /\ Whole'
    <2>1. PICK err \in Errors : S3Finish(c, err)
      BY <1>3 DEF GetIncident
    <2> QED BY <1>3, <2>1, S3FinishType DEF GetIncident, TypeOK, Whole
  <1>4. ASSUME NEW c \in Clients, PutObject(c) PROVE TypeOK' /\ Whole'
    <2>1. client[c].pc # "idle"
      BY <1>4 DEF PutObject, Effect
    <2> QED BY <1>4, <2>1, S3FinishType, S3EffectType DEF PutObject, TypeOK, Whole
  <1>5. ASSUME NEW c \in Clients, S3Fault(c) PROVE TypeOK' /\ Whole'
    <2>1. env' \in [ops : 0..MaxOps, faults : 0..MaxFaults, crashes : 0..MaxCrashes]
      BY <1>5, LocalAssumption DEF S3Fault, TypeOK
    <2>2. /\ files' \in [Guids -> Versions \cup {None} \cup Broken]
          /\ DOMAIN lists' = Lists /\ \A l \in Lists : lists'[l] \in Broken \cup ListValue(l)
          /\ \A l \in Lists : lists'[l] \notin Broken
      <3>1. CASE Effect(c)
        BY <3>1, S3EffectType
      <3>2. CASE UNCHANGED <<files, lists, listed>>
        BY <3>2 DEF TypeOK, Whole
      <3> QED BY <1>5, <3>1, <3>2 DEF S3Fault
    <2>3. /\ DOMAIN client' = Clients /\ \A x \in Clients : WellFormed(client'[x])
          /\ reply' \in [Clients -> Errors]
          /\ acked' \subseteq Guids /\ doomed' \subseteq Guids
          /\ \A x \in Clients : client'[x].pc \notin {"lock", "open", "fill"}
      <3>1. CASE client[c].stage = "sub" /\ client[c].pc = "read"
        <4>1. {} \in ListValue(ListOf(client[c].stage)) /\ Change(c, {})
          BY <1>5, <3>1 DEF S3Fault, ListValue, ListOf
        <4> QED BY <3>1, <4>1, S3ChangeType DEF Change, TypeOK
      <3>2. CASE ~(client[c].stage = "sub" /\ client[c].pc = "read")
        BY <1>5, <3>2, S3FinishType DEF S3Fault
      <3> QED BY <3>1, <3>2
    <2> QED BY <2>1, <2>2, <2>3 DEF TypeOK, Whole
  <1>6. ASSUME S3Crash PROVE TypeOK' /\ Whole'
    BY <1>6, LocalAssumption DEF S3Crash, TypeOK, Whole, WellFormed, Idle
  <1> QED BY <1>1, <1>2, <1>3, <1>4, <1>5, <1>6 DEF S3Next

-----------------------------------------------------------------------------
(* What one call does to the incidents of the others *)

\* The incidents c's call does not write, and nobody deletes, stay where they are.
Spared(c) ==
    \A g \in Guids : ~Writes(c, g) /\ g \notin doomed =>
        (InFile(g) => InFile(g)') /\ (InList(g) => InList(g)')

\* A call that ends has put the incident it writes in its place.
Delivered(c) ==
    \A g \in Guids : Writes(c, g) /\ client'[c].op = None => InFile(g)' \/ InList(g)'

\* Nobody overlaps: lists and incidents have one caller at a time.
LEMMA OneAtATime ==
    ASSUME ~Overlap, NEW c \in Clients, NEW d \in Clients \ {c}
    PROVE  /\ ~(HoldsList(c) /\ HoldsList(d))
           /\ client[c].op # None /\ client[c].op.act \notin {"subscribe", "unsubscribe"}
              /\ client[d].op # None /\ client[d].op.act \notin {"subscribe", "unsubscribe"}
                 => Target(client[c].op) # Target(client[d].op)
  <1>1. Subject(c) \cap Subject(d) = {} /\ Holds(c) \cap Holds(d) = {}
    BY DEF Overlap
  <1> QED BY <1>1 DEF Subject, Holds, HoldsList

\* Who does not overlap reads a list that is whole.
LEMMA ReadsWhole ==
    ASSUME Sound, ~Overlap, NEW c \in Clients, client[c].pc = "read"
    PROVE  lists[ListOf(client[c].stage)] \notin Broken
  <1>1. ListOf(client[c].stage) \in Lists
    BY DEF ListOf, Lists
  <1>2. lists[ListOf(client[c].stage)] # Truncated
    BY DEF Overlap, MeetsEmpty
  <1> QED BY <1>1, <1>2 DEF Sound, Whole, LockInv, ListsWhole, Broken

\* A step of one call that spares the others' incidents and delivers its own
\* keeps the invariant.
LEMMA Keeps ==
    ASSUME Undisturbed, TypeOK, KeptInv, ~Overlap', NEW c \in Clients,
           \A x \in Clients \ {c} : client'[x] = client[x],
           client'[c].op \in {client[c].op, None},
           doomed' = doomed,
           \A g \in acked' : g \in acked \/ (Writes(c, g) /\ client'[c].op = None),
           acked' \subseteq Guids,
           Underway(c)',
           \A x \in Clients \ {c} : client[x].pc = "fill" =>
               /\ x \in linked => x \in linked'
               /\ files'[Target(client[x].op)] = files[Target(client[x].op)],
           Spared(c), Delivered(c)
    PROVE  KeptInv'
  <1>1. \A x \in Clients : Underway(x)
    BY DEF KeptInv
  <1>2. \A x \in Clients \ {c} : Underway(x)'
    BY <1>1 DEF Underway, HoldsList
  <1>3. ASSUME NEW g \in acked' \ doomed', \A x \in Clients : ~Writes(x, g)'
        PROVE  InFile(g)' \/ InList(g)'
    <2>1. g \in Guids /\ g \notin doomed
      OBVIOUS
    <2>2. CASE Writes(c, g)
      <3>1. client'[c].op = None
        BY <1>3, <2>2 DEF Writes
      <3> QED BY <2>1, <2>2, <3>1 DEF Delivered
    <2>3. CASE ~Writes(c, g)
      <3>1. g \in acked \ doomed
        BY <2>3
      <3>2. \A x \in Clients : ~Writes(x, g)
        BY <1>3, <2>3 DEF Writes
      <3>3. InFile(g) \/ InList(g)
        BY <3>1, <3>2 DEF KeptInv
      <3> QED BY <2>1, <2>3, <3>3 DEF Spared
    <2> QED BY <2>2, <2>3
  <1> QED BY <1>2, <1>3 DEF KeptInv

\* Where GoTo leaves a call.
LEMMA Goes ==
    ASSUME TypeOK, NEW c \in Clients, client[c].pc # "idle",
           NEW stage \in StagesOf[client[c].op.act] \cup {"end"}, NEW err \in Errors,
           GoTo(c, stage, err)
    PROVE  /\ \A x \in Clients \ {c} : client'[x] = client[x]
           /\ client'[c].op = IF stage = "end" THEN None ELSE client[c].op
           /\ client'[c].pc \notin {"lock", "open", "write", "fill"}
           /\ doomed' = doomed
           /\ \A g \in acked' : g \in acked \/ (Writes(c, g) /\ client'[c].op = None)
           /\ acked' \subseteq Guids
           /\ ~HoldsList(c)'
  <1> DEFINE k == client[c]
  <1>1. WellFormed(k) /\ k.op \in StoreOp
    BY InProgress DEF TypeOK
  <1>2. client' = [client EXCEPT ![c] = At(k.op, stage)]
    BY DEF GoTo
  <1>3. client'[c] = At(k.op, stage) /\ \A x \in Clients \ {c} : client'[x] = client[x]
    BY <1>2 DEF TypeOK
  <1>4. At(k.op, stage).pc \notin {"lock", "open", "write", "fill"}
    BY DEF At, Entry
  <1>5. client'[c].op = IF stage = "end" THEN None ELSE k.op
    BY <1>3 DEF At
  <1>6. \A g \in acked' : g \in acked \/ (Writes(c, g) /\ client'[c].op = None)
    BY <1>1, <1>5, CallAssumption DEF GoTo, Writes
  <1>7. acked' \subseteq Guids /\ doomed' = doomed
    BY GoToType DEF GoTo
  <1>8. ~HoldsList(c)'
    BY <1>3, <1>4 DEF HoldsList
  <1> QED BY <1>3, <1>4, <1>5, <1>6, <1>7, <1>8

\* A call that holds no list and fills no file has done nothing yet.
LEMMA NothingUnderway ==
    ASSUME NEW c \in Clients, Underway(c), client'[c].op \in {client[c].op, None},
           doomed' = doomed, client'[c].pc \notin {"lock", "open", "write", "fill"}
    PROVE  Underway(c)'
  BY DEF Underway, HoldsList

\* Files and lists stay as they are, and c holds no list now.
LEMMA Untouched ==
    ASSUME NEW c \in Clients, \A x \in Clients \ {c} : client'[x] = client[x],
           ~HoldsList(c)', files' = files, Persistents' = Persistents
    PROVE  Spared(c)
  <1>1. \A x \in Clients : HoldsList(x)' => HoldsList(x) /\ client'[x] = client[x]
    BY DEF HoldsList
  <1> QED BY <1>1 DEF Spared, InFile, InList

\* A call that changes nothing goes on with another stage, or ends without
\* having written an incident.
LEMMA Passes ==
    ASSUME Undisturbed, TypeOK, KeptInv, ~Overlap', NEW c \in Clients, client[c].pc # "idle",
           NEW stage \in StagesOf[client[c].op.act] \cup {"end"}, NEW err \in Errors,
           GoTo(c, stage, err), UNCHANGED <<files, lists, linked>>,
           stage = "end" => client[c].op.act \notin {"created", "updated"}
    PROVE  KeptInv'
  <1>1. /\ \A x \in Clients \ {c} : client'[x] = client[x]
        /\ client'[c].op = IF stage = "end" THEN None ELSE client[c].op
        /\ client'[c].pc \notin {"lock", "open", "write", "fill"}
        /\ doomed' = doomed
        /\ \A g \in acked' : g \in acked \/ (Writes(c, g) /\ client'[c].op = None)
        /\ acked' \subseteq Guids
        /\ ~HoldsList(c)'
    BY Goes
  <1>2. Underway(c)'
    BY <1>1, NothingUnderway DEF KeptInv
  <1>3. Spared(c)
    BY <1>1, Untouched DEF Persistents
  <1>4. Delivered(c)
    BY <1>1 DEF Delivered, Writes
  <1>5. client'[c].op \in {client[c].op, None}
    BY <1>1
  <1> QED BY <1>1, <1>2, <1>3, <1>4, <1>5, Keeps


-----------------------------------------------------------------------------
(* A call begins *)

\* A call begins: it has done nothing yet, and from now on its incident is
\* one that somebody writes.
LEMMA CallBegins ==
    ASSUME Undisturbed, TypeOK, KeptInv, ~Overlap', NEW c \in Clients, NEW op \in StoreOp,
           NEW stage, NEW content, Begin(c, op, stage, content), linked' = linked
    PROVE  KeptInv'
  <1>1. client[c].op = None
    BY IdleCall DEF Begin, TypeOK
  <1>2. /\ client'[c] = At(op, stage) /\ \A x \in Clients \ {c} : client'[x] = client[x]
        /\ files' = files /\ lists' = lists /\ acked' = acked
        /\ doomed' = IF op.act = "deleted" THEN doomed \cup {op.guid} ELSE doomed
    BY DEF Begin, TypeOK
  <1>3. client'[c].pc \notin {"lock", "open", "write", "fill"} /\ client'[c].op \in {op, None}
    BY <1>2 DEF At, Entry
  <1>4. \A x \in Clients : Underway(x)
    BY DEF KeptInv
  <1>5. Underway(c)'
    <2>1. op.act = "deleted" => Target(op) \in doomed'
      BY <1>2 DEF Target
    <2> QED BY <1>3, <2>1 DEF Underway, HoldsList
  <1>6. \A x \in Clients \ {c} : Underway(x)'
    BY <1>2, <1>4 DEF Underway, HoldsList
  <1>7. ASSUME NEW g \in acked' \ doomed', \A x \in Clients : ~Writes(x, g)'
        PROVE  InFile(g)' \/ InList(g)'
    <2>1. g \in acked \ doomed
      BY <1>2
    <2>2. \A x \in Clients : ~Writes(x, g)
      BY <1>1, <1>2, <1>7 DEF Writes
    <2>3. InFile(g) \/ InList(g)
      BY <2>1, <2>2 DEF KeptInv
    <2>4. \A x \in Clients : HoldsList(x)' => HoldsList(x) /\ client'[x] = client[x]
      BY <1>2, <1>3 DEF HoldsList
    <2> QED BY <1>2, <2>3, <2>4 DEF InFile, InList, Persistents
  <1> QED BY <1>5, <1>6, <1>7 DEF KeptInv

-----------------------------------------------------------------------------
(* A list is read, changed and written back *)

\* The incidents a call must not touch are not its target.
LEMMA NotTarget ==
    ASSUME KeptInv, Undisturbed, NEW c \in Clients, client[c].op # None,
           client[c].op.act \in {"created", "updated", "deleted"},
           NEW g, ~Writes(c, g), g \notin doomed
    PROVE  Target(client[c].op) # g
  BY DEF Writes, KeptInv, Underway

\* What the calls that hold the persistent incidents are for.
LEMMA HolderActs ==
    ASSUME TypeOK, NEW c \in Clients,
           client[c].pc \in {"read", "lock", "open", "write"}, client[c].stage # "find",
           ListOf(client[c].stage) = "persistents"
    PROVE  /\ client[c].op \in StoreOp /\ client[c].op # None
           /\ client[c].op.act \in {"created", "updated", "deleted"}
           /\ client[c].stage \in {"drop", "add"}
           /\ client[c].stage = "add" => client[c].op.act \in {"created", "updated"}
           /\ Target(client[c].op) \in Guids
  <1>1. WellFormed(client[c])
    BY DEF TypeOK
  <1>2. /\ client[c].op \in StoreOp /\ client[c].stage \in StagesOf[client[c].op.act]
        /\ client[c].stage \in {"drop", "add"}
    BY <1>1, InProgress, PcStage DEF ListOf
  <1>3. /\ client[c].op.act \in {"created", "updated", "deleted"}
        /\ client[c].stage = "add" => client[c].op.act \in {"created", "updated"}
    BY <1>2, CallFields DEF StagesOf, Actions
  <1> QED BY <1>2, <1>3, CallFields, CallAssumption

\* The list is read and changed.
LEMMA Reads ==
    ASSUME Undisturbed, Sound, KeptInv, ~Overlap', NEW c \in Clients,
           client[c].pc = "read", client[c].stage # "find", NEW pc \in {"lock", "write"},
           client' = [client EXCEPT ![c] = Moved(client[c], pc,
               Edited(client[c].op, client[c].stage, lists[ListOf(client[c].stage)]))],
           UNCHANGED <<files, lists, linked, acked, doomed>>
    PROVE  KeptInv'
  <1> DEFINE k == client[c]
             new == Edited(k.op, k.stage, lists[ListOf(k.stage)])
  <1>0. TypeOK
    BY DEF Sound
  <1>1. /\ client'[c] = Moved(k, pc, new)
        /\ \A x \in Clients \ {c} : client'[x] = client[x]
    BY <1>0 DEF TypeOK
  <1>2. /\ client'[c].op = k.op /\ client'[c].stage = k.stage
        /\ client'[c].pc = pc /\ client'[c].list = new
    BY <1>1 DEF Moved
  <1>3. ListOf(k.stage) = "persistents" =>
            /\ k.op \in StoreOp /\ k.op # None /\ k.op.act \in {"created", "updated", "deleted"}
            /\ k.stage \in {"drop", "add"} /\ Target(k.op) \in Guids
            /\ k.stage = "add" => k.op.act \in {"created", "updated"}
    BY <1>0, HolderActs
  <1>4. ListOf(k.stage) = "persistents" => Persistents \notin Broken /\ Persistents \in Shelf
    <2>1. lists[ListOf(k.stage)] \notin Broken
      BY ReadsWhole DEF KeptInv
    <2> QED BY <1>0, <2>1 DEF Persistents, TypeOK, Lists, ListValue
  <1>5. ASSUME ListOf(k.stage) = "persistents", k.stage = "add" PROVE new[Target(k.op)] # None
    <2>1. k.op.inc.ver \in Versions
      BY <1>3, <1>5, CallFields DEF Incident
    <2>2. new = [Persistents EXCEPT ![Target(k.op)] = k.op.inc.ver]
      BY <1>5 DEF Edited, Persistents
    <2>3. new[Target(k.op)] = k.op.inc.ver
      BY <1>3, <1>4, <1>5, <2>2 DEF Shelf
    <2> QED BY <2>1, <2>3, NoneAssumption
  <1>6. ASSUME ListOf(k.stage) = "persistents", NEW g \in Guids, ~Writes(c, g), g \notin doomed
        PROVE  new[g] = Persistents[g]
    <2>1. Target(k.op) # g
      BY <1>3, <1>6, NotTarget
    <2>2. \/ new = [Persistents EXCEPT ![Target(k.op)] = k.op.inc.ver]
          \/ new = [Persistents EXCEPT ![Target(k.op)] = None]
      BY <1>3, <1>6 DEF Edited, Persistents
    <2> QED BY <1>4, <1>6, <2>1, <2>2 DEF Shelf
  <1> HIDE DEF new
  <1>7. Underway(c)'
    <2>1. Underway(c)
      BY DEF KeptInv
    <2> QED BY <1>2, <1>5, <2>1 DEF Underway, HoldsList
  <1>8. Spared(c)
    <2> SUFFICES ASSUME NEW g \in Guids, ~Writes(c, g), g \notin doomed, InList(g)
                 PROVE  InList(g)'
      BY DEF Spared, InFile
    <2>1. ASSUME HoldsList(c)' PROVE new[g] # None
      BY <1>2, <1>4, <1>6, <2>1 DEF HoldsList, InList
    <2>2. ASSUME NEW x \in Clients, HoldsList(x)' PROVE client'[x].list[g] # None
      BY <1>1, <1>2, <2>1, <2>2 DEF HoldsList, InList
    <2> QED BY <2>2 DEF InList, Persistents
  <1>9. Delivered(c)
    BY <1>2 DEF Delivered, Writes
  <1>10. /\ client'[c].op \in {client[c].op, None}
         /\ acked' \subseteq Guids
    BY <1>0, <1>2 DEF TypeOK
  <1> QED BY <1>0, <1>1, <1>7, <1>8, <1>9, <1>10, Keeps

\* The call goes on with the same list: it takes the mutex, or empties the file.
LEMMA HoldsOn ==
    ASSUME Undisturbed, TypeOK, KeptInv, ~Overlap', NEW c \in Clients,
           client[c].pc \in {"lock", "open"}, NEW pc \in {"open", "write"},
           client' = [client EXCEPT ![c] = Moved(client[c], pc, client[c].list)],
           UNCHANGED <<files, linked, acked, doomed>>,
           \/ Persistents' = Persistents
           \/ Persistents' = Truncated
    PROVE  KeptInv'
  <1> DEFINE k == client[c]
  <1>1. /\ client'[c] = Moved(k, pc, k.list)
        /\ \A x \in Clients \ {c} : client'[x] = client[x]
    BY DEF TypeOK
  <1>2. /\ client'[c].op = k.op /\ client'[c].stage = k.stage
        /\ client'[c].pc = pc /\ client'[c].list = k.list
    BY <1>1 DEF Moved
  <1>3. Underway(c)'
    <2>1. Underway(c)
      BY DEF KeptInv
    <2> QED BY <1>2, <2>1 DEF Underway, HoldsList
  <1>4. Spared(c)
    <2>1. \A x \in Clients : HoldsList(x)' => HoldsList(x) /\ client'[x].list = client[x].list
      BY <1>1, <1>2 DEF HoldsList
    <2> QED BY <2>1 DEF Spared, InFile, InList, Broken
  <1>5. Delivered(c)
    BY <1>2 DEF Delivered, Writes
  <1>6. client'[c].op \in {client[c].op, None} /\ acked' \subseteq Guids
    BY <1>2 DEF TypeOK
  <1> QED BY <1>1, <1>3, <1>4, <1>5, <1>6, Keeps

\* The list is written back over an empty file, or as an object.
LEMMA WritesBack ==
    ASSUME Undisturbed, TypeOK, KeptInv, ~Overlap', NEW c \in Clients, client[c].pc = "write",
           lists' = [lists EXCEPT ![ListOf(client[c].stage)] = client[c].list],
           Finish(c, "nil"), UNCHANGED <<files, linked>>
    PROVE  KeptInv'
  <1> DEFINE k == client[c]
             s == NextStage(k.op, k.stage, "nil")
             l == ListOf(k.stage)
  <1>1. /\ WellFormed(k) /\ k.op \in StoreOp /\ k.stage \in StagesOf[k.op.act]
        /\ k.stage \in {"drop", "add", "sub", "unsub"}
        /\ k.list \in ListValue(l)
    BY InProgress, PcStage DEF TypeOK
  <1>2. s \in StagesOf[k.op.act] \cup {"end"} /\ GoTo(c, s, "nil")
    BY <1>1, NextStageType DEF Finish
  <1>3. /\ \A x \in Clients \ {c} : client'[x] = client[x]
        /\ client'[c].op = IF s = "end" THEN None ELSE k.op
        /\ client'[c].pc \notin {"lock", "open", "write", "fill"}
        /\ doomed' = doomed
        /\ \A g \in acked' : g \in acked \/ (Writes(c, g) /\ client'[c].op = None)
        /\ acked' \subseteq Guids
        /\ ~HoldsList(c)'
    BY <1>2, Goes DEF Errors
  <1>4. s = "end" /\ k.op.act \in {"created", "updated"} => k.stage = "add"
    BY <1>1 DEF NextStage, StagesOf
  <1> HIDE DEF s
  <1>5. Underway(c)'
    BY <1>3, NothingUnderway DEF KeptInv
  <1>6. Persistents' = IF l = "persistents" THEN k.list ELSE Persistents
    BY DEF TypeOK, Lists, Persistents, ListOf
  <1>7. l = "persistents" => HoldsList(c) /\ \A x \in Clients : ~HoldsList(x)'
    <2>1. ASSUME l = "persistents" PROVE HoldsList(c)
      BY <2>1 DEF HoldsList
    <2>2. ASSUME l = "persistents", NEW x \in Clients \ {c} PROVE ~HoldsList(x)'
      <3>1. ~HoldsList(x)
        BY <2>1, <2>2, OneAtATime DEF KeptInv
      <3> QED BY <1>3, <3>1 DEF HoldsList
    <2> QED BY <1>3, <2>1, <2>2
  <1>8. Spared(c)
    <2>1. CASE l = "persistents"
      BY <1>6, <1>7, <2>1 DEF Spared, InFile, InList
    <2>2. CASE l # "persistents"
      BY <1>3, <1>6, <2>2, Untouched
    <2> QED BY <2>1, <2>2
  <1>9. Delivered(c)
    <2> SUFFICES ASSUME NEW g \in Guids, Writes(c, g), client'[c].op = None PROVE InList(g)'
      BY DEF Delivered
    <2>1. s = "end" /\ k.stage = "add" /\ Target(k.op) = g
      BY <1>1, <1>3, <1>4 DEF Writes
    <2>2. l = "persistents"
      BY <2>1 DEF ListOf
    <2>3. k.list[g] # None
      BY <1>7, <2>1, <2>2 DEF KeptInv, Underway
    <2> QED BY <1>6, <1>7, <2>2, <2>3 DEF InList
  <1>10. client'[c].op \in {client[c].op, None}
    BY <1>3
  <1> QED BY <1>3, <1>5, <1>8, <1>9, <1>10, Keeps


-----------------------------------------------------------------------------
(* The file of an incident *)

\* The calls at the files write or delete the incident.
LEMMA FileActs ==
    ASSUME TypeOK, NEW c \in Clients, client[c].pc \in {"unlink", "create", "fill"}
    PROVE  /\ client[c].op \in StoreOp /\ client[c].op # None
           /\ client[c].stage \in StagesOf[client[c].op.act]
           /\ client[c].op.act \in {"created", "updated", "deleted"}
           /\ client[c].pc = "unlink" => client[c].stage = "unlink"
           /\ client[c].pc # "unlink" => /\ client[c].stage = "file"
                                         /\ client[c].op.act \in {"created", "updated"}
                                         /\ client[c].op.inc.ver \in Versions
           /\ Target(client[c].op) \in Guids
  <1>1. WellFormed(client[c])
    BY DEF TypeOK
  <1>2. /\ client[c].op \in StoreOp /\ client[c].stage \in StagesOf[client[c].op.act]
        /\ client[c].pc = "unlink" => client[c].stage = "unlink"
        /\ client[c].pc # "unlink" => client[c].stage = "file"
    BY <1>1, InProgress, PcStage
  <1>3. /\ client[c].op.act \in {"created", "updated", "deleted"}
        /\ client[c].stage = "file" => client[c].op.act \in {"created", "updated"}
    BY <1>2, CallFields DEF StagesOf, Actions
  <1> QED BY <1>2, <1>3, CallFields, CallAssumption DEF Incident

\* Two calls at the files are at different files.
LEMMA OtherFile ==
    ASSUME TypeOK, ~Overlap, NEW c \in Clients, NEW x \in Clients \ {c},
           client[c].pc \in {"unlink", "create", "fill"}, client[x].pc = "fill"
    PROVE  Target(client[x].op) # Target(client[c].op)
  <1>1. /\ client[c].op # None /\ client[c].op.act \in {"created", "updated", "deleted"}
        /\ client[x].op # None /\ client[x].op.act \in {"created", "updated", "deleted"}
    BY FileActs
  <1> QED BY <1>1, OneAtATime

\* A step of c at the file of its incident spares the other incidents.
LEMMA AtOneFile ==
    ASSUME Undisturbed, TypeOK, KeptInv, NEW c \in Clients,
           client[c].pc \in {"unlink", "create", "fill"},
           NEW v, files' = [files EXCEPT ![Target(client[c].op)] = v] \/ files' = files,
           lists' = lists, ~HoldsList(c)', \A x \in Clients \ {c} : client'[x] = client[x]
    PROVE  Spared(c)
  <1> SUFFICES ASSUME NEW g \in Guids, ~Writes(c, g), g \notin doomed
               PROVE  (InFile(g) => InFile(g)') /\ (InList(g) => InList(g)')
    BY DEF Spared
  <1>1. Target(client[c].op) # g
    BY FileActs, NotTarget
  <1>2. files'[g] = files[g]
    BY <1>1 DEF TypeOK
  <1>3. \A x \in Clients : HoldsList(x)' => HoldsList(x) /\ client'[x] = client[x]
    BY DEF HoldsList
  <1> QED BY <1>2, <1>3 DEF InFile, InList, Persistents

\* The file is removed; nobody was filling it.
LEMMA Removes ==
    ASSUME Undisturbed, TypeOK, KeptInv, ~Overlap', NEW c \in Clients, client[c].pc = "unlink",
           files' = [files EXCEPT ![Target(client[c].op)] = None], lists' = lists,
           {d \in linked : Target(client[d].op) # Target(client[c].op)} \subseteq linked',
           NEW err \in Errors, Finish(c, err)
    PROVE  KeptInv'
  <1> DEFINE k == client[c]
             s == NextStage(k.op, k.stage, err)
  <1>1. /\ k.op \in StoreOp /\ k.stage \in StagesOf[k.op.act] /\ k.stage = "unlink"
        /\ k.op.act \in {"created", "updated", "deleted"}
    BY FileActs
  <1>2. s \in StagesOf[k.op.act] \cup {"end"} /\ GoTo(c, s, err)
    BY <1>1, NextStageType DEF Finish
  <1>3. /\ \A x \in Clients \ {c} : client'[x] = client[x]
        /\ client'[c].op = IF s = "end" THEN None ELSE k.op
        /\ client'[c].pc \notin {"lock", "open", "write", "fill"}
        /\ doomed' = doomed
        /\ \A g \in acked' : g \in acked \/ (Writes(c, g) /\ client'[c].op = None)
        /\ acked' \subseteq Guids
        /\ ~HoldsList(c)'
    BY <1>2, Goes
  <1>4. s = "end" => k.op.act \notin {"created", "updated"}
    BY <1>1 DEF NextStage, StagesOf
  <1> HIDE DEF s
  <1>5. Underway(c)'
    BY <1>3, NothingUnderway DEF KeptInv
  <1>6. Spared(c)
    BY <1>3, AtOneFile
  <1>7. Delivered(c)
    BY <1>3, <1>4 DEF Delivered, Writes
  <1>8. ASSUME NEW x \in Clients \ {c}, client[x].pc = "fill"
        PROVE  /\ x \in linked => x \in linked'
               /\ files'[Target(client[x].op)] = files[Target(client[x].op)]
    <2>1. Target(client[x].op) # Target(client[c].op)
      BY <1>8, OtherFile DEF KeptInv
    <2> QED BY <2>1 DEF TypeOK
  <1>9. client'[c].op \in {client[c].op, None}
    BY <1>3
  <1> QED BY <1>3, <1>5, <1>6, <1>7, <1>8, <1>9, Keeps

\* The file is emptied, to be filled next.
LEMMA Empties ==
    ASSUME Undisturbed, TypeOK, KeptInv, ~Overlap', NEW c \in Clients, CreateFile(c)
    PROVE  KeptInv'
  <1> DEFINE k == client[c]
  <1>1. /\ client'[c] = Moved(k, "fill", None)
        /\ \A x \in Clients \ {c} : client'[x] = client[x]
    BY DEF CreateFile, TypeOK
  <1>2. client'[c].op = k.op /\ client'[c].pc = "fill" /\ ~HoldsList(c)'
    BY <1>1 DEF Moved, HoldsList
  <1>3. /\ k.pc = "create" /\ files' = [files EXCEPT ![Target(k.op)] = Truncated]
        /\ linked' = linked \cup {c} /\ lists' = lists /\ acked' = acked /\ doomed' = doomed
    BY DEF CreateFile
  <1>4. Underway(c)'
    <2>1. Underway(c)
      BY DEF KeptInv
    <2>2. files'[Target(k.op)] = Truncated
      BY <1>3, FileActs DEF TypeOK
    <2> QED BY <1>2, <1>3, <2>1, <2>2 DEF Underway
  <1>5. Spared(c)
    BY <1>1, <1>2, <1>3, AtOneFile
  <1>6. Delivered(c)
    BY <1>2, <1>3, FileActs DEF Delivered
  <1>7. ASSUME NEW x \in Clients \ {c}, client[x].pc = "fill"
        PROVE  /\ x \in linked => x \in linked'
               /\ files'[Target(client[x].op)] = files[Target(client[x].op)]
    <2>1. Target(client[x].op) # Target(client[c].op)
      BY <1>3, <1>7, OtherFile DEF KeptInv
    <2> QED BY <1>3, <2>1 DEF TypeOK
  <1>8. client'[c].op \in {client[c].op, None} /\ acked' \subseteq Guids
    BY <1>2, <1>3 DEF TypeOK
  <1> QED BY <1>1, <1>3, <1>4, <1>5, <1>6, <1>7, <1>8, Keeps

\* The file is written, and the call ends.
LEMMA Fills ==
    ASSUME Undisturbed, TypeOK, KeptInv, ~Overlap', NEW c \in Clients,
           client[c].pc \in {"create", "fill"},
           files' = [files EXCEPT ![Target(client[c].op)] = client[c].op.inc.ver],
           lists' = lists, linked \ {c} \subseteq linked', Finish(c, "nil")
    PROVE  KeptInv'
  <1> DEFINE k == client[c]
  <1>1. /\ k.op \in StoreOp /\ k.stage = "file" /\ k.op.inc.ver \in Versions
        /\ Target(k.op) \in Guids
    BY FileActs
  <1>2. GoTo(c, "end", "nil")
    BY <1>1 DEF Finish, NextStage
  <1>3. /\ \A x \in Clients \ {c} : client'[x] = client[x]
        /\ client'[c].op = None
        /\ client'[c].pc \notin {"lock", "open", "write", "fill"}
        /\ doomed' = doomed
        /\ \A g \in acked' : g \in acked \/ (Writes(c, g) /\ client'[c].op = None)
        /\ acked' \subseteq Guids
        /\ ~HoldsList(c)'
    BY <1>2, Goes DEF Errors
  <1>4. Underway(c)'
    BY <1>3, NothingUnderway DEF KeptInv
  <1>5. Spared(c)
    BY <1>3, AtOneFile
  <1>6. Delivered(c)
    <2>1. files'[Target(k.op)] \in Versions
      BY <1>1 DEF TypeOK
    <2> QED BY <2>1 DEF Delivered, Writes, InFile
  <1>7. ASSUME NEW x \in Clients \ {c}, client[x].pc = "fill"
        PROVE  /\ x \in linked => x \in linked'
               /\ files'[Target(client[x].op)] = files[Target(client[x].op)]
    <2>1. Target(client[x].op) # Target(client[c].op)
      BY <1>7, OtherFile DEF KeptInv
    <2> QED BY <2>1 DEF TypeOK
  <1> QED BY <1>3, <1>4, <1>5, <1>6, <1>7, Keeps


-----------------------------------------------------------------------------
(* The steps of a Local store *)

\* Each stage of a Local store keeps what was acknowledged.
LEMMA LocalKeeps ==
    ASSUME Undisturbed, Sound, KeptInv, ~Overlap', kind = "local",
           Next, env'.faults = 0, env'.crashes = 0
    PROVE  KeptInv'
  <1>0. TypeOK /\ LockInv /\ ~Overlap
    BY DEF Sound, KeptInv
  <1>a. ASSUME NEW c \in Clients PROVE WellFormed(client[c])
    BY <1>0 DEF TypeOK
  <1>1. ASSUME NEW c \in Clients, Request(c) PROVE KeptInv'
    <2>1. PICK op \in StoreOp : Begin(c, op, FirstStage(op), Decoded)
      BY <1>1 DEF Request, MayCall, StoreOp
    <2> QED BY <1>0, <1>1, <2>1, CallBegins DEF Request
  <1>2. ASSUME NEW c \in Clients, ReadList(c) PROVE KeptInv'
    <2> DEFINE k == client[c]
               list == lists[ListOf(k.stage)]
    <2>1. /\ k.pc = "read" /\ UNCHANGED <<files, lists, linked>>
          /\ k.op \in StoreOp /\ k.stage \in StagesOf[k.op.act]
      BY <1>2, <1>a, InProgress DEF ReadList
    <2>2. list \notin Broken
      BY <1>0, <2>1, ReadsWhole
    <2>3. CASE Found(k.op, k.stage, list) /\ GoTo(c, "end", "nil")
      <3>1. k.op.act \notin {"created", "updated"}
        BY <2>1, <2>3, CallFields DEF Found, StagesOf, Actions
      <3> QED BY <1>0, <2>1, <2>3, <3>1, Passes DEF Errors
    <2>4. CASE k.stage = "find" /\ GoTo(c, "load", "nil")
      <3>1. k.op.act = "read"
        BY <2>1, <2>4, CallFields DEF StagesOf, Actions
      <3>2. "load" \in StagesOf[k.op.act]
        BY <3>1 DEF StagesOf
      <3> QED BY <1>0, <2>1, <2>4, <3>2, Passes DEF Errors
    <2>5. CASE /\ k.stage # "find" /\ UNCHANGED <<reply, start, acked, doomed>>
               /\ client' = [client EXCEPT ![c] = Moved(k, "lock", Edited(k.op, k.stage, list))]
      BY <2>1, <2>5, Reads
    <2> QED BY <1>2, <2>2, <2>3, <2>4, <2>5 DEF ReadList
  <1>3. ASSUME NEW c \in Clients, Lock(c) PROVE KeptInv'
    BY <1>0, <1>3, HoldsOn DEF Lock, Persistents
  <1>4. ASSUME NEW c \in Clients, OpenList(c) PROVE KeptInv'
    <2>1. Persistents' = Persistents \/ Persistents' = Truncated
      BY <1>0, <1>4 DEF OpenList, Persistents, TypeOK, Lists, ListOf
    <2> QED BY <1>0, <1>4, <2>1, HoldsOn DEF OpenList
  <1>5. ASSUME NEW c \in Clients, WriteList(c) PROVE KeptInv'
    <2>1. lists[ListOf(client[c].stage)] = Truncated
      BY <1>0, <1>5 DEF WriteList, LockInv
    <2>2. lists' = [lists EXCEPT ![ListOf(client[c].stage)] = client[c].list]
      BY <1>5, <2>1 DEF WriteList, Written
    <2> QED BY <1>0, <1>5, <2>2, WritesBack DEF WriteList
  <1>6. ASSUME NEW c \in Clients, Unlink(c) PROVE KeptInv'
    <2>1. PICK err \in Errors : Finish(c, err)
      BY <1>6 DEF Unlink, Errors
    <2> QED BY <1>0, <1>6, <2>1, Removes DEF Unlink
  <1>7. ASSUME NEW c \in Clients, CreateFile(c) PROVE KeptInv'
    BY <1>0, <1>7, Empties
  <1>8. ASSUME NEW c \in Clients, FillFile(c) PROVE KeptInv'
    <2>1. client[c].pc = "fill"
      BY <1>8 DEF FillFile
    <2>2. c \in linked /\ files[Target(client[c].op)] = Truncated
      BY <2>1 DEF KeptInv, Underway
    <2>3. files' = [files EXCEPT ![Target(client[c].op)] = client[c].op.inc.ver]
      BY <1>8, <2>2 DEF FillFile, Written
    <2> QED BY <1>0, <1>8, <2>1, <2>3, Fills DEF FillFile
  <1>9. ASSUME NEW c \in Clients, LoadFile(c) PROVE KeptInv'
    <2> DEFINE k == client[c]
    <2>1. PICK err \in Errors : Finish(c, err)
      BY <1>9 DEF LoadFile, Errors
    <2>2. k.pc = "load" /\ UNCHANGED <<files, lists, linked>>
      BY <1>9 DEF LoadFile
    <2>3. k.op \in StoreOp /\ k.stage = "load" /\ k.op.act \notin {"created", "updated"}
      BY <1>a, <2>2, InProgress, PcStage, CallFields DEF StagesOf, Actions
    <2>4. GoTo(c, "end", err)
      BY <2>1, <2>3 DEF Finish, NextStage
    <2> QED BY <1>0, <2>2, <2>3, <2>4, Passes
  <1>10. ~Crash /\ \A c \in Clients : ~Fault(c)
    BY <1>0, LocalAssumption DEF Crash, Fault, TypeOK
  <1> QED BY <1>1, <1>2, <1>3, <1>4, <1>5, <1>6, <1>7, <1>8, <1>9, <1>10 DEF Next, Step

-----------------------------------------------------------------------------
(* The steps of an S3 store *)

\* Each request of an S3 store keeps what was acknowledged.
LEMMA S3Keeps ==
    ASSUME Undisturbed, Sound, KeptInv, ~Overlap', kind = "s3", linked' = linked,
           S3Next, env'.faults = 0, env'.crashes = 0
    PROVE  KeptInv'
  <1>0. TypeOK /\ Whole /\ ~Overlap
    BY DEF Sound, KeptInv
  <1>a. ASSUME NEW c \in Clients PROVE WellFormed(client[c])
    BY <1>0 DEF TypeOK
  <1>1. ASSUME NEW c \in Clients, S3Request(c) PROVE KeptInv'
    <2>1. PICK op \in StoreOp : Begin(c, op, S3First(op), S3Content)
      BY <1>1 DEF S3Request, MayCall, StoreOp
    <2> QED BY <1>0, <2>1, CallBegins
  <1>2. ASSUME NEW c \in Clients, GetList(c) PROVE KeptInv'
    <2> DEFINE k == client[c]
               list == lists[ListOf(k.stage)]
    <2>1. /\ k.pc = "read" /\ UNCHANGED <<files, lists, linked>>
          /\ k.op \in StoreOp /\ k.stage \in StagesOf[k.op.act]
      BY <1>2, <1>a, InProgress DEF GetList
    <2>2. k.stage \in {"find", "sub", "unsub"} => k.op.act \notin {"created", "updated"}
      BY <2>1, CallFields DEF StagesOf, Actions
    <2>3. CASE k.stage \in {"find", "unsub"} /\ S3Finish(c, "notexist")
      <3>1. GoTo(c, "end", "notexist")
        BY <2>3 DEF S3Finish, S3NextStage, NextStage
      <3> QED BY <1>0, <2>1, <2>2, <2>3, <3>1, Passes DEF Errors
    <2>4. CASE Found(k.op, k.stage, list) /\ GoTo(c, "end", "nil")
      BY <1>0, <2>1, <2>2, <2>4, Passes DEF Errors, Found
    <2>5. CASE k.stage # "find" /\ Change(c, list)
      BY <2>1, <2>5, Reads DEF Change
    <2> QED BY <1>2, <2>3, <2>4, <2>5 DEF GetList
  <1>3. ASSUME NEW c \in Clients, GetIncident(c) PROVE KeptInv'
    <2> DEFINE k == client[c]
    <2>1. PICK err \in Errors : S3Finish(c, err)
      BY <1>3 DEF GetIncident, Errors
    <2>2. k.pc = "load" /\ UNCHANGED <<files, lists, linked>>
      BY <1>3 DEF GetIncident
    <2>3. k.op \in StoreOp /\ k.stage = "load" /\ k.op.act = "read"
      BY <1>a, <2>2, InProgress, PcStage, CallFields DEF StagesOf, Actions
    <2>4. GoTo(c, S3NextStage(k.op, k.stage, err), err)
      BY <2>1, <2>3 DEF S3Finish
    <2>5. S3NextStage(k.op, k.stage, err) \in StagesOf[k.op.act] \cup {"end"}
      BY <2>3, S3NextType DEF StagesOf
    <2> QED BY <1>0, <2>2, <2>3, <2>4, <2>5, Passes
  <1>4. ASSUME NEW c \in Clients, PutObject(c) PROVE KeptInv'
    <2> DEFINE k == client[c]
    <2>1. WellFormed(k) /\ k.pc \in {"write", "create", "unlink"}
      BY <1>4, <1>a DEF PutObject, Effect
    <2>2. k.stage \notin {"load", "find"}
      BY <2>1, PcStage
    <2>3. Finish(c, "nil")
      BY <1>4, <2>2 DEF PutObject, S3Finish, S3NextStage, Finish
    <2>4. CASE k.pc = "write"
      BY <1>0, <1>4, <2>3, <2>4, WritesBack DEF PutObject, Effect
    <2>5. CASE k.pc = "create"
      BY <1>0, <1>4, <2>3, <2>5, Fills DEF PutObject, Effect
    <2>6. CASE k.pc = "unlink"
      <3>1. {d \in linked : Target(client[d].op) # Target(client[c].op)} \subseteq linked'
        OBVIOUS
      <3> QED BY <1>0, <1>4, <2>3, <2>6, <3>1, Removes DEF PutObject, Effect, Errors
    <2> QED BY <2>1, <2>4, <2>5, <2>6
  <1>5. ~S3Crash /\ \A c \in Clients : ~S3Fault(c)
    BY <1>0, LocalAssumption DEF S3Crash, S3Fault, TypeOK
  <1> QED BY <1>1, <1>2, <1>3, <1>4, <1>5 DEF S3Next

-----------------------------------------------------------------------------
(* The theorem *)

\* A step of either store keeps Sound.
LEMMA SoundStep ==
    ASSUME Sound, [StoresNext]_storeVars
    PROVE  Sound'
  <1>1. CASE kind = "local" /\ Next /\ UNCHANGED kind
    BY <1>1, TypeStep, LockInvStep DEF Sound
  <1>2. CASE kind = "s3" /\ S3Next /\ UNCHANGED <<linked, mutex, kind>>
    BY <1>2, S3TypeStep DEF Sound
  <1>3. CASE UNCHANGED storeVars
    <2>1. UNCHANGED vars /\ UNCHANGED kind
      BY <1>3 DEF storeVars
    <2>2. TypeOK'
      BY <2>1, TypeStep DEF Sound
    <2>3. kind = "local" => LockInv'
      BY <2>1, LockInvStep DEF Sound
    <2>4. kind = "s3" => Whole'
      BY <2>1 DEF Sound, Whole, vars
    <2> QED BY <2>1, <2>2, <2>3, <2>4 DEF Sound
  <1> QED BY <1>1, <1>2, <1>3 DEF StoresNext, Sound

\* What went wrong stays on record.
LEMMA DisturbedStays ==
    ASSUME Sound, StoresNext, Undisturbed'
    PROVE  Undisturbed
  <1>1. TypeOK
    BY DEF Sound
  <1>2. \/ env' = env
        \/ env' = [env EXCEPT !.ops = env.ops + 1]
        \/ env' = [env EXCEPT !.faults = env.faults + 1]
        \/ env' = [env EXCEPT !.crashes = env.crashes + 1]
    <2>1. CASE kind = "local" /\ Next
      BY <2>1 DEF Next, Step, Request, Begin, ReadList, Lock, OpenList, WriteList, Unlink,
                  CreateFile, FillFile, LoadFile, Fault, Crash
    <2>2. CASE kind = "s3" /\ S3Next
      BY <2>2 DEF S3Next, S3Request, Begin, GetList, GetIncident, PutObject, S3Fault, S3Crash
    <2> QED BY <2>1, <2>2 DEF StoresNext, Sound
  <1>3. env \in [ops : 0..MaxOps, faults : 0..MaxFaults, crashes : 0..MaxCrashes]
    BY <1>1 DEF TypeOK
  <1>4. env'.faults \in {env.faults, env.faults + 1} /\ env'.crashes \in {env.crashes, env.crashes + 1}
    BY <1>2, <1>3
  <1>5. env.faults = 0 /\ env.crashes = 0
    BY <1>3, <1>4, LocalAssumption DEF Undisturbed
  <1> QED BY <1>5 DEF Undisturbed, StoresNext

\* A step of either store keeps what was acknowledged, undisturbed or not.
LEMMA KeptStep ==
    ASSUME Sound, KeptInv, [StoresNext]_storeVars
    PROVE  KeptInv'
  <1>1. CASE UNCHANGED storeVars
    BY <1>1 DEF storeVars, vars, KeptInv, Undisturbed, Overlap, Subject, Holds, MeetsEmpty,
               Underway, HoldsList, Writes, InFile, InList, Persistents
  <1>2. CASE StoresNext
    <2> SUFFICES ASSUME Undisturbed' PROVE KeptInv'
      BY DEF KeptInv
    <2>1. ~raced /\ ~Overlap' /\ env'.faults = 0 /\ env'.crashes = 0
      BY <1>2 DEF StoresNext, Undisturbed
    <2>2. Undisturbed
      BY <1>2, DisturbedStays
    <2> QED BY <1>2, <2>1, <2>2, LocalKeeps, S3Keeps DEF StoresNext, Sound
  <1> QED BY <1>1, <1>2

\* A store that starts empty has lost nothing.
LEMMA KeptInit ==
    ASSUME StoreKinds \subseteq {"local", "s3"}, StoresInit
    PROVE  Sound /\ KeptInv
  <1>1. TypeOK
    BY TypeInit DEF StoresInit
  <1>2. \A c \in Clients : client[c].pc = "idle" /\ client[c].op = None
    BY DEF StoresInit, Init, CallInit, Idle
  <1>3. \A l \in Lists : lists[l] \notin Broken
    BY LocalAssumption DEF StoresInit, Init, CallInit, Empty, Shelf
  <1>4. Sound
    BY <1>1, <1>2, <1>3 DEF Sound, StoresInit, LockInv, ListsWhole, Whole, Broken
  <1>5. ~Overlap
    BY <1>2 DEF Overlap, Subject, Holds, MeetsEmpty
  <1>6. acked = {}
    BY DEF StoresInit, Init, CallInit
  <1> QED BY <1>2, <1>4, <1>5, <1>6 DEF KeptInv, Underway, HoldsList

\* Once nobody calls, an incident is in its file or in the list.
LEMMA KeptIsRetrievable ==
    ASSUME Sound, KeptInv, Undisturbed
    PROVE  Retrievable
  <1> SUFFICES ASSUME \A c \in Clients : client[c].pc = "idle", NEW g \in acked \ doomed
               PROVE  /\ Persistents \notin Broken
                      /\ Persistents[g] # None \/ files[g] \in Versions
    BY DEF Retrievable, Persistents
  <1>1. \A c \in Clients : client[c].op = None
    BY IdleCall DEF Sound, TypeOK
  <1>2. Persistents \notin Broken
    BY DEF Sound, Whole, LockInv, ListsWhole, Writing, Broken, Persistents, Lists, Undisturbed
  <1>3. InFile(g) \/ InList(g)
    BY <1>1 DEF KeptInv, Writes
  <1> QED BY <1>2, <1>3 DEF InFile, InList

\* In a Local or S3 store, every variable keeps its type, for any number of
\* callers, failures and restarts.
THEOREM TypesHold ==
    ASSUME StoreKinds \subseteq {"local", "s3"}
    PROVE  StoresSpec => []TypeOK
  <1>1. StoresInit => Sound
    BY KeptInit
  <1>2. Sound /\ [StoresNext]_storeVars => Sound'
    BY SoundStep
  <1>3. Sound => TypeOK
    BY DEF Sound
  <1> QED BY <1>1, <1>2, <1>3, PTL DEF StoresSpec

\* And the two lists of either are never a mixture of two writes, and
\* undecodable only during a write or after a restart.
THEOREM ListsStayWhole ==
    ASSUME StoreKinds \subseteq {"local", "s3"}
    PROVE  StoresSpec => []ListsWhole
  <1>1. StoresInit => Sound
    BY KeptInit
  <1>2. Sound /\ [StoresNext]_storeVars => Sound'
    BY SoundStep
  <1>3. Sound => ListsWhole
    BY DEF Sound, LockInv, Whole, ListsWhole, Broken
  <1> QED BY <1>1, <1>2, <1>3, PTL DEF StoresSpec

\* Any number of callers of a Local or S3 store lose an acknowledged incident
\* nobody deletes only if two calls overlapped on it or between the reading of
\* a list and its writing back, or one met a list another had emptied; or if
\* something failed.
THEOREM KeptUnlessRacedHolds ==
    ASSUME StoreKinds \subseteq {"local", "s3"}
    PROVE  StoresSpec => []KeptUnlessRaced
  <1>1. StoresInit => Sound /\ KeptInv
    BY KeptInit
  <1>2. Sound /\ KeptInv /\ [StoresNext]_storeVars => Sound' /\ KeptInv'
    BY SoundStep, KeptStep
  <1>3. Sound /\ KeptInv => KeptUnlessRaced
    BY KeptIsRetrievable DEF KeptUnlessRaced, Undisturbed
  <1> QED BY <1>1, <1>2, <1>3, PTL DEF StoresSpec

-----------------------------------------------------------------------------
(* One call at a time *)

\* The instances the refinement is about: calls one at a time, no restart.
OneCaller == Clients = {Caller} /\ MaxCrashes = 0

-----------------------------------------------------------------------------
(* What a stage of Local or S3 makes of a content *)

ListStages == {"drop", "add", "sub", "unsub"}

ListIn(c, l)      == IF l = "persistents" THEN c.pers ELSE c.subs
WithList(c, l, v) == IF l = "persistents" THEN [c EXCEPT !.pers = v]
                                          ELSE [c EXCEPT !.subs = v]
WithFile(c, g, v) == [c EXCEPT !.file[g] = v]

EditedIn(op, stage, c) == Edited(op, stage, ListIn(c, ListOf(stage)))

StageMade(op, stage, c) ==
    IF stage \in ListStages THEN WithList(c, ListOf(stage), EditedIn(op, stage, c))
    ELSE IF stage = "unlink" THEN WithFile(c, Target(op), None)
    ELSE IF stage = "file" THEN WithFile(c, Target(op), op.inc.ver)
    ELSE c

\* An incident has a file of its own unless it is persistent.
Fits(op, stage) ==
    /\ stage \in StagesOf[op.act]
    /\ stage = "file" => ~op.inc.persistent
    /\ stage \in {"add", "unlink"} /\ op.act # "deleted" => op.inc.persistent

\* In S3 writing the subscribers also makes their object.
Listing(stage, c) == [c EXCEPT !.subsFile = @ \/ stage \in {"sub", "unsub"}]

-----------------------------------------------------------------------------
(* What the store holds before a stage, c being what it held before the     *)
(* call; failed says whether something failed since then                    *)

Before(op, stage, c, failed) ==
    LET g == Target(op)
    IN  CASE stage = "unlink" -> {DropPers(c, g)}
          [] stage = "add" /\ op.act = "updated" ->
                {Erase(c, g)} \cup IF failed THEN UpdateStages(op.inc, c) ELSE {}
          [] stage = "file" /\ op.act = "updated" ->
                {DropPers(c, g)} \cup IF failed THEN {c} ELSE {}
          [] OTHER -> {c}

\* The row after the UPDATE of the fields that are not zero.
RowSet(i, c) ==
    IF Readable(c, i.guid)
    THEN Replace(AddMsg(c, i.guid), [i EXCEPT !.persistent = @ \/ c.file[i.guid] = None])
    ELSE AddMsg(c, i.guid)

BeforeDB(op, stage, c) ==
    LET g == Target(op)
    IN  CASE stage \in {"delete metadata", "delete row"} -> DropMsg(c, g)
          [] stage = "add messages" /\ op.act = "updated" -> DropMsg(c, g)
          [] stage \in {"add row", "set row"} -> AddMsg(c, g)
          [] stage = "set persistent" -> RowSet(op.inc, c)
          [] OTHER -> c

\* What a call may end with, from what the store held before it.
Allowed(op, c, failed, res) ==
    \/ res = Outcome(kind, op, c)
    \/ failed /\ res \in Disturbed(kind, op, c)

-----------------------------------------------------------------------------
(* The inductive invariant *)

Failed == env.faults > start[Caller].faults

\* A stage of Local is under way; pre is what the store held before it.
LocalAt(k, pre) ==
    LET l == ListOf(k.stage)
    IN  \/ k.pc = Entry(k.stage) /\ Decoded = pre
        \/ k.stage \in ListStages /\ k.pc \in {"lock", "open"}
           /\ Decoded = pre /\ k.list = EditedIn(k.op, k.stage, pre)
        \/ k.stage \in ListStages /\ k.pc = "write" /\ lists[l] = Truncated
           /\ Decoded = WithList(pre, l, Truncated) /\ k.list = EditedIn(k.op, k.stage, pre)
        \/ k.stage = "file" /\ k.pc = "fill" /\ Caller \in linked
           /\ Decoded = WithFile(pre, Target(k.op), Truncated)

InLocal ==
    LET k == client[Caller]  c == start[Caller].content
    IN  /\ Fits(k.op, k.stage)
        /\ k.stage = "load" => c.pers[k.op.guid] = None
        /\ \E pre \in Before(k.op, k.stage, c, Failed) : LocalAt(k, pre)

InS3 ==
    LET k == client[Caller]  c == start[Caller].content
    IN  /\ Fits(k.op, k.stage)
        /\ k.stage = "find" => c.file[k.op.guid] = None
        /\ S3Content \in Before(k.op, k.stage, c, Failed)
        /\ \/ k.pc = Entry(k.stage)
           \/ /\ k.stage \in ListStages /\ k.pc = "write"
              /\ k.stage = "unsub" => listed
              /\ \/ /\ k.list = EditedIn(k.op, k.stage, S3Content)
                    /\ k.stage = "sub" => k.op.email \notin c.subs
                 \/ Failed /\ k.stage = "sub" /\ k.list = {k.op.email}

InDB ==
    LET k == client[Caller]  c == start[Caller].content
    IN  /\ k.pc # "idle"
        /\ \E n \in DOMAIN Statements[k.op.act] : k.stage = Statements[k.op.act][n]
        /\ DBContent = BeforeDB(k.op, k.stage, c)
        /\ k.stage = "add row" => k.op.inc.guid \notin c.msgs
        /\ k.stage = "set persistent" => ~k.op.inc.persistent
        /\ \/ pending[Caller] = "nil"
           \/ pending[Caller] = "other" /\ Failed /\ k.op.act = "updated"
              /\ k.stage = "add messages"

\* A call is in progress.
InCall ==
    /\ client[Caller].op \in StoreOp
    /\ start[Caller].content \in Content
    /\ kind # "db" => pending[Caller] = "nil"
    /\ CASE kind = "local" -> InLocal
         [] kind = "s3"    -> InS3
         [] kind = "db"    -> InDB

Resting ==
    /\ client[Caller] = Idle
    /\ Kept \in Content
    /\ pending[Caller] = "nil"

\* The domains of what is kept by client or by list, and the environment.
Frame ==
    /\ DOMAIN client = Clients /\ DOMAIN reply = Clients /\ DOMAIN start = Clients
    /\ DOMAIN pending = Clients /\ DOMAIN lists = Lists
    /\ env \in [ops : Nat, faults : Nat, crashes : Nat]
    /\ start[Caller].faults \in Nat /\ start[Caller].faults <= env.faults
    /\ kind \in Kinds

Inv == Frame /\ (Resting \/ InCall)

-----------------------------------------------------------------------------
(* Lemmas about contents *)

\* Dropping an incident from the list and then removing its file erases it.
LEMMA Erased ==
    ASSUME NEW c \in Content, NEW g \in Guids
    PROVE  /\ WithFile(DropPers(c, g), g, None) = Erase(c, g)
           /\ c.file[g] = None => Erase(c, g) = DropPers(c, g)
           /\ DropPers(c, g).file = c.file
  <1>1. WithFile(DropPers(c, g), g, None) = Erase(c, g)
    BY DEF Content, WithFile, DropPers, Erase
  <1>2. c.file[g] = None => [c.file EXCEPT ![g] = None] = c.file
    BY DEF Content, Shelf
  <1>3. c.file[g] = None => Erase(c, g) = DropPers(c, g)
    BY <1>2 DEF Content, Erase, DropPers
  <1> QED BY <1>1, <1>3 DEF DropPers, Content

\* What is written to one place twice is there as it was written last.
LEMMA PersTwice ==
    ASSUME NEW c \in Content, NEW g \in Guids, NEW v, NEW w
    PROVE  [[c.pers EXCEPT ![g] = v] EXCEPT ![g] = w] = [c.pers EXCEPT ![g] = w]
  BY DEF Content, Shelf

\* The file of an incident, written twice, is what it was last.
LEMMA FileTwice ==
    ASSUME NEW c \in Content, NEW g \in Guids, NEW v, NEW w
    PROVE  WithFile(WithFile(c, g, v), g, w) = WithFile(c, g, w)
  <1>1. [[c.file EXCEPT ![g] = v] EXCEPT ![g] = w] = [c.file EXCEPT ![g] = w]
    BY DEF Content, Shelf
  <1> QED BY <1>1 DEF Content, WithFile

\* Writing an incident to the list.
LEMMA AddMade ==
    ASSUME NEW op \in StoreOp, op.act \in {"created", "updated"}, op.inc.persistent,
           NEW c \in Content
    PROVE  /\ StageMade(op, "add", c) = Put(c, op.inc)
           /\ StageMade(op, "add", DropPers(c, op.inc.guid)) = Put(c, op.inc)
           /\ StageMade(op, "add", Erase(c, op.inc.guid)) = Replace(c, op.inc)
  <1> DEFINE i == op.inc
             g == op.inc.guid
  <1>1. i \in Incident /\ Target(op) = g /\ g \in Guids /\ i.ver \in Versions
    BY CallFields DEF Target, Incident
  <1>2. \A d : StageMade(op, "add", d) = [d EXCEPT !.pers = [d.pers EXCEPT ![g] = i.ver]]
    BY <1>1 DEF StageMade, ListStages, EditedIn, Edited, ListIn, ListOf, WithList
  <1>3. [[c.pers EXCEPT ![g] = None] EXCEPT ![g] = i.ver] = [c.pers EXCEPT ![g] = i.ver]
    BY <1>1, PersTwice
  <1>4. StageMade(op, "add", c) = Put(c, i)
    BY <1>2 DEF Put, Content
  <1>5. StageMade(op, "add", DropPers(c, g)) = Put(c, i)
    <2>1. DropPers(c, g).pers = [c.pers EXCEPT ![g] = None]
      BY DEF DropPers, Content
    <2>2. StageMade(op, "add", DropPers(c, g)) =
            [DropPers(c, g) EXCEPT !.pers = [c.pers EXCEPT ![g] = i.ver]]
      <3>1. [DropPers(c, g).pers EXCEPT ![g] = i.ver] = [c.pers EXCEPT ![g] = i.ver]
        BY <1>3, <2>1
      <3> QED BY <1>2, <3>1
    <2>3. \A p : [DropPers(c, g) EXCEPT !.pers = p] = [c EXCEPT !.pers = p]
      BY DEF DropPers, Content
    <2>4. Put(c, i) = [c EXCEPT !.pers = [c.pers EXCEPT ![g] = i.ver]]
      BY DEF Put, Content
    <2> QED BY <2>2, <2>3, <2>4
  <1>6. StageMade(op, "add", Erase(c, g)) = Replace(c, i)
    BY <1>2 DEF Put, Content, Erase, Replace
  <1> QED BY <1>4, <1>5, <1>6

\* Writing the file of an incident.
LEMMA FileMade ==
    ASSUME NEW op \in StoreOp, op.act \in {"created", "updated"}, ~op.inc.persistent,
           NEW c \in Content
    PROVE  /\ StageMade(op, "file", c) = Put(c, op.inc)
           /\ StageMade(op, "file", DropPers(c, op.inc.guid)) = Replace(c, op.inc)
  <1> DEFINE i == op.inc
             g == op.inc.guid
  <1>1. i \in Incident /\ Target(op) = g /\ g \in Guids /\ i.ver \in Versions
    BY CallFields DEF Target, Incident
  <1>2. \A d : StageMade(op, "file", d) = [d EXCEPT !.file[g] = i.ver]
    BY <1>1 DEF StageMade, ListStages, WithFile
  <1>3. [[c.file EXCEPT ![g] = None] EXCEPT ![g] = i.ver] = [c.file EXCEPT ![g] = i.ver]
    BY <1>1 DEF Content, Shelf
  <1>4. StageMade(op, "file", c) = Put(c, i)
    BY <1>2 DEF Put, Content
  <1>5. StageMade(op, "file", DropPers(c, g)) = Replace(c, i)
    <2>1. StageMade(op, "file", DropPers(c, g)) =
            [DropPers(c, g) EXCEPT !.file = [c.file EXCEPT ![g] = i.ver]]
      BY <1>2 DEF DropPers, Content
    <2>2. Replace(c, i) = [Erase(c, g) EXCEPT !.file = [Erase(c, g).file EXCEPT ![g] = i.ver]]
      BY DEF Replace, Put, Erase, Content
    <2>3. Erase(c, g).file = [c.file EXCEPT ![g] = None]
      BY DEF Erase, Content
    <2>4. \A f : [Erase(c, g) EXCEPT !.file = f] = [DropPers(c, g) EXCEPT !.file = f]
      BY DEF Erase, DropPers, Content
    <2> QED BY <1>3, <2>1, <2>2, <2>3, <2>4
  <1> QED BY <1>4, <1>5

\* Dropping an incident from the list, removing its file.
LEMMA DropMade ==
    ASSUME NEW op \in StoreOp, op.act \in {"updated", "deleted"}, NEW c \in Content
    PROVE  /\ StageMade(op, "drop", c) = DropPers(c, Target(op))
           /\ StageMade(op, "unlink", DropPers(c, Target(op))) = Erase(c, Target(op))
  <1>1. Target(op) \in Guids
    BY CallFields
  <1>2. StageMade(op, "drop", c) = DropPers(c, Target(op))
    BY DEF StageMade, ListStages, EditedIn, Edited, ListIn, ListOf, WithList, DropPers, Content
  <1>3. \A d : StageMade(op, "unlink", d) = WithFile(d, Target(op), None)
    BY DEF StageMade, ListStages
  <1> QED BY <1>1, <1>2, <1>3, Erased

\* Changing the subscribers.
LEMMA SubsMade ==
    ASSUME NEW op \in StoreOp, op.act \in {"subscribe", "unsubscribe"}, NEW c \in Content
    PROVE  /\ StageMade(op, "sub", c) = AddSub(c, op.email)
           /\ StageMade(op, "unsub", c) = DropSub(c, op.email)
           /\ op.email \in c.subs => AddSub(c, op.email) = c
  <1>1. /\ StageMade(op, "sub", c) = AddSub(c, op.email)
        /\ StageMade(op, "unsub", c) = DropSub(c, op.email)
    BY DEF StageMade, ListStages, EditedIn, Edited, ListIn, ListOf, WithList, AddSub, DropSub,
           Content
  <1>2. op.email \in c.subs => c.subs \cup {op.email} = c.subs
    OBVIOUS
  <1> QED BY <1>1, <1>2 DEF AddSub, Content

-----------------------------------------------------------------------------
(* Lemmas about stages, for Local and S3 *)

\* The stages of each operation.
LEMMA FitsOp ==
    ASSUME NEW op \in StoreOp, NEW stage, Fits(op, stage)
    PROVE  /\ op.act = "created" => \/ stage = "add" /\ op.inc.persistent
                                    \/ stage = "file" /\ ~op.inc.persistent
           /\ op.act = "updated" => \/ stage = "drop"
                                    \/ stage \in {"unlink", "add"} /\ op.inc.persistent
                                    \/ stage = "file" /\ ~op.inc.persistent
           /\ op.act = "deleted" => stage \in {"drop", "unlink"}
           /\ op.act = "subscribe" => stage = "sub"
           /\ op.act = "unsubscribe" => stage = "unsub"
           /\ op.act = "read" => stage \in {"find", "load"}
           /\ op.act \in Actions \cup {"read"}
           /\ op.act \in {"created", "updated"} =>
                /\ op.inc \in Incident /\ op.inc.persistent \in BOOLEAN
                /\ op.inc.guid = Target(op)
           /\ op.act = "deleted" => op.guid = Target(op)
           /\ op.act \notin {"subscribe", "unsubscribe"} => Target(op) \in Guids
  <1>1. op.act \in Actions \cup {"read"}
    BY CallFields
  <1>2. op.act \in {"created", "updated"} =>
            op.inc \in Incident /\ op.inc.persistent \in BOOLEAN /\ op.inc.guid = Target(op)
    BY CallFields DEF Target, Incident
  <1> QED BY <1>1, <1>2, CallFields DEF Fits, StagesOf, Actions, Target

\* A stage that is over and not the last leaves what the next one starts from.
LEMMA GoesOn ==
    ASSUME NEW op \in StoreOp, NEW stage, Fits(op, stage), stage \notin {"find", "load"},
           NEW c \in Content, NEW failed \in BOOLEAN, NEW pre \in Before(op, stage, c, failed),
           NEW d, d = StageMade(op, stage, pre) \/ (failed /\ d = pre),
           NEW err, err = "nil" => d = StageMade(op, stage, pre),
           err # "nil" => stage = "unlink" \/ failed,
           NextStage(op, stage, err) # "end"
    PROVE  /\ Fits(op, NextStage(op, stage, err))
           /\ NextStage(op, stage, err) \notin {"find", "load"}
           /\ d \in Before(op, NextStage(op, stage, err), c, failed)
  <1> DEFINE n == NextStage(op, stage, err)
             g == Target(op)
  <1>1. \/ stage = "drop" /\ op.act \in {"updated", "deleted"}
        \/ stage = "unlink" /\ op.act = "updated"
    BY FitsOp DEF NextStage
  <1>2. CASE stage = "drop"
    <2>1. pre = c
      BY <1>2 DEF Before
    <2>2. d = DropPers(c, g) \/ (failed /\ d = c)
      BY <1>1, <1>2, <2>1, DropMade
    <2>3. err = "nil" => d = DropPers(c, g)
      BY <1>1, <1>2, <2>1, DropMade
    <2>4. CASE op.act = "deleted"
      <3>1. n = "unlink" /\ err = "nil"
        BY <1>2, <2>4 DEF NextStage
      <3> QED BY <2>3, <2>4, <3>1 DEF Fits, StagesOf, Before
    <2>5. CASE op.act = "updated" /\ ~op.inc.persistent
      <3>1. n = "file"
        BY <1>2, <2>5 DEF NextStage
      <3>2. d \in Before(op, n, c, failed)
        BY <2>2, <2>5, <3>1 DEF Before
      <3> QED BY <2>5, <3>1, <3>2 DEF Fits, StagesOf
    <2>6. CASE op.act = "updated" /\ op.inc.persistent /\ err = "nil"
      <3>1. n = "unlink"
        BY <1>2, <2>6 DEF NextStage
      <3>2. d \in Before(op, n, c, failed)
        BY <2>3, <2>6, <3>1 DEF Before
      <3> QED BY <2>6, <3>1, <3>2 DEF Fits, StagesOf
    <2>7. CASE op.act = "updated" /\ op.inc.persistent /\ err # "nil"
      <3>1. n = "add" /\ failed
        BY <1>2, <2>7 DEF NextStage
      <3>2. d \in UpdateStages(op.inc, c)
        BY <2>2, <2>7, FitsOp DEF UpdateStages
      <3>3. d \in Before(op, n, c, failed)
        BY <2>7, <3>1, <3>2 DEF Before
      <3>4. Fits(op, "add")
        BY <2>7 DEF Fits, StagesOf
      <3> QED BY <3>1, <3>3, <3>4
    <2> QED BY <1>1, <1>2, <2>4, <2>5, <2>6, <2>7, FitsOp
  <1>3. CASE stage = "unlink" /\ op.act = "updated"
    <2>1. pre = DropPers(c, g) /\ op.inc.persistent /\ op.inc.guid = g
      BY <1>3, FitsOp DEF Before
    <2>2. d = Erase(c, g) \/ (failed /\ d \in UpdateStages(op.inc, c))
      BY <1>3, <2>1, DropMade DEF UpdateStages
    <2>3. n = "add"
      BY <1>3 DEF NextStage
    <2>4. d \in Before(op, n, c, failed)
      BY <1>3, <2>2, <2>3 DEF Before
    <2> QED BY <1>3, <2>1, <2>3, <2>4 DEF Fits, StagesOf
  <1> QED BY <1>1, <1>2, <1>3

\* A stage of Local that is over and the last ends a call as Backends says.
LEMMA LocalEnds ==
    ASSUME kind = "local",
           NEW op \in StoreOp, NEW stage, Fits(op, stage), stage \notin {"find", "load"},
           NEW c \in Content, NEW failed \in BOOLEAN, NEW pre \in Before(op, stage, c, failed),
           NEW d, NEW err,
           \/ /\ d = StageMade(op, stage, pre)
              /\ err = IF stage = "unlink" /\ pre.file[Target(op)] = None THEN "notexist" ELSE "nil"
           \/ failed /\ d = pre /\ err = "other",
           NextStage(op, stage, err) = "end"
    PROVE  Allowed(op, c, failed, Fail(d, err))
  <1> DEFINE g == Target(op)
             fault == failed /\ d = pre /\ err = "other"
  <1>1. op.act # "read" /\ op.act \in Actions
    BY FitsOp
  <1>2. /\ Fail(d, err) = LocalCall(op, c) => Allowed(op, c, failed, Fail(d, err))
        /\ failed /\ err = "other" /\ d \in LocalStages(op, c) =>
               Allowed(op, c, failed, Fail(d, err))
        /\ failed /\ err = "nil" /\ d \in Swallowed("local", op, c) =>
               Allowed(op, c, failed, Fail(d, err))
    BY <1>1 DEF Allowed, Outcome, Apply, Disturbed, Faulty, Stages, Done, Fail
  <1>3. CASE op.act = "created"
    <2>1. pre = c /\ stage \in {"add", "file"}
      BY <1>3, FitsOp DEF Before
    <2>2. fault => d \in LocalStages(op, c)
      BY <1>3, <2>1 DEF LocalStages
    <2>3. StageMade(op, stage, c) = Put(c, op.inc)
      BY <1>3, FitsOp, AddMade, FileMade
    <2>4. ~fault => Fail(d, err) = LocalCall(op, c)
      BY <1>3, <2>1, <2>3 DEF LocalCall, LocalCreate, Done, Fail
    <2> QED BY <1>2, <2>2, <2>4
  <1>4. CASE op.act = "updated"
    <2>0. op.inc \in Incident /\ op.inc.guid = g /\ op.inc.persistent \in BOOLEAN /\ g \in Guids
      BY <1>4, FitsOp
    <2>1. \/ stage = "add" /\ op.inc.persistent
          \/ stage = "file" /\ ~op.inc.persistent
      BY <1>4, FitsOp DEF NextStage
    <2>2. LocalCall(op, c) = Fail(Replace(c, op.inc), "nil")
      BY <1>4 DEF LocalCall, LocalUpdate, Done, Fail
    <2>3. Swallowed("local", op, c) = {Put(c, op.inc)}
      BY <1>4 DEF Swallowed
    <2>4. LocalStages(op, c) = UpdateStages(op.inc, c)
      BY <1>4 DEF LocalStages
    <2>5. CASE stage = "add"
      <3>1. pre = Erase(c, g) \/ (failed /\ pre \in {c, DropPers(c, g)})
        BY <1>4, <2>0, <2>1, <2>5 DEF Before, UpdateStages
      <3>2. fault => d \in LocalStages(op, c)
        BY <2>0, <2>1, <2>4, <2>5, <3>1 DEF UpdateStages
      <3>3. ~fault => \/ d = Replace(c, op.inc) /\ err = "nil"
                      \/ failed /\ d = Put(c, op.inc) /\ err = "nil"
        BY <1>4, <2>0, <2>1, <2>5, <3>1, AddMade
      <3> QED BY <1>2, <2>2, <2>3, <3>2, <3>3
    <2>6. CASE stage = "file"
      <3>1. pre = DropPers(c, g) \/ (failed /\ pre = c)
        BY <1>4, <2>6 DEF Before
      <3>2. fault => d \in LocalStages(op, c)
        BY <2>0, <2>4, <2>6, <3>1 DEF UpdateStages
      <3>3. ~fault => \/ d = Replace(c, op.inc) /\ err = "nil"
                      \/ failed /\ d = Put(c, op.inc) /\ err = "nil"
        BY <1>4, <2>0, <2>1, <2>6, <3>1, FileMade
      <3> QED BY <1>2, <2>2, <2>3, <3>2, <3>3
    <2> QED BY <2>1, <2>5, <2>6
  <1>5. CASE op.act = "deleted"
    <2>0. op.guid = g /\ g \in Guids /\ stage \in {"drop", "unlink"}
      BY <1>5, FitsOp
    <2>1. LocalStages(op, c) = {c, DropPers(c, g)}
      BY <1>5, <2>0 DEF LocalStages
    <2>2. CASE stage = "drop"
      <3>1. fault
        BY <1>5, <2>2 DEF NextStage
      <3> QED BY <1>2, <2>1, <2>2, <3>1 DEF Before
    <2>3. CASE stage = "unlink"
      <3>1. pre = DropPers(c, g) /\ pre.file = c.file
        BY <2>0, <2>3, Erased DEF Before
      <3>2. StageMade(op, stage, pre) = Erase(c, g)
        BY <1>5, <2>3, <3>1, DropMade
      <3>3. ~fault => Fail(d, err) = LocalCall(op, c)
        BY <1>5, <2>0, <2>3, <3>1, <3>2, Erased DEF LocalCall, LocalDelete, Done, Fail
      <3> QED BY <1>2, <2>1, <3>1, <3>3
    <2> QED BY <2>0, <2>2, <2>3
  <1>6. CASE op.act \in {"subscribe", "unsubscribe"}
    <2>1. pre = c /\ stage = IF op.act = "subscribe" THEN "sub" ELSE "unsub"
      BY <1>6, FitsOp DEF Before
    <2>2. fault => d \in LocalStages(op, c)
      BY <1>6, <2>1 DEF LocalStages
    <2>3. ~fault => Fail(d, err) = LocalCall(op, c)
      BY <1>6, <2>1, SubsMade DEF LocalCall, LocalSubscribe, LocalUnsubscribe, Done, Fail
    <2> QED BY <1>2, <2>2, <2>3
  <1> QED BY <1>1, <1>3, <1>4, <1>5, <1>6 DEF Actions

\* Away from the subscribers, a stage leaves their object as it is.
LEMMA ListingSame ==
    ASSUME NEW c \in Content, NEW stage, stage \notin {"sub", "unsub"}
    PROVE  Listing(stage, c) = c
  BY DEF Listing, Content

\* The same for S3, where a request that fails may have taken effect.
LEMMA S3Ends ==
    ASSUME kind = "s3",
           NEW op \in StoreOp, NEW stage, Fits(op, stage), stage \notin {"find", "load"},
           NEW c \in Content, NEW failed \in BOOLEAN, NEW pre \in Before(op, stage, c, failed),
           NEW d, NEW err,
           \/ /\ d = Listing(stage, StageMade(op, stage, pre))
              /\ err = "nil" \/ (failed /\ err = "other")
              /\ stage = "sub" => op.email \notin c.subs
              /\ stage = "unsub" => c.subsFile
           \/ failed /\ d = pre /\ err = "other",
           NextStage(op, stage, err) = "end"
    PROVE  Allowed(op, c, failed, Fail(d, err))
  <1> DEFINE g == Target(op)
             made == StageMade(op, stage, pre)
  <1>1. op.act # "read" /\ op.act \in Actions
    BY FitsOp
  <1>2. /\ Done(d) = S3Call(op, c) => Allowed(op, c, failed, Fail(d, err))
        /\ failed /\ err = "other" /\ d \in S3Stages(op, c) =>
               Allowed(op, c, failed, Fail(d, err))
        /\ failed /\ d \in Swallowed("s3", op, c) => Allowed(op, c, failed, Fail(d, err))
    <2>1. Swallowed("s3", op, c) \subseteq S3Stages(op, c) /\ S3Call(op, c).content \in S3Stages(op, c)
      BY DEF S3Stages
    <2>2. failed /\ err = "other" /\ d \in S3Stages(op, c) => Allowed(op, c, failed, Fail(d, err))
      BY <1>1 DEF Allowed, Disturbed, Faulty, Stages
    <2>3. Done(d) = S3Call(op, c) /\ err = "nil" => Allowed(op, c, failed, Fail(d, err))
      BY <1>1 DEF Allowed, Outcome, Apply, Done, Fail
    <2>4. Done(d) = S3Call(op, c) => d = S3Call(op, c).content
      BY DEF Done
    <2>5. failed /\ err = "nil" /\ d \in Swallowed("s3", op, c) => Allowed(op, c, failed, Fail(d, err))
      BY <1>1 DEF Allowed, Disturbed, Faulty, Done, Fail
    <2> QED BY <2>1, <2>2, <2>3, <2>4, <2>5
  <1>3. CASE op.act = "created"
    <2>1. pre = c /\ stage \in {"add", "file"} /\ op.inc \in Incident
      BY <1>3, FitsOp DEF Before
    <2>2. made = Put(c, op.inc)
      BY <1>3, <2>1, FitsOp, AddMade, FileMade
    <2>3. Listing(stage, made) = Put(c, op.inc)
      BY <2>1, <2>2, PutType, ListingSame
    <2>4. Done(Put(c, op.inc)) = S3Call(op, c)
      BY <1>3 DEF S3Call, S3Create
    <2>5. c \in S3Stages(op, c)
      BY DEF S3Stages
    <2> QED BY <1>2, <2>1, <2>3, <2>4, <2>5
  <1>4. CASE op.act = "updated"
    <2>0. op.inc \in Incident /\ op.inc.guid = g /\ op.inc.persistent \in BOOLEAN /\ g \in Guids
      BY <1>4, FitsOp
    <2>1. \/ stage = "add" /\ op.inc.persistent
          \/ stage = "file" /\ ~op.inc.persistent
      BY <1>4, FitsOp DEF NextStage
    <2>2. S3Call(op, c) = Done(Replace(c, op.inc))
      BY <1>4 DEF S3Call, S3Update
    <2>3. Swallowed("s3", op, c) = {Put(c, op.inc)}
      BY <1>4 DEF Swallowed
    <2>4. UpdateStages(op.inc, c) \subseteq S3Stages(op, c)
      BY <1>4 DEF S3Stages
    <2>5. /\ pre \in UpdateStages(op.inc, c)
          /\ made = Replace(c, op.inc) \/ (failed /\ made = Put(c, op.inc))
      <3>1. CASE stage = "add"
        <4>1. pre = Erase(c, g) \/ (failed /\ pre \in {c, DropPers(c, g)})
          BY <1>4, <2>0, <2>1, <3>1 DEF Before, UpdateStages
        <4>2. pre \in UpdateStages(op.inc, c)
          BY <2>0, <2>1, <3>1, <4>1 DEF UpdateStages
        <4> QED BY <1>4, <2>0, <2>1, <3>1, <4>1, <4>2, AddMade
      <3>2. CASE stage = "file"
        <4>1. pre = DropPers(c, g) \/ (failed /\ pre = c)
          BY <1>4, <3>2 DEF Before
        <4>2. pre \in UpdateStages(op.inc, c)
          BY <2>0, <4>1 DEF UpdateStages
        <4> QED BY <1>4, <2>0, <2>1, <3>2, <4>1, <4>2, FileMade
      <3> QED BY <2>1, <3>1, <3>2
    <2>6. Listing(stage, made) = made
      BY <2>0, <2>1, <2>5, PutType, ListingSame
    <2>7. CASE d = pre /\ failed /\ err = "other"
      BY <1>2, <2>4, <2>5, <2>7
    <2>8. CASE d = made
      BY <1>2, <2>2, <2>3, <2>5, <2>8
    <2> QED BY <2>6, <2>7, <2>8
  <1>5. CASE op.act = "deleted"
    <2>0. op.guid = g /\ g \in Guids /\ stage \in {"drop", "unlink"}
      BY <1>5, FitsOp
    <2>1. c \in S3Stages(op, c) /\ DropPers(c, g) \in S3Stages(op, c)
      BY <1>5, <2>0 DEF S3Stages
    <2>2. CASE stage = "drop"
      <3>1. err = "other" /\ failed
        BY <1>5, <2>2 DEF NextStage
      <3>2. pre = c /\ made = DropPers(c, g)
        BY <1>5, <2>2, DropMade DEF Before
      <3>3. Listing(stage, made) = DropPers(c, g)
        BY <2>0, <2>2, <3>2, EditsType, ListingSame
      <3> QED BY <1>2, <2>1, <3>1, <3>2, <3>3
    <2>3. CASE stage = "unlink"
      <3>1. pre = DropPers(c, g) /\ made = Erase(c, g)
        BY <1>5, <2>0, <2>3, DropMade DEF Before
      <3>2. Listing(stage, made) = Erase(c, g)
        BY <2>0, <2>3, <3>1, EditsType, ListingSame
      <3>3. Done(Erase(c, g)) = S3Call(op, c)
        BY <1>5, <2>0 DEF S3Call, S3Delete
      <3> QED BY <1>2, <2>1, <3>1, <3>2, <3>3
    <2> QED BY <2>0, <2>2, <2>3
  <1>6. CASE op.act = "subscribe"
    <2>1. pre = c /\ stage = "sub" /\ made = AddSub(c, op.email)
      BY <1>6, FitsOp, SubsMade DEF Before
    <2>2. Listing(stage, made) = [AddSub(c, op.email) EXCEPT !.subsFile = TRUE]
      BY <2>1 DEF Listing, AddSub, Content
    <2>3. op.email \notin c.subs => Done(Listing(stage, made)) = S3Call(op, c)
      BY <1>6, <2>1, <2>2 DEF S3Call, S3Subscribe
    <2>4. c \in S3Stages(op, c)
      BY DEF S3Stages
    <2> QED BY <1>2, <2>1, <2>3, <2>4
  <1>7. CASE op.act = "unsubscribe"
    <2>1. pre = c /\ stage = "unsub" /\ made = DropSub(c, op.email)
      BY <1>7, FitsOp, SubsMade DEF Before
    <2>2. c.subsFile => Listing(stage, made) = DropSub(c, op.email)
      BY <2>1 DEF Listing, DropSub, Content
    <2>3. c.subsFile => Done(Listing(stage, made)) = S3Call(op, c)
      BY <1>7, <2>1, <2>2 DEF S3Call, S3Unsubscribe
    <2>4. c \in S3Stages(op, c)
      BY DEF S3Stages
    <2> QED BY <1>2, <2>1, <2>3, <2>4
  <1> QED BY <1>1, <1>3, <1>4, <1>5, <1>6, <1>7 DEF Actions

\* A list of subscribers that could not be read is taken for an empty one.
LEMMA S3ListLost ==
    ASSUME kind = "s3", NEW op \in StoreOp, op.act = "subscribe", NEW c \in Content,
           NEW err \in {"nil", "other"}
    PROVE  Allowed(op, c, TRUE, Fail([c EXCEPT !.subs = {op.email}, !.subsFile = TRUE], err))
  <1> DEFINE d == [c EXCEPT !.subs = {op.email}, !.subsFile = TRUE]
  <1>1. d \in Swallowed("s3", op, c)
    BY DEF Swallowed
  <1>2. d \in Stages("s3", op, c)
    BY <1>1 DEF Stages, S3Stages
  <1> HIDE DEF d
  <1>3. err = "nil" => Allowed(op, c, TRUE, Fail(d, err))
    BY <1>1 DEF Allowed, Disturbed, Faulty, Done, Fail
  <1>4. err = "other" => Allowed(op, c, TRUE, Fail(d, err))
    BY <1>2 DEF Allowed, Disturbed, Faulty
  <1> QED BY <1>3, <1>4 DEF d

\* A list in which there is nothing to change ends a call of Local or S3.
LEMMA FoundEnds ==
    ASSUME kind \in {"local", "s3"}, NEW op \in StoreOp, NEW stage, Fits(op, stage),
           NEW c \in Content, NEW failed, Found(op, stage, ListIn(c, ListOf(stage)))
    PROVE  Allowed(op, c, failed, Fail(c, "nil"))
  <1>1. CASE stage = "find"
    <2>1. op.act = "read" /\ Readable(c, op.guid)
      BY <1>1, FitsOp DEF Found, ListIn, ListOf, Readable, Actions
    <2> QED BY <2>1 DEF Allowed, Outcome, Fail
  <1>2. CASE stage = "sub"
    <2>1. op.act = "subscribe" /\ op.email \in c.subs
      BY <1>2, FitsOp DEF Found, ListIn, ListOf, Actions
    <2>2. AddSub(c, op.email) = c
      BY <2>1, SubsMade
    <2>3. Apply(kind, op, c) = Fail(c, "nil")
      BY <2>1, <2>2 DEF Apply, LocalCall, LocalSubscribe, S3Call, S3Subscribe, Done, Fail
    <2> QED BY <2>1, <2>3 DEF Allowed, Outcome
  <1> QED BY <1>1, <1>2 DEF Found

-----------------------------------------------------------------------------
(* Lemmas about steps *)

\* What one step of a call may be: the call goes on, unseen by the caller, or
\* ends as Backends says.
StepOk ==
    /\ Frame' /\ start' = start /\ kind' = kind
    /\ \/ InCall' /\ client'[Caller].op = client[Caller].op /\ reply' = reply
       \/ /\ Resting'
          /\ Allowed(client[Caller].op, start[Caller].content, Failed', Fail(Kept', reply'[Caller]))

\* A call ends with a content.
LEMMA AllowedType ==
    ASSUME kind \in Kinds, NEW op \in StoreOp, NEW c \in Content, NEW failed, NEW d, NEW err,
           Allowed(op, c, failed, Fail(d, err))
    PROVE  d \in Content
  <1>1. CASE op.act = "read"
    BY <1>1 DEF Allowed, Outcome, Disturbed, Fail
  <1>2. CASE op.act # "read"
    <2>1. op \in Op
      BY <1>2 DEF StoreOp, ReadOp
    <2>2. Fail(d, err) \in Result
      BY <1>2, <2>1, ApplyType, FaultyType DEF Allowed, Outcome, Disturbed
    <2> QED BY <2>2 DEF Fail, Result
  <1> QED BY <1>1, <1>2

\* Where a call goes on, and what it leaves alone.
LEMMA Gone ==
    ASSUME Frame, OneCaller, NEW stage, NEW err, GoTo(Caller, stage, err)
    PROVE  /\ client'[Caller] = At(client[Caller].op, stage)
           /\ DOMAIN client' = Clients /\ DOMAIN reply' = Clients
           /\ start' = start
           /\ stage = "end" => reply'[Caller] = err
           /\ stage # "end" => reply' = reply
  BY DEF GoTo, Frame, OneCaller

\* The frame of a step, which may count one more failure.
LEMMA FrameStep ==
    ASSUME Frame, DOMAIN client' = Clients, DOMAIN reply' = Clients, start' = start,
           DOMAIN pending' = Clients, DOMAIN lists' = Lists, kind' = kind,
           env' = env \/ env' = [env EXCEPT !.faults = env.faults + 1]
    PROVE  /\ Frame'
           /\ Failed => Failed'
           /\ env' = env => Failed' = Failed
           /\ env' = [env EXCEPT !.faults = env.faults + 1] => Failed'
  BY DEF Frame, Failed

\* A call that returns what it may.
LEMMA Returns ==
    ASSUME Frame, OneCaller, InCall, NEW err, GoTo(Caller, "end", err), Frame', kind' = kind,
           pending'[Caller] = "nil",
           Allowed(client[Caller].op, start[Caller].content, Failed', Fail(Kept', err))
    PROVE  StepOk
  <1>1. client'[Caller] = Idle
    BY Gone DEF At, Entry, Idle
  <1>2. Kept' \in Content
    BY AllowedType DEF InCall, Frame
  <1> QED BY <1>1, <1>2, Gone DEF StepOk, Resting

\* What may be there when nothing failed may be there when something did.
LEMMA BeforeGrows ==
    ASSUME NEW op, NEW stage, NEW c, NEW f \in BOOLEAN, NEW h \in BOOLEAN, f => h
    PROVE  Before(op, stage, c, f) \subseteq Before(op, stage, c, h)
  BY DEF Before

\* Before a stage the store holds a content.
LEMMA BeforeType ==
    ASSUME NEW op \in StoreOp, NEW stage, Fits(op, stage), NEW c \in Content, NEW failed
    PROVE  Before(op, stage, c, failed) \subseteq Content
  <1> DEFINE g == Target(op)
  <1>1. CASE op.act \in {"subscribe", "unsubscribe"}
    BY <1>1, FitsOp DEF Before
  <1>2. CASE op.act \notin {"subscribe", "unsubscribe"}
    <2>1. g \in Guids /\ DropPers(c, g) \in Content /\ Erase(c, g) \in Content
      BY <1>2, FitsOp, EditsType
    <2>2. op.act = "updated" => UpdateStages(op.inc, c) \subseteq Content
      BY <2>1, FitsOp DEF UpdateStages
    <2> QED BY <2>1, <2>2 DEF Before
  <1> QED BY <1>1, <1>2

-----------------------------------------------------------------------------
(* Local *)

\* A stage is over.
LEMMA LocalFinish ==
    ASSUME Frame, OneCaller, kind = "local", InCall, Frame', kind' = kind, pending' = pending,
           Failed => Failed',
           client[Caller].stage \notin {"find", "load"},
           NEW pre \in Before(client[Caller].op, client[Caller].stage, start[Caller].content, Failed),
           NEW err, Finish(Caller, err),
           \/ /\ Decoded' = StageMade(client[Caller].op, client[Caller].stage, pre)
              /\ err = IF client[Caller].stage = "unlink"
                         /\ pre.file[Target(client[Caller].op)] = None
                       THEN "notexist" ELSE "nil"
           \/ Failed' /\ Decoded' = pre /\ err = "other"
    PROVE  StepOk
  <1> DEFINE op == client[Caller].op
             stage == client[Caller].stage
             c == start[Caller].content
             n == NextStage(op, stage, err)
  <1>1. op \in StoreOp /\ c \in Content /\ Fits(op, stage) /\ pending[Caller] = "nil"
    BY DEF InCall, InLocal
  <1>0. Failed \in BOOLEAN /\ Failed' \in BOOLEAN
    BY DEF Failed
  <1>2. pre \in Before(op, stage, c, Failed')
    BY <1>0, BeforeGrows
  <1>3. GoTo(Caller, n, err)
    BY DEF Finish
  <1>4. CASE n = "end"
    <2>1. Allowed(op, c, Failed', Fail(Decoded', err))
      BY <1>0, <1>1, <1>2, <1>4, LocalEnds
    <2>2. Kept' = Decoded'
      BY DEF Kept
    <2> QED BY <1>1, <1>3, <1>4, <2>1, <2>2, Returns
  <1>5. CASE n # "end"
    <2>1. /\ Fits(op, n) /\ n \notin {"find", "load"}
          /\ Decoded' \in Before(op, n, c, Failed')
      BY <1>0, <1>1, <1>2, <1>5, GoesOn
    <2>2. client'[Caller] = [pc |-> Entry(n), stage |-> n, list |-> None, op |-> op]
      BY <1>3, <1>5, Gone DEF At
    <2>3. start' = start /\ reply' = reply
      BY <1>3, <1>5, Gone
    <2>4. InLocal'
      BY <2>1, <2>2, <2>3 DEF InLocal, LocalAt
    <2>5. InCall'
      BY <1>1, <2>2, <2>3, <2>4 DEF InCall
    <2> QED BY <2>2, <2>3, <2>5 DEF StepOk
  <1> QED BY <1>4, <1>5

\* What the place of a call in Local says.
LEMMA LocalPlace ==
    ASSUME kind = "local", InCall, NEW k, k = client[Caller], NEW pre, LocalAt(k, pre)
    PROVE  /\ k.stage \in ListStages \cup {"find", "load", "unlink", "file"}
           /\ k.pc \in {"read", "unlink", "create", "load"} => k.pc = Entry(k.stage) /\ Decoded = pre
           /\ k.pc = "read" => k.stage \in ListStages \cup {"find"}
           /\ k.pc = "unlink" => k.stage = "unlink"
           /\ k.pc \in {"create", "fill"} => k.stage = "file"
           /\ k.pc = "load" => k.stage = "load"
           /\ k.pc \in {"lock", "open"} =>
                /\ k.stage \in ListStages /\ Decoded = pre
                /\ k.list = EditedIn(k.op, k.stage, pre)
           /\ k.pc = "write" =>
                /\ k.stage \in ListStages /\ lists[ListOf(k.stage)] = Truncated
                /\ Decoded = WithList(pre, ListOf(k.stage), Truncated)
                /\ k.list = EditedIn(k.op, k.stage, pre)
           /\ k.pc = "fill" =>
                /\ Caller \in linked /\ Decoded = WithFile(pre, Target(k.op), Truncated)
  <1>1. k.stage \in {"add", "file", "drop", "unlink", "sub", "unsub", "find", "load"}
    BY FitsOp DEF InCall, InLocal, Actions
  <1> QED BY <1>1 DEF LocalAt, Entry, ListStages

\* A list is read.
LEMMA LocalRead ==
    ASSUME Frame, OneCaller, kind = "local", InCall, kind' = kind, pending' = pending,
           ReadList(Caller)
    PROVE  StepOk
  <1> DEFINE k == client[Caller]
             op == client[Caller].op
             stage == client[Caller].stage
             c == start[Caller].content
             list == lists[ListOf(stage)]
  <1>1. op \in StoreOp /\ c \in Content /\ Fits(op, stage) /\ pending[Caller] = "nil" /\ k.pc = "read"
    BY DEF InCall, InLocal, ReadList
  <1>2. PICK pre \in Before(op, stage, c, Failed) : LocalAt(k, pre)
    BY DEF InCall, InLocal
  <1>3. pre \in Content /\ Decoded = pre /\ stage \in ListStages \cup {"find"} /\ k.pc = Entry(stage)
    BY <1>1, <1>2, LocalPlace, BeforeType
  <1>4. list = ListIn(pre, ListOf(stage))
    BY <1>3 DEF Decoded, ListIn, ListOf
  <1>5. list \notin Broken
    BY <1>3, <1>4, LocalAssumption DEF Content, ListIn, Broken
  <1>6. /\ DOMAIN client' = Clients /\ DOMAIN reply' = Clients /\ start' = start
        /\ env' = env /\ DOMAIN lists' = Lists /\ DOMAIN pending' = Clients /\ Decoded' = Decoded
    BY DEF ReadList, GoTo, Frame, Decoded
  <1>7. Frame' /\ Failed' = Failed
    BY <1>6, FrameStep
  <1>8. CASE Found(op, stage, list) /\ GoTo(Caller, "end", "nil")
    <2>1. pre = c
      BY <1>2, <1>8 DEF Before, Found
    <2>2. Allowed(op, c, Failed', Fail(c, "nil"))
      BY <1>1, <1>4, <1>8, <2>1, FoundEnds
    <2>3. Kept' = c
      BY <1>3, <1>6, <2>1 DEF Kept
    <2> QED BY <1>1, <1>7, <1>8, <2>2, <2>3, Returns
  <1>9. CASE ~Found(op, stage, list) /\ stage = "find" /\ GoTo(Caller, "load", "nil")
    <2>1. pre = c /\ op.act = "read" /\ c.pers[op.guid] = None
      BY <1>1, <1>2, <1>4, <1>9, FitsOp DEF Before, Found, ListIn, ListOf, Actions
    <2>2. client'[Caller] = [pc |-> "load", stage |-> "load", list |-> None, op |-> op]
      BY <1>9, Gone DEF At, Entry
    <2>3. start' = start /\ reply' = reply
      BY <1>9, Gone
    <2>4. Fits(op, "load")
      BY <2>1 DEF Fits, StagesOf
    <2>5. c \in Before(op, "load", c, Failed')
      BY DEF Before
    <2>6. InLocal'
      BY <1>3, <1>6, <2>1, <2>2, <2>3, <2>4, <2>5 DEF InLocal, LocalAt, Entry
    <2> QED BY <1>1, <1>7, <2>2, <2>3, <2>6 DEF StepOk, InCall
  <1>10. CASE /\ stage # "find" /\ client' = [client EXCEPT ![Caller] = Moved(k, "lock", Edited(op, stage, list))]
              /\ UNCHANGED <<reply, start, acked, doomed>>
    <2>1. client'[Caller] = [pc |-> "lock", stage |-> stage, op |-> op, list |-> EditedIn(op, stage, pre)]
      BY <1>4, <1>10 DEF Moved, Frame, OneCaller, EditedIn
    <2>2. stage \in ListStages
      BY <1>3, <1>10
    <2>3. LocalAt(client[Caller], pre)'
      BY <1>3, <1>6, <2>1, <2>2 DEF LocalAt
    <2>4. pre \in Before(op, stage, c, Failed')
      BY <1>2, <1>7
    <2>5. InLocal'
      BY <1>1, <1>6, <2>1, <2>2, <2>3, <2>4 DEF InLocal, ListStages
    <2> QED BY <1>1, <1>6, <1>7, <1>10, <2>1, <2>5 DEF StepOk, InCall
  <1> QED BY <1>5, <1>8, <1>9, <1>10 DEF ReadList

\* A content with other files.
LEMMA OtherFiles ==
    ASSUME NEW c, NEW f,
           c = [file |-> c.file, pers |-> c.pers, msgs |-> c.msgs, subs |-> c.subs,
                subsFile |-> c.subsFile]
    PROVE  [c EXCEPT !.file = f] = [file |-> f, pers |-> c.pers, msgs |-> c.msgs,
                                    subs |-> c.subs, subsFile |-> c.subsFile]
  OBVIOUS

\* A change of one file.
LEMMA FileStep ==
    ASSUME NEW g, NEW v, files' = [files EXCEPT ![g] = v], lists' = lists
    PROVE  Decoded' = WithFile(Decoded, g, v)
  <1>1. WithFile(Decoded, g, v) = [Decoded EXCEPT !.file = [Decoded.file EXCEPT ![g] = v]]
    BY DEF WithFile, Decoded
  <1>2. Decoded = [file |-> Decoded.file, pers |-> Decoded.pers, msgs |-> Decoded.msgs,
                   subs |-> Decoded.subs, subsFile |-> Decoded.subsFile]
    BY DEF Decoded
  <1>3. [Decoded EXCEPT !.file = files'] =
            [file |-> files', pers |-> Decoded.pers, msgs |-> Decoded.msgs,
             subs |-> Decoded.subs, subsFile |-> Decoded.subsFile]
    BY <1>2, OtherFiles
  <1>4. Decoded' = [file |-> files', pers |-> Decoded.pers, msgs |-> Decoded.msgs,
                    subs |-> Decoded.subs, subsFile |-> Decoded.subsFile]
    BY DEF Decoded
  <1>5. Decoded.file = files
    BY DEF Decoded
  <1> QED BY <1>1, <1>3, <1>4, <1>5

\* The system calls in the middle of a stage.
LEMMA LocalMiddle ==
    ASSUME Frame, OneCaller, kind = "local", InCall, kind' = kind, pending' = pending,
           Lock(Caller) \/ OpenList(Caller) \/ CreateFile(Caller)
    PROVE  StepOk
  <1> DEFINE k == client[Caller]
             op == client[Caller].op
             stage == client[Caller].stage
             c == start[Caller].content
             l == ListOf(stage)
  <1>1. op \in StoreOp /\ c \in Content /\ Fits(op, stage) /\ pending[Caller] = "nil"
    BY DEF InCall, InLocal
  <1>2. PICK pre \in Before(op, stage, c, Failed) : LocalAt(k, pre)
    BY DEF InCall, InLocal
  <1>3. pre \in Content
    BY <1>1, <1>2, BeforeType
  <1>4. /\ DOMAIN client' = Clients /\ reply' = reply /\ start' = start
        /\ env' = env /\ DOMAIN lists' = Lists
    BY DEF Lock, OpenList, CreateFile, Frame
  <1>5. Frame' /\ Failed' = Failed
    BY <1>4, FrameStep DEF Frame
  <1>6. SUFFICES /\ client'[Caller].op = op /\ client'[Caller].stage = stage
                 /\ stage # "load" /\ LocalAt(client[Caller], pre)'
    BY <1>1, <1>2, <1>4, <1>5 DEF StepOk, InCall, InLocal
  <1>7. CASE Lock(Caller)
    <2>1. /\ stage \in ListStages /\ Decoded = pre /\ k.list = EditedIn(op, stage, pre)
      BY <1>2, <1>7, LocalPlace DEF Lock
    <2>2. client'[Caller] = [pc |-> "open", stage |-> stage, op |-> op, list |-> k.list]
      BY <1>7 DEF Lock, Moved, Frame, OneCaller
    <2>3. Decoded' = Decoded
      BY <1>7 DEF Lock, Decoded
    <2> QED BY <2>1, <2>2, <2>3 DEF LocalAt, ListStages
  <1>8. CASE OpenList(Caller)
    <2>1. /\ stage \in ListStages /\ Decoded = pre /\ k.list = EditedIn(op, stage, pre)
      BY <1>2, <1>8, LocalPlace DEF OpenList
    <2>2. client'[Caller] = [pc |-> "write", stage |-> stage, op |-> op, list |-> k.list]
      BY <1>8 DEF OpenList, Moved, Frame, OneCaller
    <2>3. l \in Lists
      BY DEF ListOf, Lists
    <2>4. lists' = [lists EXCEPT ![l] = Truncated] /\ files' = files
      BY <1>8 DEF OpenList
    <2>5. lists'[l] = Truncated
      BY <2>3, <2>4 DEF Frame
    <2>6. Decoded' = WithList(Decoded, l, Truncated)
      BY <2>3, <2>4 DEF Decoded, WithList, Lists, Frame
    <2> QED BY <2>1, <2>2, <2>5, <2>6 DEF LocalAt, ListStages
  <1>9. CASE CreateFile(Caller)
    <2>1. stage = "file" /\ Decoded = pre
      BY <1>2, <1>9, LocalPlace DEF CreateFile
    <2>2. client'[Caller] = [pc |-> "fill", stage |-> stage, op |-> op, list |-> None]
      BY <1>9 DEF CreateFile, Moved, Frame, OneCaller
    <2>3. Decoded' = WithFile(Decoded, Target(op), Truncated)
      BY <1>9, FileStep DEF CreateFile
    <2>4. Caller \in linked'
      BY <1>9 DEF CreateFile
    <2> QED BY <2>1, <2>2, <2>3, <2>4 DEF LocalAt
  <1> QED BY <1>7, <1>8, <1>9

\* The system calls that end the writing of a list or of a file.
LEMMA LocalWritten ==
    ASSUME Frame, OneCaller, kind = "local", InCall, kind' = kind, pending' = pending,
           WriteList(Caller) \/ Unlink(Caller) \/ FillFile(Caller)
    PROVE  StepOk
  <1> DEFINE k == client[Caller]
             op == client[Caller].op
             stage == client[Caller].stage
             c == start[Caller].content
             l == ListOf(stage)
             g == Target(op)
  <1>1. op \in StoreOp /\ c \in Content /\ Fits(op, stage) /\ pending[Caller] = "nil"
    BY DEF InCall, InLocal
  <1>2. PICK pre \in Before(op, stage, c, Failed) : LocalAt(k, pre)
    BY DEF InCall, InLocal
  <1>3. pre \in Content
    BY <1>1, <1>2, BeforeType
  <1>4. PICK err : Finish(Caller, err) /\ (err = IF Unlink(Caller) /\ files[g] = None THEN "notexist" ELSE "nil")
    BY DEF WriteList, Unlink, FillFile
  <1>5. /\ DOMAIN client' = Clients /\ DOMAIN reply' = Clients /\ start' = start
        /\ env' = env /\ DOMAIN lists' = Lists /\ DOMAIN pending' = Clients
    BY <1>4, Gone DEF WriteList, Unlink, FillFile, Frame, Finish
  <1>6. Frame' /\ Failed' = Failed
    BY <1>5, FrameStep
  <1>7. CASE WriteList(Caller)
    <2>1. /\ stage \in ListStages /\ lists[l] = Truncated
          /\ Decoded = WithList(pre, l, Truncated) /\ k.list = EditedIn(op, stage, pre)
      BY <1>2, <1>7, LocalPlace DEF WriteList
    <2>2. l \in Lists
      BY DEF ListOf, Lists
    <2>3. lists' = [lists EXCEPT ![l] = k.list] /\ files' = files
      BY <1>7, <2>1 DEF WriteList, Written
    <2>4. Decoded' = WithList(Decoded, l, k.list)
      BY <2>2, <2>3 DEF Decoded, WithList, Lists, Frame
    <2>5. Decoded' = WithList(pre, l, k.list)
      <3>1. WithList(WithList(pre, l, Truncated), l, k.list) = WithList(pre, l, k.list)
        BY <1>3, <2>2 DEF WithList, Content, Lists
      <3> QED BY <2>1, <2>4, <3>1
    <2>6. Decoded' = StageMade(op, stage, pre)
      BY <2>1, <2>5 DEF StageMade
    <2>7. err = "nil" /\ stage # "unlink"
      BY <1>4, <1>7, <2>1 DEF WriteList, Unlink, ListStages
    <2> QED BY <1>2, <1>4, <1>6, <2>1, <2>6, <2>7, LocalFinish DEF ListStages
  <1>8. CASE Unlink(Caller)
    <2>1. stage = "unlink" /\ Decoded = pre
      BY <1>2, <1>8, LocalPlace DEF Unlink
    <2>2. Decoded' = WithFile(Decoded, g, None)
      BY <1>8, FileStep DEF Unlink
    <2>3. Decoded' = StageMade(op, stage, pre)
      BY <2>1, <2>2 DEF StageMade, ListStages
    <2>4. pre.file = files
      BY <2>1 DEF Decoded
    <2> QED BY <1>2, <1>4, <1>6, <1>8, <2>1, <2>3, <2>4, LocalFinish
  <1>9. CASE FillFile(Caller)
    <2>1. stage = "file" /\ Caller \in linked /\ Decoded = WithFile(pre, g, Truncated)
      BY <1>2, <1>9, LocalPlace DEF FillFile
    <2>2. g \in Guids
      BY <1>1, <2>1, FitsOp DEF Actions
    <2>3. files[g] = Truncated
      <3>1. files = [pre.file EXCEPT ![g] = Truncated]
        BY <1>3, <2>1 DEF Decoded, WithFile, Content
      <3> QED BY <1>3, <2>2, <3>1 DEF Content, Shelf
    <2>4. files' = [files EXCEPT ![g] = op.inc.ver] /\ lists' = lists
      BY <1>9, <2>1, <2>3 DEF FillFile, Written
    <2>5. Decoded' = WithFile(Decoded, g, op.inc.ver)
      BY <2>4, FileStep
    <2>6. Decoded' = StageMade(op, stage, pre)
      <3>1. WithFile(WithFile(pre, g, Truncated), g, op.inc.ver) = WithFile(pre, g, op.inc.ver)
        BY <1>3, <2>2, FileTwice
      <3>2. StageMade(op, stage, pre) = WithFile(pre, g, op.inc.ver)
        BY <2>1 DEF StageMade, ListStages
      <3> QED BY <2>1, <2>5, <3>1, <3>2
    <2>7. err = "nil"
      BY <1>4, <1>9 DEF FillFile, Unlink
    <2> QED BY <1>2, <1>4, <1>6, <2>1, <2>6, <2>7, LocalFinish
  <1> QED BY <1>7, <1>8, <1>9

\* Read looks for the file of the incident.
LEMMA LocalLoad ==
    ASSUME Frame, OneCaller, kind = "local", InCall, kind' = kind, pending' = pending,
           LoadFile(Caller)
    PROVE  StepOk
  <1> DEFINE k == client[Caller]
             op == client[Caller].op
             stage == client[Caller].stage
             c == start[Caller].content
             v == files[op.guid]
             err == IF v = None THEN "notexist" ELSE "nil"
  <1>1. op \in StoreOp /\ c \in Content /\ Fits(op, stage) /\ pending[Caller] = "nil" /\ k.pc = "load"
    BY DEF InCall, InLocal, LoadFile
  <1>2. PICK pre \in Before(op, stage, c, Failed) : LocalAt(k, pre)
    BY DEF InCall, InLocal
  <1>3. stage = "load" /\ pre = c /\ Decoded = c /\ op.act = "read" /\ c.pers[op.guid] = None
    <2>1. stage = "load" /\ Decoded = pre
      BY <1>1, <1>2, LocalPlace
    <2>2. pre = c
      BY <1>2, <2>1 DEF Before
    <2>3. op.act = "read"
      BY <1>1, <2>1, FitsOp DEF Actions
    <2> QED BY <2>1, <2>2, <2>3 DEF InCall, InLocal
  <1>4. op.guid \in Guids
    BY <1>1, <1>3, CallFields
  <1>5. v \in Versions \cup {None}
    BY <1>1, <1>3, <1>4 DEF Decoded, Content, Shelf
  <1>6. v \notin Broken
    BY <1>5, LocalAssumption
  <1>7. GoTo(Caller, "end", err)
    BY <1>3, <1>6 DEF LoadFile, Finish, NextStage
  <1>8. /\ DOMAIN client' = Clients /\ DOMAIN reply' = Clients /\ start' = start
        /\ env' = env /\ DOMAIN lists' = Lists /\ DOMAIN pending' = Clients
    BY <1>7, Gone DEF LoadFile, Frame
  <1>9. Frame'
    BY <1>8, FrameStep
  <1>10. Kept' = c
    BY <1>3 DEF LoadFile, Kept, Decoded
  <1>11. Readable(c, op.guid) <=> v # None
    BY <1>3 DEF Readable, Decoded
  <1>12. Allowed(op, c, Failed', Fail(c, err))
    BY <1>3, <1>11 DEF Allowed, Outcome, Missing, Fail
  <1> QED BY <1>1, <1>7, <1>9, <1>10, <1>12, Returns

\* A system call fails.
LEMMA LocalFails ==
    ASSUME Frame, OneCaller, kind = "local", InCall, kind' = kind, pending' = pending, Fault(Caller)
    PROVE  StepOk
  <1> DEFINE k == client[Caller]
             op == client[Caller].op
             stage == client[Caller].stage
             c == start[Caller].content
  <1>1. op \in StoreOp /\ c \in Content /\ Fits(op, stage) /\ pending[Caller] = "nil"
    BY DEF InCall, InLocal
  <1>2. PICK pre \in Before(op, stage, c, Failed) : LocalAt(k, pre)
    BY DEF InCall, InLocal
  <1>3. Decoded = pre /\ Decoded' = Decoded
    BY <1>2, LocalPlace DEF Fault, Decoded
  <1>4. /\ DOMAIN client' = Clients /\ DOMAIN reply' = Clients /\ start' = start
        /\ env' = [env EXCEPT !.faults = env.faults + 1]
        /\ DOMAIN lists' = Lists /\ DOMAIN pending' = Clients
    BY Gone DEF Fault, Finish, Frame
  <1>5. Frame' /\ Failed'
    BY <1>4, FrameStep
  <1>6. CASE stage \in {"find", "load"}
    <2>1. pre = c /\ op.act = "read"
      BY <1>1, <1>2, <1>6, FitsOp DEF Before, Actions
    <2>2. GoTo(Caller, "end", "other")
      BY <1>6 DEF Fault, Finish, NextStage
    <2>3. Allowed(op, c, Failed', Fail(c, "other"))
      BY <1>5, <2>1 DEF Allowed, Disturbed
    <2>4. Kept' = c
      BY <1>3, <2>1 DEF Kept
    <2> QED BY <1>1, <1>5, <2>2, <2>3, <2>4, Returns
  <1>7. CASE stage \notin {"find", "load"}
    <2>1. Finish(Caller, "other")
      BY DEF Fault
    <2> QED BY <1>2, <1>3, <1>5, <1>7, <2>1, LocalFinish
  <1> QED BY <1>6, <1>7

\* A step of a call on a Local store.
LEMMA LocalStep ==
    ASSUME Frame, OneCaller, kind = "local", InCall, kind' = kind, pending' = pending,
           Step(Caller) \/ Fault(Caller)
    PROVE  StepOk
  BY LocalRead, LocalMiddle, LocalWritten, LocalLoad, LocalFails DEF Step

-----------------------------------------------------------------------------
(* S3 *)

\* What the bucket holds.
LEMMA S3Holds ==
    /\ S3Content.file = files /\ S3Content.pers = lists["persistents"]
    /\ S3Content.subs = lists["subscribers"] /\ S3Content.subsFile = listed
    /\ S3Content.msgs = {}
    /\ S3Content = [file |-> S3Content.file, pers |-> S3Content.pers, msgs |-> S3Content.msgs,
                    subs |-> S3Content.subs, subsFile |-> S3Content.subsFile]
  BY DEF S3Content, Decoded

\* A request that takes effect makes what its stage makes.
LEMMA S3Effect ==
    ASSUME Frame, kind = "s3", InCall, Effect(Caller), S3Content \in Content,
           client[Caller].pc = "write" =>
             client[Caller].list = EditedIn(client[Caller].op, client[Caller].stage, S3Content)
    PROVE  S3Content' = Listing(client[Caller].stage,
                                StageMade(client[Caller].op, client[Caller].stage, S3Content))
  <1> DEFINE k == client[Caller]
             op == client[Caller].op
             stage == client[Caller].stage
             l == ListOf(stage)
             g == Target(op)
  <1>1. S3Content' = [file |-> files', pers |-> lists'["persistents"], msgs |-> {},
                      subs |-> lists'["subscribers"], subsFile |-> listed']
    BY DEF S3Content, Decoded
  <1>2. Fits(op, stage) /\ op \in StoreOp
    BY DEF InCall, InS3
  <1>3. stage \in {"add", "file", "drop", "unlink", "sub", "unsub", "find", "load"}
    BY <1>2, FitsOp DEF Actions
  <1>4. CASE k.pc = "write"
    <2>1. stage \in ListStages
      BY <1>3, <1>4 DEF InCall, InS3, Entry
    <2>2. /\ lists' = [lists EXCEPT ![l] = k.list] /\ files' = files
          /\ listed' = (listed \/ l = "subscribers")
      BY <1>4 DEF Effect
    <2>3. l \in Lists /\ (l = "subscribers" <=> stage \in {"sub", "unsub"})
      BY DEF ListOf, Lists
    <2>4. /\ lists'["persistents"] = IF l = "persistents" THEN k.list ELSE S3Content.pers
          /\ lists'["subscribers"] = IF l = "persistents" THEN S3Content.subs ELSE k.list
      BY <2>2, <2>3, S3Holds DEF Frame, Lists
    <2>5. StageMade(op, stage, S3Content) = WithList(S3Content, l, k.list)
      BY <1>4, <2>1 DEF StageMade
    <2>6. Listing(stage, WithList(S3Content, l, k.list)) =
            [file |-> S3Content.file, msgs |-> S3Content.msgs,
             pers |-> IF l = "persistents" THEN k.list ELSE S3Content.pers,
             subs |-> IF l = "persistents" THEN S3Content.subs ELSE k.list,
             subsFile |-> S3Content.subsFile \/ stage \in {"sub", "unsub"}]
      BY DEF Listing, WithList, Content
    <2>7. listed' = (S3Content.subsFile \/ stage \in {"sub", "unsub"})
      BY <2>2, <2>3, S3Holds
    <2> QED BY <1>1, <2>2, <2>4, <2>5, <2>6, <2>7, S3Holds
  <1>5. CASE k.pc \in {"create", "unlink"}
    <2>1. k.pc = Entry(stage)
      BY <1>5 DEF InCall, InS3
    <2>2. stage = IF k.pc = "create" THEN "file" ELSE "unlink"
      BY <1>3, <1>5, <2>1 DEF Entry
    <2>3. files' = [files EXCEPT ![g] = IF k.pc = "create" THEN op.inc.ver ELSE None]
      BY <1>5 DEF Effect
    <2>4. lists' = lists /\ listed' = listed
      BY <1>5 DEF Effect
    <2>5. StageMade(op, stage, S3Content) =
            WithFile(S3Content, g, IF k.pc = "create" THEN op.inc.ver ELSE None)
      BY <1>5, <2>2 DEF StageMade, ListStages
    <2>6. S3Content' = [file |-> files', pers |-> S3Content.pers, msgs |-> S3Content.msgs,
                        subs |-> S3Content.subs, subsFile |-> S3Content.subsFile]
      BY <1>1, <2>4, S3Holds
    <2>7. S3Content' = WithFile(S3Content, g, IF k.pc = "create" THEN op.inc.ver ELSE None)
      <3>1. \A v : WithFile(S3Content, g, v) =
                [S3Content EXCEPT !.file = [S3Content.file EXCEPT ![g] = v]]
        BY DEF WithFile, Content
      <3>2. [S3Content EXCEPT !.file = files'] =
                [file |-> files', pers |-> S3Content.pers, msgs |-> S3Content.msgs,
                 subs |-> S3Content.subs, subsFile |-> S3Content.subsFile]
        BY S3Holds, OtherFiles
      <3> QED BY <2>3, <2>6, <3>1, <3>2, S3Holds
    <2>8. Listing(stage, S3Content') = S3Content'
      BY <1>5, <2>2, <2>6 DEF Listing, Content
    <2> QED BY <2>5, <2>7, <2>8
  <1> QED BY <1>4, <1>5 DEF Effect

\* A stage is over.
LEMMA S3StageOver ==
    ASSUME Frame, OneCaller, kind = "s3", InCall, Frame', kind' = kind, pending' = pending,
           Failed => Failed',
           client[Caller].stage \notin {"find", "load"},
           NEW err, S3Finish(Caller, err),
           \/ /\ S3Content' = Listing(client[Caller].stage,
                      StageMade(client[Caller].op, client[Caller].stage, S3Content))
              /\ err = "nil" \/ (Failed' /\ err = "other")
              /\ client[Caller].stage = "sub" =>
                    client[Caller].op.email \notin start[Caller].content.subs
              /\ client[Caller].stage = "unsub" => start[Caller].content.subsFile
           \/ Failed' /\ S3Content' = S3Content /\ err = "other"
    PROVE  StepOk
  <1> DEFINE op == client[Caller].op
             stage == client[Caller].stage
             c == start[Caller].content
             n == NextStage(op, stage, err)
             pre == S3Content
             made == StageMade(op, stage, pre)
  <1>0. Failed \in BOOLEAN /\ Failed' \in BOOLEAN
    BY DEF Failed
  <1>1. /\ op \in StoreOp /\ c \in Content /\ Fits(op, stage) /\ pending[Caller] = "nil"
        /\ pre \in Before(op, stage, c, Failed)
    BY DEF InCall, InS3
  <1>2. pre \in Before(op, stage, c, Failed')
    BY <1>0, <1>1, BeforeGrows
  <1>3. GoTo(Caller, n, err)
    BY DEF S3Finish, S3NextStage
  <1>4. CASE n = "end"
    <2>1. Allowed(op, c, Failed', Fail(S3Content', err))
      BY <1>0, <1>1, <1>2, <1>4, S3Ends
    <2>2. Kept' = S3Content'
      BY DEF Kept
    <2> QED BY <1>1, <1>3, <1>4, <2>1, <2>2, Returns
  <1>5. CASE n # "end"
    <2>1. /\ stage \notin {"sub", "unsub"}
          /\ \/ stage = "drop" /\ op.act \in {"updated", "deleted"}
             \/ stage = "unlink" /\ op.act = "updated"
      BY <1>5 DEF NextStage
    <2>2. made \in Content
      BY <1>1, <2>1, FitsOp, DropMade, EditsType DEF Before
    <2>3. Listing(stage, made) = made
      BY <2>1, <2>2, ListingSame
    <2>4. S3Content' = made \/ (Failed' /\ S3Content' = pre)
      BY <2>3
    <2>5. (err = "nil" => S3Content' = made) /\ (err # "nil" => Failed')
      BY <2>3
    <2> HIDE DEF made, pre
    <2>6. /\ Fits(op, n) /\ n \notin {"find", "load"}
          /\ S3Content' \in Before(op, n, c, Failed')
      BY <1>0, <1>1, <1>2, <1>5, <2>4, <2>5, GoesOn DEF made
    <2>7. client'[Caller] = [pc |-> Entry(n), stage |-> n, list |-> None, op |-> op]
      BY <1>3, <1>5, Gone DEF At
    <2>8. start' = start /\ reply' = reply
      BY <1>3, <1>5, Gone
    <2>9. InS3'
      BY <2>6, <2>7, <2>8 DEF InS3
    <2>10. InCall'
      BY <1>1, <2>7, <2>8, <2>9 DEF InCall
    <2> QED BY <2>7, <2>8, <2>10 DEF StepOk
  <1> QED BY <1>4, <1>5

\* What the place of a call in S3 says.
LEMMA S3Place ==
    ASSUME kind = "s3", InCall, NEW k, k = client[Caller]
    PROVE  /\ k.stage \in ListStages \cup {"find", "load", "unlink", "file"}
           /\ k.pc = "read" => k.stage \in ListStages \cup {"find"}
           /\ k.pc = "unlink" => k.stage = "unlink"
           /\ k.pc = "create" => k.stage = "file"
           /\ k.pc = "load" => k.stage = "load"
           /\ k.pc = "write" => k.stage \in ListStages
           /\ k.stage \in {"sub", "unsub", "find", "load"} =>
                /\ S3Content = start[Caller].content
                /\ k.stage \in {"find", "load"} => k.op.act = "read"
                /\ k.stage = "sub" => k.op.act = "subscribe"
                /\ k.stage = "unsub" => k.op.act = "unsubscribe"
           /\ S3Content \in Content
  <1>1. k.stage \in {"add", "file", "drop", "unlink", "sub", "unsub", "find", "load"}
    BY FitsOp DEF InCall, InS3, Actions
  <1>2. k.stage \in {"sub", "unsub", "find", "load"} =>
                /\ S3Content = start[Caller].content
                /\ k.stage \in {"find", "load"} => k.op.act = "read"
                /\ k.stage = "sub" => k.op.act = "subscribe"
                /\ k.stage = "unsub" => k.op.act = "unsubscribe"
    BY FitsOp DEF InCall, InS3, Before, Actions
  <1>3. S3Content \in Content
    BY BeforeType DEF InCall, InS3
  <1> QED BY <1>1, <1>2, <1>3 DEF InCall, InS3, Entry, ListStages

\* A list is changed, and put next.
LEMMA S3Change ==
    ASSUME Frame, OneCaller, kind = "s3", InCall, Frame', kind' = kind, pending' = pending,
           Failed => Failed', UNCHANGED <<files, lists, listed>>,
           client[Caller].stage \in ListStages, NEW list, Change(Caller, list),
           client[Caller].stage = "unsub" => listed,
           \/ /\ list = ListIn(S3Content, ListOf(client[Caller].stage))
              /\ client[Caller].stage = "sub" =>
                    client[Caller].op.email \notin start[Caller].content.subs
           \/ Failed' /\ client[Caller].stage = "sub" /\ list = {}
    PROVE  StepOk
  <1> DEFINE op == client[Caller].op
             stage == client[Caller].stage
             c == start[Caller].content
  <1>0. Failed \in BOOLEAN /\ Failed' \in BOOLEAN
    BY DEF Failed
  <1>1. /\ op \in StoreOp /\ c \in Content /\ Fits(op, stage) /\ pending[Caller] = "nil"
        /\ S3Content \in Before(op, stage, c, Failed)
    BY DEF InCall, InS3
  <1>2. S3Content' = S3Content
    BY DEF S3Content, Decoded
  <1>3. S3Content \in Before(op, stage, c, Failed')
    BY <1>0, <1>1, BeforeGrows
  <1>4. client'[Caller] = [pc |-> "write", stage |-> stage, op |-> op, list |-> Edited(op, stage, list)]
    BY DEF Change, Moved, Frame, OneCaller
  <1>5. start' = start /\ reply' = reply
    BY DEF Change
  <1>6. \/ /\ client'[Caller].list = EditedIn(op, stage, S3Content)
           /\ stage = "sub" => op.email \notin c.subs
        \/ Failed' /\ stage = "sub" /\ client'[Caller].list = {op.email}
    <2>1. CASE list = ListIn(S3Content, ListOf(stage)) /\ (stage = "sub" => op.email \notin c.subs)
      BY <1>4, <2>1 DEF EditedIn
    <2>2. CASE Failed' /\ stage = "sub" /\ list = {}
      <3>1. Edited(op, "sub", {}) = {op.email}
        BY DEF Edited
      <3> QED BY <1>4, <2>2, <3>1
    <2> QED BY <2>1, <2>2
  <1>7. InS3'
    BY <1>1, <1>2, <1>3, <1>4, <1>5, <1>6 DEF InS3, ListStages
  <1> QED BY <1>1, <1>4, <1>5, <1>7 DEF StepOk, InCall

\* The frame of a request.
LEMMA S3Frame ==
    ASSUME Frame, OneCaller, kind = "s3", kind' = kind, pending' = pending,
           GetList(Caller) \/ GetIncident(Caller) \/ PutObject(Caller) \/ S3Fault(Caller)
    PROVE  /\ Frame'
           /\ Failed => Failed'
           /\ S3Fault(Caller) => Failed'
           /\ DOMAIN client' = Clients
  <1>1. /\ DOMAIN client' = Clients /\ DOMAIN reply' = Clients /\ start' = start
        /\ DOMAIN pending' = Clients
    <2>1. \A list : Change(Caller, list) =>
            DOMAIN client' = Clients /\ reply' = reply /\ start' = start
      BY DEF Change, Frame
    <2>2. \A err : S3Finish(Caller, err) =>
            DOMAIN client' = Clients /\ DOMAIN reply' = Clients /\ start' = start
      BY Gone DEF S3Finish
    <2>3. \A stage, err : GoTo(Caller, stage, err) =>
            DOMAIN client' = Clients /\ DOMAIN reply' = Clients /\ start' = start
      BY Gone
    <2> QED BY <2>1, <2>2, <2>3 DEF GetList, GetIncident, PutObject, S3Fault, Frame
  <1>2. DOMAIN lists' = Lists
    BY DEF GetList, GetIncident, PutObject, S3Fault, Effect, Frame
  <1>3. env' = env \/ env' = [env EXCEPT !.faults = env.faults + 1]
    BY DEF GetList, GetIncident, PutObject, S3Fault
  <1>4. S3Fault(Caller) => env' = [env EXCEPT !.faults = env.faults + 1]
    BY DEF S3Fault
  <1> QED BY <1>1, <1>2, <1>3, <1>4, FrameStep

\* GetObject of a list.
LEMMA S3List ==
    ASSUME Frame, OneCaller, kind = "s3", InCall, kind' = kind, pending' = pending, GetList(Caller)
    PROVE  StepOk
  <1> DEFINE op == client[Caller].op
             stage == client[Caller].stage
             c == start[Caller].content
             list == lists[ListOf(stage)]
  <1>1. /\ op \in StoreOp /\ c \in Content /\ Fits(op, stage) /\ pending[Caller] = "nil"
        /\ client[Caller].pc = "read" /\ stage \in ListStages \cup {"find"}
    BY S3Place DEF InCall, InS3, GetList
  <1>2. list = ListIn(S3Content, ListOf(stage))
    BY S3Holds DEF ListIn, ListOf
  <1>3. Frame' /\ (Failed => Failed')
    BY S3Frame
  <1>4. Kept' = S3Content
    BY DEF GetList, Kept, S3Content, Decoded
  <1>5. CASE stage = "unsub" /\ ~listed /\ S3Finish(Caller, "notexist")
    <2>1. GoTo(Caller, "end", "notexist")
      BY <1>5 DEF S3Finish, S3NextStage, NextStage
    <2>2. S3Content = c /\ op.act = "unsubscribe" /\ ~c.subsFile
      BY <1>5, S3Place, S3Holds
    <2>3. Allowed(op, c, Failed', Fail(c, "notexist"))
      BY <2>2 DEF Allowed, Outcome, Apply, S3Call, S3Unsubscribe
    <2> QED BY <1>1, <1>3, <1>4, <2>1, <2>2, <2>3, Returns
  <1>6. CASE Found(op, stage, list) /\ GoTo(Caller, "end", "nil")
    <2>1. S3Content = c
      BY <1>6, S3Place DEF Found
    <2>2. Allowed(op, c, Failed', Fail(c, "nil"))
      BY <1>1, <1>2, <1>6, <2>1, FoundEnds
    <2> QED BY <1>1, <1>3, <1>4, <1>6, <2>1, <2>2, Returns
  <1>7. CASE stage = "find" /\ ~Found(op, stage, list) /\ S3Finish(Caller, "notexist")
    <2>1. GoTo(Caller, "end", "notexist")
      BY <1>7 DEF S3Finish, S3NextStage, NextStage
    <2>2. S3Content = c /\ op.act = "read" /\ c.pers[op.guid] = None /\ c.file[op.guid] = None
      <3>1. S3Content = c /\ op.act = "read"
        BY <1>7, S3Place
      <3>2. c.pers[op.guid] = None
        BY <1>2, <1>7, <3>1 DEF Found, ListIn, ListOf
      <3> QED BY <1>7, <3>1, <3>2 DEF InCall, InS3
    <2>3. Allowed(op, c, Failed', Fail(c, "notexist"))
      BY <2>2 DEF Allowed, Outcome, Readable, Missing, Fail
    <2> QED BY <1>1, <1>3, <1>4, <2>1, <2>2, <2>3, Returns
  <1>8. CASE stage # "find" /\ ~Found(op, stage, list) /\ (stage = "unsub" => listed) /\ Change(Caller, list)
    <2>1. stage = "sub" => op.email \notin c.subs
      BY <1>2, <1>8, S3Place DEF Found, ListIn, ListOf
    <2>2. stage \in ListStages /\ UNCHANGED <<files, lists, listed>>
      BY <1>1, <1>8 DEF GetList
    <2> QED BY <1>2, <1>3, <1>8, <2>1, <2>2, S3Change
  <1> QED BY <1>5, <1>6, <1>7, <1>8 DEF GetList

\* GetObject of an incident.
LEMMA S3Load ==
    ASSUME Frame, OneCaller, kind = "s3", InCall, kind' = kind, pending' = pending, GetIncident(Caller)
    PROVE  StepOk
  <1> DEFINE op == client[Caller].op
             c == start[Caller].content
  <1>1. /\ op \in StoreOp /\ c \in Content /\ pending[Caller] = "nil"
        /\ client[Caller].stage = "load" /\ S3Content = c /\ op.act = "read"
    BY S3Place DEF InCall, InS3, GetIncident
  <1>2. Frame' /\ (Failed => Failed')
    BY S3Frame
  <1>3. Kept' = c /\ S3Content' = c /\ files = c.file
    BY <1>1, S3Holds DEF GetIncident, Kept, S3Content, Decoded
  <1>4. CASE files[op.guid] = None
    <2>1. GoTo(Caller, "find", "notexist")
      BY <1>1, <1>4 DEF GetIncident, S3Finish, S3NextStage
    <2>2. client'[Caller] = [pc |-> "read", stage |-> "find", list |-> None, op |-> op]
      BY <2>1, Gone DEF At, Entry
    <2>3. start' = start /\ reply' = reply
      BY <2>1, Gone
    <2>4. Fits(op, "find") /\ c \in Before(op, "find", c, Failed')
      BY <1>1 DEF Fits, StagesOf, Before
    <2>5. InS3'
      BY <1>3, <1>4, <2>2, <2>3, <2>4 DEF InS3, Entry
    <2> QED BY <1>1, <1>2, <2>2, <2>3, <2>5 DEF StepOk, InCall
  <1>5. CASE files[op.guid] # None
    <2>1. GoTo(Caller, "end", "nil")
      BY <1>1, <1>5 DEF GetIncident, S3Finish, S3NextStage, NextStage
    <2>2. Allowed(op, c, Failed', Fail(c, "nil"))
      BY <1>1, <1>3, <1>5 DEF Allowed, Outcome, Readable, Fail
    <2> QED BY <1>1, <1>2, <1>3, <2>1, <2>2, Returns
  <1> QED BY <1>4, <1>5

\* A content with other subscribers.
LEMMA OtherSubs ==
    ASSUME NEW c \in Content, NEW s, NEW b
    PROVE  [c EXCEPT !.subs = s, !.subsFile = b] =
                [file |-> c.file, pers |-> c.pers, msgs |-> c.msgs, subs |-> s, subsFile |-> b]
  <1>1. [c EXCEPT !.subs = s] = [file |-> c.file, pers |-> c.pers, msgs |-> c.msgs, subs |-> s,
                                 subsFile |-> c.subsFile]
    BY DEF Content
  <1>2. \A x : [[file |-> c.file, pers |-> c.pers, msgs |-> c.msgs, subs |-> s, subsFile |-> x]
                    EXCEPT !.subsFile = b] =
                [file |-> c.file, pers |-> c.pers, msgs |-> c.msgs, subs |-> s, subsFile |-> b]
    OBVIOUS
  <1>3. [c EXCEPT !.subs = s, !.subsFile = b] = [[c EXCEPT !.subs = s] EXCEPT !.subsFile = b]
    BY DEF Content
  <1> QED BY <1>1, <1>2, <1>3

\* What is put while a subscribers' list was taken for empty.
LEMMA S3PutLost ==
    ASSUME Frame, kind = "s3", InCall, Effect(Caller), client[Caller].stage = "sub",
           client[Caller].list = {client[Caller].op.email}, client[Caller].pc = "write"
    PROVE  S3Content' = [start[Caller].content EXCEPT !.subs = {client[Caller].op.email},
                                                      !.subsFile = TRUE]
  <1> DEFINE c == start[Caller].content
             list == client[Caller].list
  <1>1. S3Content = c
    BY S3Place
  <1>2. /\ lists' = [lists EXCEPT !["subscribers"] = list] /\ files' = files /\ listed' = TRUE
    BY DEF Effect, ListOf
  <1>3. lists'["persistents"] = c.pers /\ lists'["subscribers"] = list /\ files' = c.file
    BY <1>1, <1>2, S3Holds DEF Frame, Lists
  <1>4. S3Content' = [file |-> files', pers |-> lists'["persistents"], msgs |-> {},
                      subs |-> lists'["subscribers"], subsFile |-> listed']
    BY DEF S3Content, Decoded
  <1>5. c.msgs = {} /\ c \in Content
    BY <1>1, S3Place, S3Holds
  <1>6. [c EXCEPT !.subs = list, !.subsFile = listed'] =
            [file |-> c.file, pers |-> c.pers, msgs |-> c.msgs, subs |-> list, subsFile |-> listed']
    BY <1>5, OtherSubs
  <1>7. S3Content' = [c EXCEPT !.subs = list, !.subsFile = listed']
    BY <1>3, <1>4, <1>5, <1>6
  <1> QED BY <1>2, <1>7

\* PutObject and DeleteObject, and their answers.
LEMMA S3Put ==
    ASSUME Frame, OneCaller, kind = "s3", InCall, Frame', kind' = kind, pending' = pending,
           Failed => Failed', NEW err, err = "nil" \/ (Failed' /\ err = "other"),
           Effect(Caller), S3Finish(Caller, err)
    PROVE  StepOk
  <1> DEFINE k == client[Caller]
             op == client[Caller].op
             stage == client[Caller].stage
             c == start[Caller].content
  <1>1. /\ op \in StoreOp /\ c \in Content /\ Fits(op, stage) /\ pending[Caller] = "nil"
    BY DEF InCall, InS3
  <1>2. stage \notin {"find", "load"}
    BY S3Place DEF Effect, ListStages
  <1>3. CASE k.pc = "write" /\ Failed /\ stage = "sub" /\ k.list = {op.email}
    <2>1. S3Content' = [c EXCEPT !.subs = {op.email}, !.subsFile = TRUE]
      BY <1>3, S3PutLost
    <2>2. op.act = "subscribe"
      BY <1>3, S3Place
    <2>3. Allowed(op, c, TRUE, Fail(S3Content', err))
      BY <1>1, <2>1, <2>2, S3ListLost
    <2>4. GoTo(Caller, "end", err)
      BY <1>3 DEF S3Finish, S3NextStage, NextStage
    <2>5. Kept' = S3Content'
      BY DEF Kept
    <2>6. Allowed(op, c, Failed', Fail(S3Content', err))
      BY <1>3, <2>3 DEF Allowed
    <2> QED BY <1>1, <2>4, <2>5, <2>6, Returns
  <1>4. CASE k.pc = "write" => k.list = EditedIn(op, stage, S3Content)
                               /\ (stage = "sub" => op.email \notin c.subs)
    <2>1. S3Content' = Listing(stage, StageMade(op, stage, S3Content))
      BY <1>4, S3Place, S3Effect
    <2>2. stage = "sub" => op.email \notin c.subs
      BY <1>4 DEF InCall, InS3, Effect, Entry
    <2>3. stage = "unsub" => c.subsFile
      <3>1. stage = "unsub" => listed
        BY DEF InCall, InS3, Effect, Entry
      <3> QED BY <3>1, S3Place, S3Holds
    <2> QED BY <1>2, <2>1, <2>2, <2>3, S3StageOver
  <1> QED BY <1>3, <1>4 DEF InCall, InS3, Effect, Entry

\* A request fails.
LEMMA S3Fails ==
    ASSUME Frame, OneCaller, kind = "s3", InCall, kind' = kind, pending' = pending, S3Fault(Caller)
    PROVE  StepOk
  <1> DEFINE k == client[Caller]
             op == client[Caller].op
             stage == client[Caller].stage
             c == start[Caller].content
  <1>1. /\ op \in StoreOp /\ c \in Content /\ Fits(op, stage) /\ pending[Caller] = "nil"
    BY DEF InCall, InS3
  <1>2. Frame' /\ Failed'
    BY S3Frame
  <1>3. CASE stage = "sub" /\ k.pc = "read"
    <2>1. Change(Caller, {}) /\ UNCHANGED <<files, lists, listed>>
      BY <1>3 DEF S3Fault, Effect
    <2> QED BY <1>2, <1>3, <2>1, S3Change DEF ListStages
  <1>4. CASE ~(stage = "sub" /\ k.pc = "read") /\ Effect(Caller)
    <2>1. S3Finish(Caller, "other")
      BY <1>4 DEF S3Fault
    <2> QED BY <1>2, <1>4, <2>1, S3Put
  <1>5. CASE ~(stage = "sub" /\ k.pc = "read") /\ UNCHANGED <<files, lists, listed>>
    <2>1. S3Finish(Caller, "other")
      BY <1>5 DEF S3Fault
    <2>2. S3Content' = S3Content /\ Kept' = S3Content
      BY <1>5 DEF S3Content, Decoded, Kept
    <2>3. CASE stage \in {"find", "load"}
      <3>1. S3Content = c /\ op.act = "read"
        BY <2>3, S3Place
      <3>2. GoTo(Caller, "end", IF stage = "find" THEN "notexist" ELSE "other")
        BY <2>1, <2>3 DEF S3Finish, S3NextStage, NextStage
      <3>3. stage = "find" => c.file[op.guid] = None
        BY DEF InCall, InS3
      <3>4. Allowed(op, c, Failed', Fail(c, IF stage = "find" THEN "notexist" ELSE "other"))
        BY <1>2, <3>1, <3>3 DEF Allowed, Disturbed
      <3> QED BY <1>1, <1>2, <2>2, <3>1, <3>2, <3>4, Returns
    <2>4. CASE stage \notin {"find", "load"}
      BY <1>2, <2>1, <2>2, <2>4, S3StageOver
    <2> QED BY <2>3, <2>4
  <1> QED BY <1>3, <1>4, <1>5 DEF S3Fault

\* A step of a call on an S3 store.
LEMMA S3Step ==
    ASSUME Frame, OneCaller, kind = "s3", InCall, kind' = kind, pending' = pending,
           GetList(Caller) \/ GetIncident(Caller) \/ PutObject(Caller) \/ S3Fault(Caller)
    PROVE  StepOk
  <1>1. CASE PutObject(Caller)
    <2>1. Frame' /\ (Failed => Failed')
      BY <1>1, S3Frame
    <2> QED BY <1>1, <2>1, S3Put DEF PutObject
  <1> QED BY <1>1, S3List, S3Load, S3Fails

-----------------------------------------------------------------------------
(* DB: lemmas about contents *)

\* What the messages have to do with the incidents: nothing.
LEMMA Messages ==
    ASSUME NEW c \in Content, NEW g \in Guids
    PROVE  /\ AddMsg(DropMsg(c, g), g) = AddMsg(c, g)
           /\ DropMsg(DropMsg(c, g), g) = DropMsg(c, g)
           /\ AddMsg(c, g).file = c.file /\ AddMsg(c, g).pers = c.pers
           /\ DropMsg(c, g).file = c.file /\ DropMsg(c, g).pers = c.pers
           /\ AddMsg(c, g).subs = c.subs /\ AddMsg(c, g).subsFile = c.subsFile
           /\ DropMsg(c, g).subs = c.subs /\ DropMsg(c, g).subsFile = c.subsFile
           /\ g \notin DropMsg(c, g).msgs
  <1>1. (c.msgs \ {g}) \cup {g} = c.msgs \cup {g} /\ (c.msgs \ {g}) \ {g} = c.msgs \ {g}
    OBVIOUS
  <1> QED BY <1>1 DEF AddMsg, DropMsg, Content

\* The row after one UPDATE statement, and after both.
WithPers(c, g, v) == [c EXCEPT !.pers[g] = v]

RowSetSays(i, c, g) ==
    /\ RowSet(i, c) \in Content
    /\ i.persistent => RowSet(i, c) = DBUpdate(i, c).content
    /\ ~i.persistent /\ ~Readable(c, g) =>
          RowSet(i, c) = AddMsg(c, g) /\ DBUpdate(i, c).content = AddMsg(c, g)
    /\ ~i.persistent /\ c.file[g] # None =>
          /\ RowSet(i, c) = Replace(AddMsg(c, g), i)
          /\ DBUpdate(i, c).content = Replace(AddMsg(c, g), i)
          /\ RowSet(i, c).pers[g] = None
    /\ ~i.persistent /\ c.file[g] = None /\ c.pers[g] # None =>
          /\ RowSet(i, c) = WithPers(AddMsg(c, g), g, i.ver)
          /\ RowSet(i, c).pers[g] = i.ver
          /\ DBUpdate(i, c).content = Replace(AddMsg(c, g), i)
          /\ WithFile(Erase(RowSet(i, c), g), g, i.ver) = Replace(AddMsg(c, g), i)

\* The two UPDATE statements together do what Backends says of an update.
LEMMA RowSetThenUnlisted ==
    ASSUME NEW c \in Content, NEW i \in Incident
    PROVE  RowSetSays(i, c, i.guid)
  <1> DEFINE g == i.guid
             d == AddMsg(c, g)
             j == [i EXCEPT !.persistent = @ \/ c.file[g] = None]
  <1>1. g \in Guids /\ i.ver \in Versions /\ i.persistent \in BOOLEAN
    BY DEF Incident
  <1>2. d \in Content /\ d.file = c.file /\ d.pers = c.pers
    BY <1>1, EditsType, Messages
  <1>3. j \in Incident /\ j.guid = g /\ j.ver = i.ver /\ (j.persistent <=> i.persistent \/ c.file[g] = None)
    BY DEF Incident
  <1>4. i.persistent => j = i
    BY DEF Incident
  <1>5. ~i.persistent /\ c.file[g] # None => j = i
    BY DEF Incident
  <1> HIDE DEF j, d
  <1>6. RowSet(i, c) = IF Readable(c, g) THEN Replace(d, j) ELSE d
    BY DEF RowSet, j, d
  <1>7. DBUpdate(i, c).content = IF Readable(c, g) THEN Replace(d, i) ELSE d
    BY DEF DBUpdate, Done, d
  <1>8. RowSet(i, c) \in Content
    BY <1>2, <1>3, <1>6, PutType
  <1>9. i.persistent => RowSet(i, c) = DBUpdate(i, c).content
    BY <1>4, <1>6, <1>7
  <1>10. ASSUME ~i.persistent, c.file[g] # None
         PROVE  /\ RowSet(i, c) = Replace(d, i) /\ DBUpdate(i, c).content = Replace(d, i)
                /\ RowSet(i, c).pers[g] = None
    <2>1. RowSet(i, c) = Replace(d, i) /\ DBUpdate(i, c).content = Replace(d, i)
      BY <1>5, <1>6, <1>7, <1>10 DEF Readable
    <2>2. Replace(d, i).pers = [d.pers EXCEPT ![g] = None]
      BY <1>2, <1>10 DEF Replace, Put, Erase, Content
    <2> QED BY <1>1, <1>2, <2>1, <2>2 DEF Content, Shelf
  <1>11. ASSUME ~i.persistent, c.file[g] = None, c.pers[g] # None
         PROVE  /\ RowSet(i, c) = [d EXCEPT !.pers[g] = i.ver]
                /\ RowSet(i, c).pers[g] = i.ver
                /\ DBUpdate(i, c).content = Replace(d, i)
                /\ [Erase(RowSet(i, c), g) EXCEPT !.file[g] = i.ver] = Replace(d, i)
    <2>1. RowSet(i, c) = Replace(d, j) /\ DBUpdate(i, c).content = Replace(d, i) /\ j.persistent
      BY <1>3, <1>6, <1>7, <1>11 DEF Readable
    <2>2. Erase(d, g) = DropPers(d, g)
      BY <1>1, <1>2, <1>11, Erased
    <2>3. Replace(d, j) = [DropPers(d, g) EXCEPT !.pers[g] = i.ver]
      BY <1>3, <2>1, <2>2 DEF Replace, Put
    <2>4. [DropPers(d, g) EXCEPT !.pers[g] = i.ver] = [d EXCEPT !.pers[g] = i.ver]
      <3>1. DropPers(d, g).pers = [d.pers EXCEPT ![g] = None]
        BY <1>2 DEF DropPers, Content
      <3>2. \A p : [DropPers(d, g) EXCEPT !.pers = p] = [d EXCEPT !.pers = p]
        BY <1>2 DEF DropPers, Content
      <3>3. [DropPers(d, g) EXCEPT !.pers[g] = i.ver] =
                [DropPers(d, g) EXCEPT !.pers = [DropPers(d, g).pers EXCEPT ![g] = i.ver]]
        BY <1>1, <1>2, EditsType DEF Content
      <3>4. [d EXCEPT !.pers[g] = i.ver] = [d EXCEPT !.pers = [d.pers EXCEPT ![g] = i.ver]]
        BY <1>2 DEF Content
      <3>5. [[d.pers EXCEPT ![g] = None] EXCEPT ![g] = i.ver] = [d.pers EXCEPT ![g] = i.ver]
        BY <1>1, <1>2, PersTwice
      <3>6. [DropPers(d, g).pers EXCEPT ![g] = i.ver] = [d.pers EXCEPT ![g] = i.ver]
        BY <3>1, <3>5
      <3> QED BY <3>2, <3>3, <3>4, <3>6
    <2>5. [d EXCEPT !.pers[g] = i.ver].pers[g] = i.ver
      BY <1>1, <1>2 DEF Content, Shelf
    <2>6. Erase([d EXCEPT !.pers[g] = i.ver], g) = Erase(d, g)
      <3> DEFINE e == [d EXCEPT !.pers[g] = i.ver]
      <3>1. e = [d EXCEPT !.pers = [d.pers EXCEPT ![g] = i.ver]]
        BY <1>2 DEF Content
      <3>2. e.pers = [d.pers EXCEPT ![g] = i.ver] /\ e.file = d.file
        BY <1>2, <3>1 DEF Content
      <3>3. [e.pers EXCEPT ![g] = None] = [d.pers EXCEPT ![g] = None]
        <4>1. [[d.pers EXCEPT ![g] = i.ver] EXCEPT ![g] = None] = [d.pers EXCEPT ![g] = None]
          BY <1>1, <1>2, PersTwice
        <4> QED BY <3>2, <4>1
      <3>4. \A f, p : [[e EXCEPT !.file = f] EXCEPT !.pers = p] = [[d EXCEPT !.file = f] EXCEPT !.pers = p]
        BY <1>2, <3>1 DEF Content
      <3>5. e \in Content
        BY <1>1, <1>2 DEF Content, Shelf
      <3>6. \A x \in Content : Erase(x, g) = [[x EXCEPT !.file = [x.file EXCEPT ![g] = None]]
                                               EXCEPT !.pers = [x.pers EXCEPT ![g] = None]]
        BY DEF Erase, Content
      <3> HIDE DEF e
      <3>7. Erase(e, g) = Erase(d, g)
        <4> DEFINE f == [d.file EXCEPT ![g] = None]
                   p == [d.pers EXCEPT ![g] = None]
        <4>1. [e.file EXCEPT ![g] = None] = f /\ [e.pers EXCEPT ![g] = None] = p
          BY <3>2, <3>3
        <4>2. Erase(e, g) = [[e EXCEPT !.file = [e.file EXCEPT ![g] = None]]
                                EXCEPT !.pers = [e.pers EXCEPT ![g] = None]]
          BY <3>5, <3>6
        <4>3. Erase(d, g) = [[d EXCEPT !.file = f] EXCEPT !.pers = p]
          BY <1>2, <3>6
        <4> HIDE DEF f, p
        <4>4. [[e EXCEPT !.file = f] EXCEPT !.pers = p] = [[d EXCEPT !.file = f] EXCEPT !.pers = p]
          BY <3>4
        <4> QED BY <4>1, <4>2, <4>3, <4>4
      <3> QED BY <3>7 DEF e
    <2>7. Replace(d, i) = [Erase(d, g) EXCEPT !.file[g] = i.ver]
      BY <1>11 DEF Replace, Put
    <2> QED BY <2>1, <2>3, <2>4, <2>5, <2>6, <2>7
  <1>12. ~i.persistent /\ ~Readable(c, g) => RowSet(i, c) = d /\ DBUpdate(i, c).content = d
    BY <1>6, <1>7
  <1>13. RowSetSays(i, c, g)
    BY <1>8, <1>9, <1>10, <1>11, <1>12 DEF d, RowSetSays, WithPers, WithFile
  <1> QED BY <1>13

-----------------------------------------------------------------------------
(* DB: lemmas about statements *)

\* The statement after a statement.
NextDB(op, stage) ==
    CASE stage = "delete messages" -> "delete metadata"
      [] stage = "delete metadata" -> IF op.act = "updated" THEN "add messages" ELSE "delete row"
      [] stage = "add messages"    -> IF op.act = "updated" THEN "set row" ELSE "add row"
      [] stage = "set row"         -> "set persistent"
      [] OTHER                     -> "end"

\* The statements of an operation, and what they are about.
FitsDB(op, stage) ==
    \/ stage = "add messages"      /\ op.act \in {"created", "updated"}
    \/ stage = "add row"           /\ op.act = "created"
    \/ stage = "delete messages"   /\ op.act \in {"updated", "deleted"}
    \/ stage = "delete metadata"   /\ op.act \in {"updated", "deleted"}
    \/ stage = "set row"           /\ op.act = "updated"
    \/ stage = "set persistent"    /\ op.act = "updated"
    \/ stage = "delete row"        /\ op.act = "deleted"
    \/ stage = "add subscriber"    /\ op.act = "subscribe"
    \/ stage = "delete subscriber" /\ op.act = "unsubscribe"
    \/ stage = "select"            /\ op.act = "read"

\* The statements of each operation, and the elements of short sequences.
LEMMA StatementLists ==
    /\ Statements["created"] = <<"add messages", "add row">>
    /\ Statements["updated"] = <<"delete messages", "delete metadata", "add messages", "set row",
                                 "set persistent">>
    /\ Statements["deleted"] = <<"delete messages", "delete metadata", "delete row">>
    /\ Statements["subscribe"] = <<"add subscriber">>
    /\ Statements["unsubscribe"] = <<"delete subscriber">>
    /\ Statements["read"] = <<"select">>
  BY DEF Statements

\* The nth of s is x, and y comes next.
Nth(s, n, x, y) ==
    /\ s[n] = x
    /\ y = IF n = Len(s) THEN "end" ELSE s[n + 1]
    /\ n # Len(s) => n + 1 \in DOMAIN s

\* Every element of a sequence of one, two, three or five, and what comes next.
LEMMA One ==
    ASSUME NEW a, NEW s, s = <<a>>, NEW n \in DOMAIN s
    PROVE  Nth(s, n, a, "end")
  <1>1. n = 1 /\ Len(s) = 1 /\ s[1] = a
    OBVIOUS
  <1> QED BY ONLY <1>1 DEF Nth

\* The statements of a sequence and what follows each: of two,
LEMMA Two ==
    ASSUME NEW a, NEW b, NEW s, s = <<a, b>>, NEW n \in DOMAIN s
    PROVE  Nth(s, n, a, b) \/ Nth(s, n, b, "end")
  <1>1. DOMAIN s = 1..2 /\ Len(s) = 2 /\ s[1] = a /\ s[2] = b
    OBVIOUS
  <1>2. n = 1 \/ n = 2
    BY <1>1
  <1> QED BY ONLY <1>1, <1>2 DEF Nth

\* of three,
LEMMA Three ==
    ASSUME NEW a, NEW b, NEW c, NEW s, s = <<a, b, c>>, NEW n \in DOMAIN s
    PROVE  Nth(s, n, a, b) \/ Nth(s, n, b, c) \/ Nth(s, n, c, "end")
  <1>1. DOMAIN s = 1..3 /\ Len(s) = 3 /\ s[1] = a /\ s[2] = b /\ s[3] = c
    OBVIOUS
  <1>2. n = 1 \/ n = 2 \/ n = 3
    BY <1>1
  <1> QED BY ONLY <1>1, <1>2 DEF Nth

\* and of five.
LEMMA Five ==
    ASSUME NEW a, NEW b, NEW c, NEW d, NEW e, NEW s, s = <<a, b, c, d, e>>, NEW n \in DOMAIN s
    PROVE  \/ Nth(s, n, a, b) \/ Nth(s, n, b, c) \/ Nth(s, n, c, d) \/ Nth(s, n, d, e)
           \/ Nth(s, n, e, "end")
  <1>1. /\ DOMAIN s = 1..5 /\ Len(s) = 5
        /\ s[1] = a /\ s[2] = b /\ s[3] = c /\ s[4] = d /\ s[5] = e
    OBVIOUS
  <1>2. n = 1 \/ n = 2 \/ n = 3 \/ n = 4 \/ n = 5
    BY <1>1
  <1> QED BY ONLY <1>1, <1>2 DEF Nth

\* A statement is one of its operation, and is followed by the next one.
Listed(op, s, n) ==
    /\ FitsDB(op, s[n]) /\ s[n] # "end"
    /\ NextDB(op, s[n]) = IF n = Len(s) THEN "end" ELSE s[n + 1]
    /\ n # Len(s) => n + 1 \in DOMAIN s

\* An element that is a statement of the call, with the statement that follows.
LEMMA Named ==
    ASSUME NEW op, NEW s, NEW n, NEW x, NEW y, Nth(s, n, x, y), FitsDB(op, x), NextDB(op, x) = y
    PROVE  Listed(op, s, n)
  BY DEF Nth, Listed, FitsDB

\* Statements lists the statements of each operation in the order of NextDB.
LEMMA StatementsOf ==
    ASSUME NEW op \in StoreOp, NEW s, s = Statements[op.act], NEW n \in DOMAIN s
    PROVE  Listed(op, s, n)
  <1>0. n \in DOMAIN s
    OBVIOUS
  <1>1. op.act \in Actions \cup {"read"}
    BY CallFields
  <1>2. CASE op.act = "created"
    <2>1. s = <<"add messages", "add row">>
      BY <1>2, StatementLists
    <2>2. Nth(s, n, "add messages", "add row") \/ Nth(s, n, "add row", "end")
      BY ONLY <1>0, <2>1, Two
    <2>3. /\ FitsDB(op, "add messages") /\ NextDB(op, "add messages") = "add row"
          /\ FitsDB(op, "add row") /\ NextDB(op, "add row") = "end"
      BY ONLY <1>2 DEF FitsDB, NextDB
    <2> QED BY ONLY <2>2, <2>3, Named
  <1>3. CASE op.act = "updated"
    <2>1. s = <<"delete messages", "delete metadata", "add messages", "set row", "set persistent">>
      BY <1>3, StatementLists
    <2>2. \/ Nth(s, n, "delete messages", "delete metadata")
          \/ Nth(s, n, "delete metadata", "add messages")
          \/ Nth(s, n, "add messages", "set row")
          \/ Nth(s, n, "set row", "set persistent")
          \/ Nth(s, n, "set persistent", "end")
      BY ONLY <1>0, <2>1, Five
    <2>3. /\ FitsDB(op, "delete messages") /\ NextDB(op, "delete messages") = "delete metadata"
          /\ FitsDB(op, "delete metadata") /\ NextDB(op, "delete metadata") = "add messages"
          /\ FitsDB(op, "add messages") /\ NextDB(op, "add messages") = "set row"
          /\ FitsDB(op, "set row") /\ NextDB(op, "set row") = "set persistent"
          /\ FitsDB(op, "set persistent") /\ NextDB(op, "set persistent") = "end"
      BY ONLY <1>3 DEF FitsDB, NextDB
    <2> QED BY ONLY <2>2, <2>3, Named
  <1>4. CASE op.act = "deleted"
    <2>1. s = <<"delete messages", "delete metadata", "delete row">>
      BY <1>4, StatementLists
    <2>2. \/ Nth(s, n, "delete messages", "delete metadata")
          \/ Nth(s, n, "delete metadata", "delete row")
          \/ Nth(s, n, "delete row", "end")
      BY ONLY <1>0, <2>1, Three
    <2>3. /\ FitsDB(op, "delete messages") /\ NextDB(op, "delete messages") = "delete metadata"
          /\ FitsDB(op, "delete metadata") /\ NextDB(op, "delete metadata") = "delete row"
          /\ FitsDB(op, "delete row") /\ NextDB(op, "delete row") = "end"
      BY ONLY <1>4 DEF FitsDB, NextDB
    <2> QED BY ONLY <2>2, <2>3, Named
  <1>5. CASE op.act = "subscribe"
    <2>1. s = <<"add subscriber">>
      BY <1>5, StatementLists
    <2>2. Nth(s, n, "add subscriber", "end")
      BY ONLY <1>0, <2>1, One
    <2>3. /\ FitsDB(op, "add subscriber") /\ NextDB(op, "add subscriber") = "end"
      BY ONLY <1>5 DEF FitsDB, NextDB
    <2> QED BY ONLY <2>2, <2>3, Named
  <1>6. CASE op.act = "unsubscribe"
    <2>1. s = <<"delete subscriber">>
      BY <1>6, StatementLists
    <2>2. Nth(s, n, "delete subscriber", "end")
      BY ONLY <1>0, <2>1, One
    <2>3. /\ FitsDB(op, "delete subscriber") /\ NextDB(op, "delete subscriber") = "end"
      BY ONLY <1>6 DEF FitsDB, NextDB
    <2> QED BY ONLY <2>2, <2>3, Named
  <1>7. CASE op.act = "read"
    <2>1. s = <<"select">>
      BY <1>7, StatementLists
    <2>2. Nth(s, n, "select", "end")
      BY ONLY <1>0, <2>1, One
    <2>3. /\ FitsDB(op, "select") /\ NextDB(op, "select") = "end"
      BY ONLY <1>7 DEF FitsDB, NextDB
    <2> QED BY ONLY <2>2, <2>3, Named
  <1> QED BY ONLY <1>1, <1>2, <1>3, <1>4, <1>5, <1>6, <1>7 DEF Actions

\* Made and Refused, on a content.
MadeIn(op, stage, d) ==
    CASE stage = "add messages"      -> AddMsg(d, op.inc.guid)
      [] stage = "delete messages"   -> DropMsg(d, Target(op))
      [] stage = "add row"           -> Put(d, op.inc)
      [] stage = "set row"           ->
            IF Readable(d, op.inc.guid)
            THEN Replace(d, [op.inc EXCEPT !.persistent = @ \/ d.file[op.inc.guid] = None])
            ELSE d
      [] stage = "set persistent"    ->
            IF d.pers[op.inc.guid] = None THEN d
            ELSE [Erase(d, op.inc.guid) EXCEPT !.file[op.inc.guid] = d.pers[op.inc.guid]]
      [] stage = "delete row"        -> Erase(d, op.guid)
      [] stage = "add subscriber"    -> AddSub(d, op.email)
      [] stage = "delete subscriber" -> DropSub(d, op.email)
      [] OTHER                       -> d

RefusedIn(op, stage, d) ==
    \/ stage = "add messages" /\ op.inc.guid \in d.msgs
    \/ stage = "add row" /\ Readable(d, op.inc.guid)
    \/ stage = "add subscriber" /\ op.email \in d.subs
    \/ stage = "select" /\ ~Readable(d, op.guid)

\* What the tables hold.
LEMMA DBHolds ==
    /\ DBContent.file = files /\ DBContent.pers = lists["persistents"]
    /\ DBContent.msgs = messages /\ DBContent.subs = lists["subscribers"]
  BY DEF DBContent, Decoded

\* Made and Refused are MadeIn and RefusedIn of what the tables hold.
LEMMA MadeSame ==
    ASSUME NEW op, NEW stage
    PROVE  /\ Refused(op, stage) <=> RefusedIn(op, stage, DBContent)
           /\ Made(op, stage) = MadeIn(op, stage, DBContent)
  <1>1. \A g : Row(g) <=> Readable(DBContent, g)
    BY DBHolds DEF Row, Readable
  <1>2. Refused(op, stage) <=> RefusedIn(op, stage, DBContent)
    BY <1>1, DBHolds DEF Refused, RefusedIn
  <1>3. \A i : SetRow(i) = IF Readable(DBContent, i.guid)
                      THEN Replace(DBContent, [i EXCEPT !.persistent = @ \/ DBContent.file[i.guid] = None])
                      ELSE DBContent
    BY <1>1, DBHolds DEF SetRow
  <1>4. \A g : Unlisted(g) = IF DBContent.pers[g] = None THEN DBContent
                            ELSE [Erase(DBContent, g) EXCEPT !.file[g] = DBContent.pers[g]]
    BY DBHolds DEF Unlisted
  <1>5. Made(op, stage) = MadeIn(op, stage, DBContent)
    BY <1>3, <1>4 DEF Made, MadeIn
  <1> QED BY <1>2, <1>5

\* What a statement of each kind starts from, makes and refuses.
Meaning(op, stage, c, pre, made, g) ==
    /\ stage = "add messages" /\ op.act = "created" =>
         /\ pre = c /\ made = AddMsg(c, g) /\ (RefusedIn(op, stage, pre) <=> g \in c.msgs)
    /\ stage = "add messages" /\ op.act = "updated" =>
         pre = DropMsg(c, g) /\ made = AddMsg(c, g) /\ ~RefusedIn(op, stage, pre)
    /\ stage = "delete messages" =>
         pre = c /\ made = DropMsg(c, g) /\ ~RefusedIn(op, stage, pre)
    /\ stage = "delete metadata" =>
         pre = DropMsg(c, g) /\ made = pre /\ ~RefusedIn(op, stage, pre)
    /\ stage = "add row" =>
         /\ pre = AddMsg(c, g) /\ made = Put(AddMsg(c, g), op.inc)
         /\ RefusedIn(op, stage, pre) <=> Readable(c, g)
    /\ stage = "set row" =>
         pre = AddMsg(c, g) /\ made = RowSet(op.inc, c) /\ ~RefusedIn(op, stage, pre)
    /\ stage = "set persistent" =>
         /\ pre = RowSet(op.inc, c) /\ made = DBUpdate(op.inc, c).content
         /\ ~RefusedIn(op, stage, pre)
    /\ stage = "delete row" =>
         pre = DropMsg(c, g) /\ made = Erase(DropMsg(c, g), g) /\ ~RefusedIn(op, stage, pre)
    /\ stage = "add subscriber" =>
         /\ pre = c /\ made = AddSub(c, op.email)
         /\ RefusedIn(op, stage, pre) <=> op.email \in c.subs
    /\ stage = "delete subscriber" =>
         pre = c /\ made = DropSub(c, op.email) /\ ~RefusedIn(op, stage, pre)
    /\ stage = "select" =>
         pre = c /\ made = c /\ (RefusedIn(op, stage, pre) <=> ~Readable(c, op.guid))

\* Each statement means what Meaning says, wherever the call stands.
LEMMA DBMade ==
    ASSUME NEW op \in StoreOp, NEW stage, FitsDB(op, stage), NEW c \in Content,
           stage = "set persistent" => ~op.inc.persistent
    PROVE  Meaning(op, stage, c, BeforeDB(op, stage, c), MadeIn(op, stage, BeforeDB(op, stage, c)),
                   Target(op))
  <1> DEFINE g == Target(op)
             pre == BeforeDB(op, stage, c)
             made == MadeIn(op, stage, pre)
  <1>1. op.act \in {"created", "updated"} => op.inc \in Incident /\ op.inc.guid = g /\ g \in Guids
    BY CallFields DEF Target, Incident
  <1>2. op.act = "deleted" => op.guid = g /\ g \in Guids
    BY CallFields DEF Target
  <1>3. stage = "add messages" /\ op.act = "created" =>
            /\ pre = c /\ made = AddMsg(c, g) /\ (RefusedIn(op, stage, pre) <=> g \in c.msgs)
    BY <1>1 DEF BeforeDB, MadeIn, RefusedIn
  <1>4. stage = "add messages" /\ op.act = "updated" =>
            pre = DropMsg(c, g) /\ made = AddMsg(c, g) /\ ~RefusedIn(op, stage, pre)
    BY <1>1, Messages DEF BeforeDB, MadeIn, RefusedIn
  <1>5. stage = "delete messages" => pre = c /\ made = DropMsg(c, g) /\ ~RefusedIn(op, stage, pre)
    BY DEF BeforeDB, MadeIn, RefusedIn
  <1>6. stage = "delete metadata" => pre = DropMsg(c, g) /\ made = pre /\ ~RefusedIn(op, stage, pre)
    BY DEF BeforeDB, MadeIn, RefusedIn
  <1>7. stage = "add row" =>
            /\ pre = AddMsg(c, g) /\ made = Put(AddMsg(c, g), op.inc)
            /\ RefusedIn(op, stage, pre) <=> Readable(c, g)
    <2>1. stage = "add row" => (Readable(AddMsg(c, g), g) <=> Readable(c, g)) /\ op.inc.guid = g
      BY <1>1, Messages DEF Readable, FitsDB
    <2> QED BY <2>1 DEF BeforeDB, MadeIn, RefusedIn
  <1>8. stage = "set row" =>
            pre = AddMsg(c, g) /\ made = RowSet(op.inc, c) /\ ~RefusedIn(op, stage, pre)
    <2>1. stage = "set row" => /\ Readable(AddMsg(c, g), g) <=> Readable(c, g)
                               /\ op.inc.guid = g /\ AddMsg(c, g).file = c.file
      BY <1>1, Messages DEF Readable, FitsDB
    <2> QED BY <2>1 DEF BeforeDB, MadeIn, RefusedIn, RowSet
  <1>9. stage = "set persistent" =>
            /\ pre = RowSet(op.inc, c) /\ made = DBUpdate(op.inc, c).content
            /\ ~RefusedIn(op, stage, pre)
    <2> SUFFICES ASSUME stage = "set persistent"
                 PROVE  pre = RowSet(op.inc, c) /\ made = DBUpdate(op.inc, c).content
      BY DEF RefusedIn
    <2>1. op.inc \in Incident /\ op.inc.guid = g /\ g \in Guids /\ ~op.inc.persistent
      BY <1>1 DEF FitsDB
    <2>2. pre = RowSet(op.inc, c)
      BY DEF BeforeDB
    <2> HIDE DEF pre
    <2>3. made = IF pre.pers[g] = None THEN pre ELSE WithFile(Erase(pre, g), g, pre.pers[g])
      BY <2>1 DEF MadeIn, WithFile
    <2>7. RowSetSays(op.inc, c, g)
      BY <2>1, RowSetThenUnlisted
    <2>4. CASE ~Readable(c, g)
      <3>1. pre = AddMsg(c, g) /\ pre = DBUpdate(op.inc, c).content
        BY <2>1, <2>2, <2>4, <2>7 DEF RowSetSays
      <3>2. pre.pers[g] = None
        BY <2>1, <2>4, <3>1, Messages DEF Readable
      <3> QED BY <2>2, <2>3, <3>1, <3>2
    <2>5. CASE c.file[g] # None
      BY <2>1, <2>2, <2>3, <2>5, <2>7 DEF RowSetSays
    <2>6. CASE c.file[g] = None /\ c.pers[g] # None
      <3>1. /\ pre.pers[g] = op.inc.ver
            /\ WithFile(Erase(pre, g), g, op.inc.ver) = DBUpdate(op.inc, c).content
        BY <2>1, <2>2, <2>6, <2>7 DEF RowSetSays
      <3>2. pre.pers[g] # None
        BY <2>1, <3>1, NoneAssumption DEF Incident
      <3> QED BY <2>2, <2>3, <3>1, <3>2
    <2> QED BY <2>4, <2>5, <2>6 DEF Readable
  <1>10. stage = "delete row" =>
            pre = DropMsg(c, g) /\ made = Erase(DropMsg(c, g), g) /\ ~RefusedIn(op, stage, pre)
    BY <1>2 DEF BeforeDB, MadeIn, RefusedIn, FitsDB
  <1>11. stage = "add subscriber" =>
            /\ pre = c /\ made = AddSub(c, op.email)
            /\ RefusedIn(op, stage, pre) <=> op.email \in c.subs
    BY DEF BeforeDB, MadeIn, RefusedIn
  <1>12. stage = "delete subscriber" =>
            pre = c /\ made = DropSub(c, op.email) /\ ~RefusedIn(op, stage, pre)
    BY DEF BeforeDB, MadeIn, RefusedIn
  <1>13. stage = "select" =>
            pre = c /\ made = c /\ (RefusedIn(op, stage, pre) <=> ~Readable(c, op.guid))
    BY DEF BeforeDB, MadeIn, RefusedIn
  <1> HIDE DEF pre, made
  <1>14. Meaning(op, stage, c, pre, made, g)
    BY <1>3, <1>4, <1>5, <1>6, <1>7, <1>8, <1>9, <1>10, <1>11, <1>12, <1>13 DEF Meaning
  <1> QED BY <1>14 DEF pre, made

\* The result of a statement: it works, or is refused, or fails.
Answer(op, stage, pre, failed, d, err) ==
    \/ /\ ~RefusedIn(op, stage, pre) /\ d = MadeIn(op, stage, pre)
       /\ err = "nil" \/ (failed /\ err = "other")
    \/ /\ d = pre /\ err = "other"
       /\ RefusedIn(op, stage, pre) \/ failed

Late(op, stage) == op.act = "updated" /\ stage = "delete metadata"

\* The call ends with this statement.
Ends(op, stage, held, err) ==
    /\ ~Late(op, stage)
    /\ \/ err # "nil" \/ held # "nil"
       \/ stage = "set row" /\ op.inc.persistent
       \/ NextDB(op, stage) = "end"

\* What the next statement may count on.
Onward(op, stage, c, failed, d, err) ==
    /\ d = BeforeDB(op, NextDB(op, stage), c)
    /\ NextDB(op, stage) = "add row" => op.inc.guid \notin c.msgs
    /\ NextDB(op, stage) = "set persistent" => ~op.inc.persistent
    /\ Late(op, stage) => /\ NextDB(op, stage) = "add messages"
                          /\ err = "nil" \/ (failed /\ err = "other")

\* A statement that is not the last leaves what the next one starts from.
LEMMA DBGoesOn ==
    ASSUME NEW op \in StoreOp, NEW stage, FitsDB(op, stage), NEW c \in Content,
           stage = "set persistent" => ~op.inc.persistent,
           NEW failed \in BOOLEAN, NEW d, NEW err,
           Answer(op, stage, BeforeDB(op, stage, c), failed, d, err),
           NEW held, ~Ends(op, stage, held, err)
    PROVE  Onward(op, stage, c, failed, d, err)
  <1> USE DEF Onward
  <1> DEFINE g == Target(op)
             pre == BeforeDB(op, stage, c)
             made == MadeIn(op, stage, pre)
  <1>0. Meaning(op, stage, c, pre, made, g)
    BY DBMade
  <1>a. Answer(op, stage, pre, failed, d, err)
    OBVIOUS
  <1>b. made = MadeIn(op, stage, pre)
    OBVIOUS
  <1> HIDE DEF pre, made
  <1>1. op.act \in {"created", "updated"} => op.inc.guid = g
    BY DEF Target
  <1>2. CASE Late(op, stage)
    <2>1. NextDB(op, stage) = "add messages"
      BY <1>2 DEF Late, NextDB
    <2>2. d = DropMsg(c, g) /\ (err = "nil" \/ (failed /\ err = "other"))
      BY <1>2, <1>0, <1>a, <1>b DEF Meaning, Late, Answer
    <2> QED BY <1>2, <2>1, <2>2 DEF Late, BeforeDB
  <1>3. CASE ~Late(op, stage)
    <2>1. NextDB(op, stage) # "end" /\ err = "nil" /\ d = made /\ ~RefusedIn(op, stage, pre)
      BY <1>3, <1>a, <1>b DEF Ends, Answer
    <2>2. CASE stage = "delete messages"
      BY <1>3, <2>1, <2>2, <1>0, <1>a, <1>b DEF Meaning, NextDB, BeforeDB
    <2>3. CASE stage = "delete metadata"
      BY <1>3, <2>1, <2>3, <1>0, <1>a, <1>b DEF Meaning, NextDB, BeforeDB, Late, FitsDB
    <2>4. CASE stage = "add messages"
      <3>1. CASE op.act = "created"
        BY <1>1, <1>3, <2>1, <2>4, <3>1, <1>0, <1>a, <1>b DEF Meaning, NextDB, BeforeDB
      <3>2. CASE op.act = "updated"
        BY <1>3, <2>1, <2>4, <3>2, <1>0, <1>a, <1>b DEF Meaning, NextDB, BeforeDB
      <3> QED BY <2>4, <3>1, <3>2 DEF FitsDB
    <2>5. CASE stage = "set row"
      BY <1>3, <2>1, <2>5, <1>0, <1>a, <1>b DEF Meaning, NextDB, BeforeDB, Ends
    <2> QED BY <2>1, <2>2, <2>3, <2>4, <2>5 DEF NextDB
  <1> QED BY <1>2, <1>3

\* Every place a DB update may stop at, RowSet included.
LEMMA RowSetStage ==
    ASSUME NEW op \in StoreOp, op.act = "updated", NEW c \in Content
    PROVE  RowSet(op.inc, c) \in DBStages(op, c)
  <1> DEFINE i == op.inc
             g == op.inc.guid
  <1>1. i \in Incident /\ g \in Guids /\ i.persistent \in BOOLEAN
    BY CallFields DEF Incident
  <1>2. RowSetSays(i, c, g)
    BY <1>1, RowSetThenUnlisted
  <1>3. DBUpdate(i, c).content \in DBStages(op, c)
    BY DEF DBStages, DBCall
  <1>4. AddMsg(c, g) \in DBStages(op, c) /\ DBRowSet(i, c) \in DBStages(op, c)
    BY DEF DBStages
  <1>5. CASE ~i.persistent /\ c.file[g] = None /\ c.pers[g] # None
    <2>1. DBRowSet(i, c) = WithPers(AddMsg(c, g), g, i.ver)
      BY <1>5 DEF DBRowSet, WithPers
    <2>2. RowSet(i, c) = WithPers(AddMsg(c, g), g, i.ver)
      BY <1>2, <1>5 DEF RowSetSays
    <2> QED BY <1>4, <2>1, <2>2
  <1>6. CASE i.persistent \/ c.file[g] # None \/ c.pers[g] = None
    <2>1. RowSet(i, c) = DBUpdate(i, c).content
      BY <1>1, <1>2, <1>6 DEF RowSetSays, Readable
    <2> QED BY <1>3, <2>1
  <1> QED BY <1>5, <1>6

\* A statement that ends the call leaves what Backends says of the call.
LEMMA DBEnds ==
    ASSUME kind = "db", NEW op \in StoreOp, NEW stage, FitsDB(op, stage), NEW c \in Content,
           stage = "set persistent" => ~op.inc.persistent,
           stage = "add row" => op.inc.guid \notin c.msgs,
           NEW failed \in BOOLEAN, NEW d, NEW err,
           Answer(op, stage, BeforeDB(op, stage, c), failed, d, err),
           NEW held,
           held = "nil" \/ (held = "other" /\ failed /\ op.act = "updated" /\ stage = "add messages"),
           Ends(op, stage, held, err)
    PROVE  Allowed(op, c, failed, Fail(d, IF err = "nil" THEN held ELSE err))
  <1> DEFINE g == Target(op)
             pre == BeforeDB(op, stage, c)
             made == MadeIn(op, stage, pre)
             refused == RefusedIn(op, stage, pre)
             e == IF err = "nil" THEN held ELSE err
  <1>0. Meaning(op, stage, c, pre, made, g)
    BY DBMade
  <1>1. /\ e = "nil" => ~refused /\ d = made
        /\ e # "nil" => e = "other"
        /\ e = "other" => (refused /\ d = pre) \/ (failed /\ (d = pre \/ (~refused /\ d = made)))
    <2>1. CASE held = "nil"
      BY <2>1 DEF Answer
    <2>2. CASE held = "other" /\ failed
      BY <2>2 DEF Answer
    <2> QED BY <2>1, <2>2
  <1>2. e = "nil" => NextDB(op, stage) = "end" \/ (stage = "set row" /\ op.inc.persistent)
    BY DEF Ends
  <1>r. refused <=> RefusedIn(op, stage, pre)
    OBVIOUS
  <1>3. ~Late(op, stage)
    BY DEF Ends
  <1> SUFFICES Allowed(op, c, failed, Fail(d, e))
    OBVIOUS
  <1> HIDE DEF pre, made, refused, e
  <1>4. /\ op.act # "read" /\ Fail(d, e) = DBCall(op, c) => Allowed(op, c, failed, Fail(d, e))
        /\ op.act # "read" /\ failed /\ e = "other" /\ d \in DBStages(op, c) =>
              Allowed(op, c, failed, Fail(d, e))
    <2>1. op.act # "read" /\ Fail(d, e) = DBCall(op, c) => Allowed(op, c, failed, Fail(d, e))
      BY DEF Allowed, Outcome, Apply
    <2>2. op.act # "read" /\ failed /\ e = "other" /\ d \in DBStages(op, c) =>
              Allowed(op, c, failed, Fail(d, e))
      BY DEF Allowed, Disturbed, Faulty, Stages
    <2> QED BY <2>1, <2>2
  <1>5. c \in DBStages(op, c) /\ DBCall(op, c).content \in DBStages(op, c)
    BY DEF DBStages
  <1>d. \A x : DBCall(op, c) = Done(x) => x \in DBStages(op, c)
    <2>1. \A x : Done(x).content = x
      BY DEF Done
    <2> QED BY <1>5, <2>1
  <1>6. op.act \in {"created", "updated", "deleted"} => g \in Guids
    BY CallFields
  <1>7. op.act \in {"created", "updated"} => op.inc \in Incident /\ op.inc.guid = g
    BY CallFields DEF Target
  <1>8. CASE stage = "add messages" /\ op.act = "created"
    <2>1. pre = c /\ made = AddMsg(c, g) /\ (refused <=> g \in c.msgs)
      BY <1>0, <1>8, <1>r DEF Meaning
    <2>2. e = "other"
      BY <1>1, <1>2, <1>8 DEF NextDB
    <2>3. refused /\ d = pre => Fail(d, e) = DBCall(op, c)
      BY <1>7, <1>8, <2>1, <2>2 DEF DBCall, DBCreate
    <2>4. AddMsg(c, g) \in DBStages(op, c)
      BY <1>7, <1>8 DEF DBStages
    <2> QED BY <1>1, <1>4, <1>5, <1>8, <2>1, <2>2, <2>3, <2>4
  <1>9. CASE stage = "add row"
    <2>0. op.act = "created"
      BY <1>9 DEF FitsDB
    <2>1. pre = AddMsg(c, g) /\ made = Put(AddMsg(c, g), op.inc) /\ (refused <=> Readable(c, g))
      BY <1>0, <1>9, <1>r DEF Meaning
    <2>2. g \notin c.msgs
      BY <1>7, <1>9, <2>0
    <2>3. DBCall(op, c) = IF refused THEN Fail(pre, "other") ELSE Done(made)
      BY <1>7, <2>0, <2>1, <2>2 DEF DBCall, DBCreate
    <2>4. pre \in DBStages(op, c)
      BY <1>7, <2>0, <2>1 DEF DBStages
    <2>5. ~refused => made \in DBStages(op, c)
      BY <1>d, <2>3
    <2>6. CASE e = "nil"
      BY <1>1, <1>4, <2>0, <2>3, <2>6 DEF Done, Fail
    <2>7. CASE e = "other"
      BY <1>1, <1>4, <2>0, <2>3, <2>4, <2>5, <2>7
    <2> QED BY <1>1, <2>6, <2>7
  <1>10. CASE op.act = "updated"
    <2>1. op.inc \in Incident /\ op.inc.guid = g /\ g \in Guids
      BY <1>6, <1>7, <1>10
    <2>2. /\ DropMsg(c, g) \in DBStages(op, c) /\ AddMsg(c, g) \in DBStages(op, c)
          /\ RowSet(op.inc, c) \in DBStages(op, c)
      BY <1>10, <2>1, RowSetStage DEF DBStages
    <2>3. DBCall(op, c) = Done(DBUpdate(op.inc, c).content)
      BY <1>10 DEF DBCall, DBUpdate, Done
    <2>4. stage \in {"delete messages", "add messages", "set row", "set persistent"}
      BY <1>3, <1>10 DEF FitsDB, Late
    <2>5. ~refused
      BY <1>0, <1>10, <1>r, <2>4 DEF Meaning
    <2>6. pre \in DBStages(op, c) /\ made \in DBStages(op, c)
      <3>1. DBUpdate(op.inc, c).content \in DBStages(op, c)
        BY <1>d, <2>3
      <3> QED BY <1>0, <1>5, <1>10, <2>2, <2>4, <3>1 DEF Meaning
    <2>7. CASE e = "nil"
      <3>1. stage = "set persistent" \/ (stage = "set row" /\ op.inc.persistent)
        BY <1>2, <1>10, <2>4, <2>7 DEF NextDB
      <3>2. made = DBUpdate(op.inc, c).content
        <4>1. RowSetSays(op.inc, c, g)
          BY <2>1, RowSetThenUnlisted
        <4> QED BY <1>0, <3>1, <4>1 DEF Meaning, RowSetSays
      <3> QED BY <1>1, <1>4, <1>10, <2>3, <2>7, <3>2 DEF Done, Fail
    <2>8. CASE e = "other"
      BY <1>1, <1>4, <1>10, <2>5, <2>6, <2>8
    <2> QED BY <1>1, <2>7, <2>8
  <1>11. CASE op.act = "deleted"
    <2>1. op.guid = g
      BY <1>11 DEF Target
    <2>2. DropMsg(c, g) \in DBStages(op, c)
      BY <1>11, <2>1 DEF DBStages
    <2>3. DBCall(op, c) = Done(Erase(DropMsg(c, g), g))
      BY <1>11, <2>1 DEF DBCall, DBDelete
    <2>4. stage \in {"delete messages", "delete metadata", "delete row"}
      BY <1>11 DEF FitsDB
    <2>5. ~refused
      BY <1>0, <1>r, <2>4 DEF Meaning
    <2>6. pre \in DBStages(op, c) /\ made \in DBStages(op, c)
      <3>1. Erase(DropMsg(c, g), g) \in DBStages(op, c)
        BY <1>d, <2>3
      <3> QED BY <1>0, <1>5, <2>2, <2>4, <3>1 DEF Meaning
    <2>7. CASE e = "nil"
      <3>1. stage = "delete row"
        BY <1>2, <1>11, <2>4, <2>7 DEF NextDB
      <3>2. made = Erase(DropMsg(c, g), g)
        BY <1>0, <3>1 DEF Meaning
      <3> QED BY <1>1, <1>4, <1>11, <2>3, <2>7, <3>2 DEF Done, Fail
    <2>8. CASE e = "other"
      BY <1>1, <1>4, <1>11, <2>5, <2>6, <2>8
    <2> QED BY <1>1, <2>7, <2>8
  <1>12. CASE op.act = "subscribe"
    <2>1. stage = "add subscriber"
      BY <1>12 DEF FitsDB
    <2>2. pre = c /\ made = AddSub(c, op.email) /\ (refused <=> op.email \in c.subs)
      BY <1>0, <1>r, <2>1 DEF Meaning
    <2>3. DBCall(op, c) = IF refused THEN Fail(c, "other") ELSE Done(made)
      BY <1>12, <2>2 DEF DBCall, DBSubscribe
    <2>4. ~refused => made \in DBStages(op, c)
      BY <1>d, <2>3
    <2>5. CASE e = "nil"
      BY <1>1, <1>4, <1>12, <2>3, <2>5 DEF Done, Fail
    <2>6. CASE e = "other"
      BY <1>1, <1>4, <1>5, <1>12, <2>2, <2>3, <2>4, <2>6
    <2> QED BY <1>1, <2>5, <2>6
  <1>13. CASE op.act = "unsubscribe"
    <2>1. stage = "delete subscriber"
      BY <1>13 DEF FitsDB
    <2>2. pre = c /\ made = DropSub(c, op.email) /\ ~refused
      BY <1>0, <1>r, <2>1 DEF Meaning
    <2>3. DBCall(op, c) = Done(made)
      BY <1>13, <2>2 DEF DBCall, DBUnsubscribe
    <2>4. made \in DBStages(op, c)
      BY <1>d, <2>3
    <2>5. CASE e = "nil"
      BY <1>1, <1>4, <1>13, <2>3, <2>5 DEF Done, Fail
    <2>6. CASE e = "other"
      BY <1>1, <1>4, <1>5, <1>13, <2>2, <2>4, <2>6
    <2> QED BY <1>1, <2>5, <2>6
  <1>14. CASE op.act = "read"
    <2>1. stage = "select"
      BY <1>14 DEF FitsDB
    <2>2. pre = c /\ made = c /\ (refused <=> ~Readable(c, op.guid))
      BY <1>0, <1>r, <2>1 DEF Meaning
    <2>3. Outcome(kind, op, c) = Fail(c, IF refused THEN "other" ELSE "nil")
      BY <1>14, <2>2 DEF Outcome, Missing, Fail
    <2>4. Fail(c, "other") \in Disturbed(kind, op, c)
      BY <1>14 DEF Disturbed
    <2>5. CASE e = "nil"
      BY <1>1, <2>2, <2>3, <2>5 DEF Allowed
    <2>6. CASE e = "other"
      BY <1>1, <2>2, <2>3, <2>4, <2>6 DEF Allowed
    <2> QED BY <1>1, <2>5, <2>6
  <1>15. op.act \in Actions \cup {"read"}
    BY CallFields
  <1>16. op.act = "created" => stage = "add row" \/ stage = "add messages"
    BY DEF FitsDB
  <1> QED BY <1>8, <1>9, <1>10, <1>11, <1>12, <1>13, <1>14, <1>15, <1>16 DEF Actions

-----------------------------------------------------------------------------
(* DB: its steps *)

\* The statements make contents of contents, and no object of S3.
LEMMA MadeType ==
    ASSUME NEW op \in StoreOp, NEW stage, FitsDB(op, stage), NEW d \in Content
    PROVE  MadeIn(op, stage, d) \in Content /\ MadeIn(op, stage, d).subsFile = d.subsFile
  <1>1. /\ op.act \in {"created", "updated"} => op.inc \in Incident /\ op.inc.guid \in Guids
        /\ op.act \in {"updated", "deleted"} => Target(op) \in Guids
        /\ op.act = "deleted" => op.guid \in Guids
        /\ op.act \in {"subscribe", "unsubscribe"} => op.email \in Emails
    BY CallFields DEF Incident, Target
  <1>2. ASSUME NEW g \in Guids, NEW c \in Content
        PROVE  /\ AddMsg(c, g) \in Content /\ AddMsg(c, g).subsFile = c.subsFile
               /\ DropMsg(c, g) \in Content /\ DropMsg(c, g).subsFile = c.subsFile
               /\ Erase(c, g) \in Content /\ Erase(c, g).subsFile = c.subsFile
    <2>1. Erase(c, g).subsFile = c.subsFile
      BY DEF Erase, Content
    <2> QED BY <2>1, EditsType, Messages
  <1>3. ASSUME NEW i \in Incident, NEW c \in Content
        PROVE  Put(c, i) \in Content /\ Put(c, i).subsFile = c.subsFile
    <2>1. Put(c, i).subsFile = c.subsFile
      BY DEF Put, Content
    <2> QED BY <2>1, PutType
  <1>4. CASE stage \in {"add messages", "delete messages", "add row", "delete row"}
    BY <1>1, <1>2, <1>3, <1>4 DEF MadeIn, FitsDB
  <1>5. CASE stage = "set row"
    <2> DEFINE i == [op.inc EXCEPT !.persistent = @ \/ d.file[op.inc.guid] = None]
    <2>1. op.inc \in Incident
      BY <1>1, <1>5 DEF FitsDB
    <2>2. i \in Incident
      BY <2>1 DEF Incident
    <2>3. MadeIn(op, stage, d) = IF Readable(d, op.inc.guid) THEN Replace(d, i) ELSE d
      BY <1>5 DEF MadeIn
    <2> HIDE DEF i
    <2>4. i.guid \in Guids
      BY <2>2 DEF Incident
    <2> QED BY <1>2, <1>3, <2>2, <2>3, <2>4 DEF Replace
  <1>6. CASE stage = "set persistent"
    <2> DEFINE g == op.inc.guid
               e == Erase(d, g)
    <2>1. g \in Guids
      BY <1>1, <1>6 DEF FitsDB
    <2>2. e \in Content /\ e.subsFile = d.subsFile
      BY <1>2, <2>1
    <2>3. MadeIn(op, stage, d) = IF d.pers[g] = None THEN d ELSE [e EXCEPT !.file[g] = d.pers[g]]
      BY <1>6 DEF MadeIn
    <2> HIDE DEF e
    <2>4. d.pers[g] # None => d.pers[g] \in Versions
      BY <2>1 DEF Content, Shelf
    <2>5. d.pers[g] # None => /\ [e EXCEPT !.file[g] = d.pers[g]] \in Content
                              /\ [e EXCEPT !.file[g] = d.pers[g]].subsFile = e.subsFile
      BY <2>1, <2>2, <2>4 DEF Content, Shelf
    <2> QED BY <2>2, <2>3, <2>5
  <1>7. CASE stage \in {"add subscriber", "delete subscriber"}
    <2>1. op.email \in Emails
      BY <1>1, <1>7 DEF FitsDB
    <2>2. /\ AddSub(d, op.email) \in Content /\ AddSub(d, op.email).subsFile = d.subsFile
          /\ DropSub(d, op.email) \in Content /\ DropSub(d, op.email).subsFile = d.subsFile
      BY <2>1 DEF AddSub, DropSub, Content
    <2> QED BY <1>7, <2>2 DEF MadeIn
  <1>8. CASE stage \in {"delete metadata", "select"}
    BY <1>8 DEF MadeIn
  <1> QED BY <1>4, <1>5, <1>6, <1>7, <1>8 DEF FitsDB

\* Before a statement the tables hold a content.
LEMMA BeforeDBType ==
    ASSUME NEW op \in StoreOp, NEW stage, FitsDB(op, stage), NEW c \in Content
    PROVE  BeforeDB(op, stage, c) \in Content
  <1> DEFINE g == Target(op)
  <1>1. /\ op.act \in {"created", "updated", "deleted"} => g \in Guids
        /\ op.act \in {"created", "updated"} => op.inc \in Incident /\ op.inc.guid = g
    BY CallFields DEF Target, Incident
  <1>2. CASE stage = "set persistent"
    <2>1. RowSetSays(op.inc, c, g)
      BY <1>1, <1>2, RowSetThenUnlisted DEF FitsDB
    <2> QED BY <1>2, <2>1 DEF BeforeDB, RowSetSays
  <1>3. CASE stage # "set persistent"
    BY <1>1, <1>3, EditsType DEF BeforeDB, FitsDB
  <1> QED BY <1>2, <1>3

\* What the tables hold once a statement was executed.
LEMMA TablesMake ==
    ASSUME NEW d \in Content, d.subsFile = DBContent.subsFile, Tables(d)
    PROVE  DBContent' = d /\ DOMAIN lists' = Lists
  <1>1. d = [file |-> d.file, pers |-> d.pers, msgs |-> d.msgs, subs |-> d.subs,
             subsFile |-> d.subsFile]
    BY DEF Content
  <1>2. d.subsFile = FALSE
    BY DEF DBContent, Decoded
  <1>3. lists'["persistents"] = d.pers /\ lists'["subscribers"] = d.subs
    BY DEF Tables
  <1>4. DBContent' = [file |-> files', pers |-> lists'["persistents"], msgs |-> messages',
                      subs |-> lists'["subscribers"], subsFile |-> FALSE]
    <2>1. \A f, p, m, s, b, x :
            [[file |-> f, pers |-> p, msgs |-> x, subs |-> s, subsFile |-> b] EXCEPT !.msgs = m] =
                [file |-> f, pers |-> p, msgs |-> m, subs |-> s, subsFile |-> b]
      OBVIOUS
    <2>2. DBContent' =
            [[file |-> files', pers |-> lists'["persistents"], msgs |-> {},
              subs |-> lists'["subscribers"], subsFile |-> FALSE] EXCEPT !.msgs = messages']
      BY DEF DBContent, Decoded
    <2> QED BY <2>1, <2>2
  <1>5. DOMAIN lists' = Lists
    BY DEF Tables, Lists
  <1> QED BY <1>1, <1>2, <1>3, <1>4, <1>5 DEF Tables

\* What follows a statement.
LEMMA DBAnswer ==
    ASSUME Frame, OneCaller, client[Caller].op \in StoreOp, NEW n, NEW err, Statement(Caller, n),
           Answered(Caller, n, err)
    PROVE  LET op    == client[Caller].op
               stage == client[Caller].stage
               held  == pending[Caller]
           IN  /\ DOMAIN pending' = Clients
               /\ pending'[Caller] = IF Late(op, stage) THEN err ELSE "nil"
               /\ Listed(op, Statements[op.act], n) /\ stage = Statements[op.act][n]
               /\ IF Ends(op, stage, held, err)
                  THEN GoTo(Caller, "end", IF err = "nil" THEN held ELSE err)
                  ELSE GoTo(Caller, NextDB(op, stage), err) /\ NextDB(op, stage) # "end"
  <1> DEFINE op == client[Caller].op
             stage == client[Caller].stage
             held == pending[Caller]
             s == Statements[op.act]
             next == IF n = Len(s) THEN "end" ELSE s[n + 1]
             last == stage = "set row" /\ op.inc.persistent
  <1>1. n \in DOMAIN s /\ stage = s[n]
    BY DEF Statement
  <1>2. Listed(op, s, n)
    BY <1>1, StatementsOf
  <1>3. next = NextDB(op, stage)
    BY <1>1, <1>2 DEF Listed
  <1>4. /\ pending' = [pending EXCEPT ![Caller] = IF Late(op, stage) THEN err ELSE "nil"]
        /\ IF Late(op, stage) \/ (err = "nil" /\ held = "nil" /\ ~last)
           THEN GoTo(Caller, next, err)
           ELSE GoTo(Caller, "end", IF err = "nil" THEN held ELSE err)
    BY DEF Answered, Late
  <1>5. DOMAIN pending' = Clients /\ pending'[Caller] = IF Late(op, stage) THEN err ELSE "nil"
    BY <1>4 DEF Frame, OneCaller
  <1> HIDE DEF next, s
  <1>6. IF Ends(op, stage, held, err)
        THEN GoTo(Caller, "end", IF err = "nil" THEN held ELSE err)
        ELSE GoTo(Caller, NextDB(op, stage), err) /\ NextDB(op, stage) # "end"
    <2>1. CASE Late(op, stage)
      BY <1>3, <1>4, <2>1 DEF Late, Ends, NextDB
    <2>2. CASE ~Late(op, stage) /\ err = "nil" /\ held = "nil" /\ ~last
      BY <1>3, <1>4, <2>2 DEF Ends
    <2>3. CASE ~Late(op, stage) /\ ~(err = "nil" /\ held = "nil" /\ ~last)
      BY <1>4, <2>3 DEF Ends
    <2> QED BY <2>1, <2>2, <2>3
  <1> QED BY <1>1, <1>2, <1>5, <1>6 DEF s

\* The result of a statement, on the tables.
LEMMA DBResult ==
    ASSUME kind = "db", InCall, NEW n, NEW err,
           LET k == client[Caller]
           IN  \/ ~Refused(k.op, k.stage) /\ Tables(Made(k.op, k.stage))
                  /\ (err = "nil" \/ (Failed' /\ err = "other"))
               \/ Unchanged /\ err = "other" /\ (Refused(k.op, k.stage) \/ Failed'),
           FitsDB(client[Caller].op, client[Caller].stage), DOMAIN lists = Lists
    PROVE  LET k == client[Caller]
           IN  /\ Answer(k.op, k.stage, DBContent, Failed', DBContent', err)
               /\ DOMAIN lists' = Lists
  <1> DEFINE op == client[Caller].op
             stage == client[Caller].stage
             c == start[Caller].content
  <1>1. op \in StoreOp /\ DBContent \in Content
    BY BeforeDBType DEF InCall, InDB
  <1>2. MadeIn(op, stage, DBContent) \in Content
        /\ MadeIn(op, stage, DBContent).subsFile = DBContent.subsFile
    BY <1>1, MadeType
  <1>3. CASE /\ ~Refused(op, stage) /\ Tables(Made(op, stage))
             /\ err = "nil" \/ (Failed' /\ err = "other")
    <2>1. DBContent' = MadeIn(op, stage, DBContent) /\ DOMAIN lists' = Lists
      BY <1>2, <1>3, MadeSame, TablesMake
    <2> QED BY <1>3, <2>1, MadeSame DEF Answer
  <1>4. CASE Unchanged /\ err = "other" /\ (Refused(op, stage) \/ Failed')
    <2>1. DBContent' = DBContent /\ DOMAIN lists' = Lists
      BY <1>4 DEF Unchanged, DBContent, Decoded
    <2> QED BY <1>4, <2>1, MadeSame DEF Answer
  <1> QED BY <1>3, <1>4

\* A statement, executed or failing.
LEMMA DBAnswered ==
    ASSUME Frame, OneCaller, kind = "db", InCall, kind' = kind, NEW n, NEW err, Frame',
           Failed => Failed', Statement(Caller, n), Answered(Caller, n, err),
           Answer(client[Caller].op, client[Caller].stage, DBContent, Failed', DBContent', err)
    PROVE  StepOk
  <1> DEFINE op == client[Caller].op
             stage == client[Caller].stage
             c == start[Caller].content
             held == pending[Caller]
             s == Statements[op.act]
             next == NextDB(op, stage)
  <1>0. Failed' \in BOOLEAN
    BY DEF Failed
  <1>1. /\ op \in StoreOp /\ c \in Content /\ DBContent = BeforeDB(op, stage, c)
        /\ stage = "add row" => op.inc.guid \notin c.msgs
        /\ stage = "set persistent" => ~op.inc.persistent
        /\ held = "nil" \/ (held = "other" /\ Failed' /\ op.act = "updated" /\ stage = "add messages")
    BY DEF InCall, InDB
  <1>2. /\ pending'[Caller] = IF Late(op, stage) THEN err ELSE "nil"
        /\ Listed(op, s, n) /\ stage = s[n]
        /\ IF Ends(op, stage, held, err)
           THEN GoTo(Caller, "end", IF err = "nil" THEN held ELSE err)
           ELSE GoTo(Caller, next, err) /\ next # "end"
    BY <1>1, DBAnswer
  <1>3. FitsDB(op, stage)
    BY <1>2 DEF Listed
  <1>4. CASE Ends(op, stage, held, err)
    <2>1. GoTo(Caller, "end", IF err = "nil" THEN held ELSE err) /\ pending'[Caller] = "nil"
      BY <1>2, <1>4 DEF Ends
    <2>2. Allowed(op, c, Failed', Fail(DBContent', IF err = "nil" THEN held ELSE err))
      BY <1>0, <1>1, <1>3, <1>4, DBEnds
    <2>3. Kept' = DBContent'
      BY DEF Kept
    <2> QED BY <2>1, <2>2, <2>3, Returns
  <1>5. CASE ~Ends(op, stage, held, err)
    <2>1. GoTo(Caller, next, err) /\ next # "end"
      BY <1>2, <1>5
    <2>2. /\ DBContent' = BeforeDB(op, next, c)
          /\ next = "add row" => op.inc.guid \notin c.msgs
          /\ next = "set persistent" => ~op.inc.persistent
          /\ Late(op, stage) => next = "add messages" /\ (err = "nil" \/ (Failed' /\ err = "other"))
      <3>1. Answer(op, stage, BeforeDB(op, stage, c), Failed', DBContent', err)
        BY <1>1
      <3>2. PICK failed : failed = Failed'
        OBVIOUS
      <3>3. PICK d : d = DBContent'
        OBVIOUS
      <3>4. /\ op \in StoreOp /\ c \in Content /\ failed \in BOOLEAN
            /\ stage = "set persistent" => ~op.inc.persistent
        BY <1>0, <1>1, <3>2
      <3>5. Answer(op, stage, BeforeDB(op, stage, c), failed, d, err)
        BY <3>1, <3>2, <3>3
      <3> HIDE DEF op, stage, c, held
      <3>6. Onward(op, stage, c, failed, d, err)
        BY ONLY <1>3, <1>5, <3>4, <3>5, DBGoesOn
      <3> QED BY <3>2, <3>3, <3>6 DEF Onward
    <2>3. client'[Caller] = [pc |-> Entry(next), stage |-> next, list |-> None, op |-> op]
      BY <2>1, Gone DEF At
    <2>4. start' = start /\ reply' = reply
      BY <2>1, Gone
    <2>5. Entry(next) # "idle"
      BY <2>1 DEF Entry
    <2>6. n + 1 \in DOMAIN s /\ next = s[n + 1]
      BY <1>2, <2>1 DEF Listed
    <2>7. \/ pending'[Caller] = "nil"
          \/ /\ pending'[Caller] = "other" /\ Failed' /\ op.act = "updated"
             /\ next = "add messages"
      BY <1>2, <2>2 DEF Late
    <2> HIDE DEF next
    <2>8. client'[Caller].op = op /\ client'[Caller].stage = next /\ client'[Caller].pc = Entry(next)
      BY <2>3
    <2>9. \E m \in DOMAIN Statements[client'[Caller].op.act] :
              client'[Caller].stage = Statements[client'[Caller].op.act][m]
      BY <2>6, <2>8
    <2>10. InDB'
      BY <2>2, <2>4, <2>5, <2>7, <2>8, <2>9 DEF InDB
    <2>11. InCall'
      BY <1>1, <2>4, <2>8, <2>10 DEF InCall
    <2> QED BY <2>4, <2>8, <2>11 DEF StepOk
  <1> QED BY <1>4, <1>5

\* A step of a call on the database.
LEMMA DBStep ==
    ASSUME Frame, OneCaller, kind = "db", InCall, kind' = kind, NEW n,
           Execute(Caller, n) \/ DBFault(Caller, n)
    PROVE  StepOk
  <1> DEFINE op == client[Caller].op
             stage == client[Caller].stage
  <1>1. PICK err : /\ Statement(Caller, n) /\ Answered(Caller, n, err)
                   /\ \/ ~Refused(op, stage) /\ Tables(Made(op, stage))
                         /\ (err = "nil" \/ (DBFault(Caller, n) /\ err = "other"))
                      \/ Unchanged /\ err = "other"
                         /\ (Refused(op, stage) \/ DBFault(Caller, n))
    <2>1. CASE Execute(Caller, n) /\ Refused(op, stage)
      BY <2>1 DEF Execute
    <2>2. CASE Execute(Caller, n) /\ ~Refused(op, stage)
      BY <2>2 DEF Execute
    <2>3. CASE DBFault(Caller, n)
      BY <2>3 DEF DBFault
    <2> QED BY <2>1, <2>2, <2>3
  <1>2. op \in StoreOp
    BY DEF InCall
  <1>3. DOMAIN pending' = Clients /\ FitsDB(op, stage)
    BY <1>1, <1>2, DBAnswer DEF Listed
  <1>4. DOMAIN client' = Clients /\ DOMAIN reply' = Clients /\ start' = start
    BY <1>1, <1>2, DBAnswer, Gone
  <1>5. env' = env \/ env' = [env EXCEPT !.faults = env.faults + 1]
    BY DEF Execute, DBFault
  <1>6. DOMAIN lists' = Lists
    BY <1>1 DEF Tables, Unchanged, Frame, Lists
  <1>7. Frame' /\ (Failed => Failed')
    BY <1>3, <1>4, <1>5, <1>6, FrameStep
  <1>8. DBFault(Caller, n) => Failed'
    BY <1>3, <1>4, <1>6, FrameStep DEF DBFault
  <1>9. Answer(op, stage, DBContent, Failed', DBContent', err)
    <2>1. DOMAIN lists = Lists
      BY DEF Frame
    <2> QED BY <1>1, <1>3, <1>8, <2>1, DBResult
  <1> QED BY <1>1, <1>7, <1>9, DBAnswered

-----------------------------------------------------------------------------
(* Calls begin, and Inv is inductive *)

\* A call under way is not at rest.
LEMMA Busy ==
    ASSUME kind \in Kinds, InCall
    PROVE  client[Caller].pc # "idle" /\ client[Caller].op # None
  <1> DEFINE k == client[Caller]
  <1>1. k.op \in StoreOp /\ k.op # None
    BY CallAssumption DEF InCall
  <1>2. ASSUME Fits(k.op, k.stage) PROVE Entry(k.stage) # "idle"
    <2>1. k.stage \in {"add", "file", "drop", "unlink", "sub", "unsub", "find", "load"}
      BY <1>1, <1>2, FitsOp DEF Actions
    <2> QED BY <2>1 DEF Entry
  <1>3. CASE kind = "local"
    <2>1. Fits(k.op, k.stage) /\ \E pre : LocalAt(k, pre)
      BY <1>3 DEF InCall, InLocal
    <2> QED BY <1>1, <1>2, <2>1 DEF LocalAt
  <1>4. CASE kind = "s3"
    BY <1>1, <1>2, <1>4 DEF InCall, InS3
  <1>5. CASE kind = "db"
    BY <1>1, <1>5 DEF InCall, InDB
  <1> QED BY <1>3, <1>4, <1>5 DEF Kinds

\* The same after a step.
LEMMA BusyNext ==
    (kind \in Kinds /\ InCall => client[Caller].pc # "idle" /\ client[Caller].op # None)'
  <1>1. kind \in Kinds /\ InCall => client[Caller].pc # "idle" /\ client[Caller].op # None
    BY Busy
  <1> QED BY <1>1, PTL

\* What a call finds at its beginning.
Begun == /\ InCall' /\ Frame'
         /\ start'[Caller].content = Kept /\ start'[Caller].faults = env.faults
         /\ reply' = reply

\* The call, once begun.
LEMMA Begins ==
    ASSUME Frame, OneCaller, Resting, NEW op \in StoreOp, NEW stage, NEW content,
           Begin(Caller, op, stage, content), stage # "end"
    PROVE  /\ client'[Caller] = [pc |-> Entry(stage), stage |-> stage, list |-> None, op |-> op]
           /\ start'[Caller].content = content /\ start'[Caller].faults = env.faults
           /\ env'.faults = env.faults /\ reply' = reply /\ files' = files /\ lists' = lists
           /\ DOMAIN client' = Clients /\ DOMAIN start' = Clients /\ DOMAIN reply' = Clients
           /\ env' \in [ops : Nat, faults : Nat, crashes : Nat]
  <1>1. Caller \in Clients
    BY DEF OneCaller
  <1>2. client' = [client EXCEPT ![Caller] = At(op, stage)]
        /\ start' = [start EXCEPT ![Caller] = [content |-> content, faults |-> env.faults]]
        /\ env' = [env EXCEPT !.ops = env.ops + 1] /\ UNCHANGED <<files, lists, reply>>
    BY DEF Begin
  <1> QED BY <1>1, <1>2 DEF Frame, At

\* A call begins on a Local store, on S3, on the database.
LEMMA LocalBegins ==
    ASSUME Frame, OneCaller, kind = "local", Resting, kind' = kind, pending' = pending,
           Request(Caller)
    PROVE  Begun
  <1>1. PICK op \in MayCall : Begin(Caller, op, FirstStage(op), Decoded)
    BY DEF Request
  <1> DEFINE stage == FirstStage(op)
             c == Decoded
  <1>2. op \in StoreOp
    BY <1>1 DEF MayCall
  <1>3. stage # "end" /\ stage # "load" /\ Fits(op, stage) /\ Before(op, stage, c, Failed') = {c}
    BY <1>2, CallFields DEF FirstStage, Fits, StagesOf, Before, Actions
  <1>4. c \in Content /\ Kept = c
    BY DEF Resting, Kept
  <1>5. /\ client'[Caller] = [pc |-> Entry(stage), stage |-> stage, list |-> None, op |-> op]
        /\ start'[Caller].content = c /\ start'[Caller].faults = env.faults
        /\ env'.faults = env.faults /\ reply' = reply /\ files' = files /\ lists' = lists
        /\ DOMAIN client' = Clients /\ DOMAIN start' = Clients /\ DOMAIN reply' = Clients
        /\ env' \in [ops : Nat, faults : Nat, crashes : Nat]
    BY <1>1, <1>2, <1>3, Begins
  <1>6. Decoded' = c
    BY <1>5 DEF Decoded
  <1> HIDE DEF stage, c
  <1>7. client'[Caller].stage = stage /\ client'[Caller].op = op /\ client'[Caller].pc = Entry(stage)
    BY <1>5
  <1>8. InLocal'
    BY <1>3, <1>5, <1>6, <1>7 DEF InLocal, LocalAt
  <1>9. Frame'
    BY <1>5 DEF Frame
  <1>10. InCall'
    BY <1>2, <1>4, <1>5, <1>7, <1>8 DEF InCall, Resting
  <1> QED BY <1>4, <1>5, <1>9, <1>10 DEF Begun

\* A call of the S3 store begins.
LEMMA S3Begins ==
    ASSUME Frame, OneCaller, kind = "s3", Resting, kind' = kind, pending' = pending,
           S3Request(Caller)
    PROVE  Begun
  <1>1. PICK op \in MayCall : Begin(Caller, op, S3First(op), S3Content)
    BY DEF S3Request
  <1> DEFINE stage == S3First(op)
             c == S3Content
  <1>2. op \in StoreOp
    BY <1>1 DEF MayCall
  <1>3. stage # "end" /\ stage # "find" /\ Fits(op, stage) /\ Before(op, stage, c, Failed') = {c}
    BY <1>2, CallFields DEF S3First, FirstStage, Fits, StagesOf, Before, Actions
  <1>4. c \in Content /\ Kept = c
    BY DEF Resting, Kept
  <1>5. /\ client'[Caller] = [pc |-> Entry(stage), stage |-> stage, list |-> None, op |-> op]
        /\ start'[Caller].content = c /\ start'[Caller].faults = env.faults
        /\ env'.faults = env.faults /\ reply' = reply /\ files' = files /\ lists' = lists
        /\ DOMAIN client' = Clients /\ DOMAIN start' = Clients /\ DOMAIN reply' = Clients
        /\ env' \in [ops : Nat, faults : Nat, crashes : Nat]
    BY <1>1, <1>2, <1>3, Begins
  <1>6. S3Content' = c
    BY <1>5 DEF S3Content, Decoded, S3Request
  <1> HIDE DEF stage, c
  <1>7. client'[Caller].stage = stage /\ client'[Caller].op = op /\ client'[Caller].pc = Entry(stage)
    BY <1>5
  <1>8. InS3'
    BY <1>3, <1>5, <1>6, <1>7 DEF InS3
  <1>9. Frame'
    BY <1>5 DEF Frame
  <1>10. InCall'
    BY <1>2, <1>4, <1>5, <1>7, <1>8 DEF InCall, Resting
  <1> QED BY <1>4, <1>5, <1>9, <1>10 DEF Begun

\* The first statement of each operation.
LEMMA FirstOf ==
    ASSUME NEW op \in StoreOp, NEW s, s = Statements[op.act]
    PROVE  /\ s[1] \in {"add messages", "delete messages", "add subscriber", "delete subscriber",
                        "select"}
           /\ 1 \in DOMAIN s
           /\ s[1] = "add messages" => op.act = "created"
  <1>1. op.act \in {"created", "updated", "deleted", "subscribe", "unsubscribe", "read"}
    BY CallFields DEF Actions
  <1>2. ASSUME NEW a, NEW b, s = <<a, b>> PROVE s[1] = a /\ 1 \in DOMAIN s
    BY ONLY <1>2
  <1>3. ASSUME NEW a, NEW b, NEW c, s = <<a, b, c>> PROVE s[1] = a /\ 1 \in DOMAIN s
    BY ONLY <1>3
  <1>4. ASSUME NEW a, NEW b, NEW c, NEW d, NEW e, s = <<a, b, c, d, e>>
        PROVE  s[1] = a /\ 1 \in DOMAIN s
    BY ONLY <1>4
  <1>5. ASSUME NEW a, s = <<a>> PROVE s[1] = a /\ 1 \in DOMAIN s
    BY ONLY <1>5
  <1>6. op.act = "created" => s[1] = "add messages" /\ 1 \in DOMAIN s
    <2>1. op.act = "created" => s = <<"add messages", "add row">>
      BY StatementLists
    <2> QED BY ONLY <1>2, <2>1
  <1>7. op.act = "updated" => s[1] = "delete messages" /\ 1 \in DOMAIN s
    <2>1. op.act = "updated" => s = <<"delete messages", "delete metadata", "add messages",
                                      "set row", "set persistent">>
      BY StatementLists
    <2> QED BY ONLY <1>4, <2>1
  <1>8. op.act = "deleted" => s[1] = "delete messages" /\ 1 \in DOMAIN s
    <2>1. op.act = "deleted" => s = <<"delete messages", "delete metadata", "delete row">>
      BY StatementLists
    <2> QED BY ONLY <1>3, <2>1
  <1>9. /\ op.act = "subscribe" => s[1] = "add subscriber" /\ 1 \in DOMAIN s
        /\ op.act = "unsubscribe" => s[1] = "delete subscriber" /\ 1 \in DOMAIN s
        /\ op.act = "read" => s[1] = "select" /\ 1 \in DOMAIN s
    <2>1. /\ op.act = "subscribe" => s = <<"add subscriber">>
          /\ op.act = "unsubscribe" => s = <<"delete subscriber">>
          /\ op.act = "read" => s = <<"select">>
      BY StatementLists
    <2> QED BY ONLY <1>5, <2>1
  <1> QED BY ONLY <1>1, <1>6, <1>7, <1>8, <1>9

\* A call of the database store begins.
LEMMA DBBegins ==
    ASSUME Frame, OneCaller, kind = "db", Resting, kind' = kind, DBRequest(Caller)
    PROVE  Begun
  <1>1. PICK op \in MayCall : Begin(Caller, op, Statements[op.act][1], DBContent)
    BY DEF DBRequest
  <1> DEFINE stage == Statements[op.act][1]
             c == DBContent
  <1>2. op \in StoreOp
    BY <1>1 DEF MayCall
  <1>3. /\ stage \in {"add messages", "delete messages", "add subscriber", "delete subscriber", "select"}
        /\ 1 \in DOMAIN Statements[op.act]
        /\ stage = "add messages" => op.act = "created"
    BY <1>2, FirstOf
  <1>4. c \in Content /\ Kept = c
    BY DEF Resting, Kept
  <1> HIDE DEF stage, c
  <1>5. /\ client'[Caller] = [pc |-> Entry(stage), stage |-> stage, list |-> None, op |-> op]
        /\ start'[Caller].content = c /\ start'[Caller].faults = env.faults
        /\ env'.faults = env.faults /\ reply' = reply /\ files' = files /\ lists' = lists
        /\ DOMAIN client' = Clients /\ DOMAIN start' = Clients /\ DOMAIN reply' = Clients
        /\ env' \in [ops : Nat, faults : Nat, crashes : Nat]
    BY <1>1, <1>2, <1>3, Begins DEF stage, c
  <1>6. DBContent' = c /\ pending' = pending
    BY <1>5 DEF DBContent, Decoded, DBRequest, c
  <1>7. client'[Caller].stage = stage /\ client'[Caller].op = op /\ client'[Caller].pc = "read"
    <2>1. Entry(stage) = "read"
      BY <1>3 DEF Entry
    <2> QED BY <1>5, <2>1
  <1>8. BeforeDB(op, stage, c) = c
    BY <1>3 DEF BeforeDB
  <1>9. \E n \in DOMAIN Statements[op.act] : stage = Statements[op.act][n]
    BY <1>3 DEF stage
  <1>10. InDB'
    BY <1>3, <1>5, <1>6, <1>7, <1>8, <1>9 DEF InDB, Resting
  <1>11. Frame'
    BY <1>5, <1>6 DEF Frame
  <1>12. InCall'
    BY <1>2, <1>4, <1>5, <1>7, <1>10 DEF InCall
  <1> QED BY <1>4, <1>5, <1>11, <1>12 DEF Begun

\* A step begins a call or carries one on.
LEMMA Steps ==
    ASSUME OneCaller, Inv, StoresNext
    PROVE  \/ Resting /\ Begun /\ kind' = kind
           \/ InCall /\ StepOk
  <1>1. Clients = {Caller} /\ kind' = kind /\ Frame
    BY DEF OneCaller, StoresNext, Inv
  <1>2. ~(env.crashes < MaxCrashes)
    BY <1>1 DEF OneCaller, Frame
  <1>3. client[Caller].pc = "idle" => Resting
    BY <1>1, Busy DEF Inv, Frame
  <1>4. client[Caller].pc # "idle" => InCall
    BY DEF Inv, Resting, Idle
  <1>5. CASE kind = "local" /\ Next /\ UNCHANGED <<listed, messages, pending>>
    <2>1. CASE Request(Caller)
      <3>1. client[Caller].pc = "idle"
        BY <2>1 DEF Request, Begin
      <3> QED BY <1>1, <1>3, <1>5, <2>1, <3>1, LocalBegins
    <2>2. CASE Step(Caller) \/ Fault(Caller)
      <3>1. client[Caller].pc # "idle"
        BY <2>2 DEF Step, Fault, ReadList, Lock, OpenList, WriteList, Unlink, CreateFile, FillFile,
                    LoadFile
      <3> QED BY <1>1, <1>4, <1>5, <2>2, <3>1, LocalStep
    <2> QED BY <1>1, <1>2, <1>5, <2>1, <2>2 DEF Next, Crash
  <1>6. CASE kind = "s3" /\ S3Next /\ UNCHANGED <<linked, mutex, messages, pending>>
    <2>1. CASE S3Request(Caller)
      <3>1. client[Caller].pc = "idle"
        BY <2>1 DEF S3Request, Begin
      <3> QED BY <1>1, <1>3, <1>6, <2>1, <3>1, S3Begins
    <2>2. CASE GetList(Caller) \/ GetIncident(Caller) \/ PutObject(Caller) \/ S3Fault(Caller)
      <3>1. client[Caller].pc # "idle"
        BY <2>2 DEF GetList, GetIncident, PutObject, S3Fault, Effect
      <3> QED BY <1>1, <1>4, <1>6, <2>2, <3>1, S3Step
    <2> QED BY <1>1, <1>2, <1>6, <2>1, <2>2 DEF S3Next, S3Crash
  <1>7. CASE kind = "db" /\ DBNext /\ UNCHANGED <<linked, mutex, listed>>
    <2>1. CASE DBRequest(Caller)
      <3>1. client[Caller].pc = "idle"
        BY <2>1 DEF DBRequest, Begin
      <3> QED BY <1>1, <1>3, <1>7, <2>1, <3>1, DBBegins
    <2>2. CASE \E n \in DOMAIN Statements.updated : Execute(Caller, n) \/ DBFault(Caller, n)
      <3>1. client[Caller].op # None
        BY <2>2 DEF Execute, DBFault, Statement
      <3>2. InCall
        BY <3>1 DEF Inv, Resting, Idle
      <3> QED BY <1>1, <1>7, <2>2, <3>2, DBStep
    <2> QED BY <1>1, <1>7, <2>1, <2>2 DEF DBNext
  <1> QED BY <1>5, <1>6, <1>7 DEF StoresNext

\* A step that changes nothing keeps everything the invariant speaks of.
LEMMA Stutters ==
    ASSUME UNCHANGED storeVars
    PROVE  (Inv => Inv') /\ Kept' = Kept /\ UNCHANGED <<kind, client, reply, start, env>>
  <1>1. UNCHANGED <<files, lists, client, reply, env, start, listed, messages, pending, kind, linked>>
    BY DEF storeVars, vars
  <1>2. Decoded' = Decoded /\ S3Content' = S3Content /\ DBContent' = DBContent
    BY <1>1 DEF Decoded, S3Content, DBContent
  <1>3. Failed' = Failed /\ Kept' = Kept
    BY <1>1, <1>2 DEF Failed, Kept
  <1>4. InLocal => InLocal'
    BY <1>1, <1>2, <1>3 DEF InLocal, LocalAt
  <1>5. InS3 => InS3'
    BY <1>1, <1>2, <1>3 DEF InS3
  <1>6. InDB => InDB'
    BY <1>1, <1>2, <1>3 DEF InDB
  <1>7. kind \in Kinds /\ InCall => InCall'
    <2>1. CASE kind = "local"
      BY <1>1, <1>4, <2>1 DEF InCall
    <2>2. CASE kind = "s3"
      BY <1>1, <1>5, <2>2 DEF InCall
    <2>3. CASE kind = "db"
      BY <1>1, <1>6, <2>3 DEF InCall
    <2> QED BY <2>1, <2>2, <2>3 DEF Kinds
  <1>8. (Frame => kind \in Kinds /\ Frame') /\ (Resting => Resting')
    BY <1>1, <1>3 DEF Frame, Resting
  <1> QED BY <1>1, <1>3, <1>7, <1>8 DEF Inv

\* The empty stores.
LEMMA Starts ==
    ASSUME OneCaller, StoresInit
    PROVE  Inv /\ Resting /\ Kept = Empty /\ kind \in Kinds /\ reply[Caller] = "nil" /\ env.faults = 0
  <1>1. Caller \in Clients
    BY DEF OneCaller
  <1>2. /\ files = Empty.file /\ lists["persistents"] = Empty.pers
        /\ lists["subscribers"] = Empty.subs /\ DOMAIN lists = Lists
        /\ messages = {} /\ listed = FALSE
    BY DEF StoresInit, S3Init, DBInit, CallInit, Lists
  <1>3. Empty \in Content
    BY DEF Empty, Content, Shelf
  <1>4. Empty = [file |-> files, pers |-> lists["persistents"], msgs |-> messages,
                 subs |-> lists["subscribers"], subsFile |-> listed]
    BY <1>2 DEF Empty
  <1>5. Decoded = Empty
    BY <1>2, <1>4 DEF Decoded
  <1>6. S3Content = Empty
    <2>1. listed = Empty.subsFile
      BY <1>2 DEF Empty
    <2> QED BY <1>3, <1>5, <2>1 DEF S3Content, Content
  <1>7. DBContent = Empty
    BY <1>2, <1>3, <1>4, <1>5 DEF DBContent, Content
  <1>8. kind \in Kinds
    BY StoresAssumption DEF StoresInit
  <1>9. Kept = Empty
    BY <1>5, <1>6, <1>7, <1>8 DEF Kept, Kinds
  <1>10. Resting
    BY <1>1, <1>3, <1>9 DEF Resting, StoresInit, DBInit, CallInit
  <1>11. Frame
    BY <1>1, <1>2, <1>8 DEF Frame, StoresInit, DBInit, CallInit
  <1>12. reply[Caller] = "nil" /\ env.faults = 0
    BY <1>1 DEF StoresInit, DBInit, CallInit
  <1> QED BY <1>8, <1>9, <1>10, <1>11, <1>12 DEF Inv

\* Every step keeps the invariant.
LEMMA InvStep ==
    ASSUME OneCaller, Inv, [StoresNext]_storeVars
    PROVE  Inv'
  <1>1. CASE StoresNext
    BY <1>1, Steps DEF Begun, StepOk, Inv
  <1>2. CASE UNCHANGED storeVars
    BY <1>2, Stutters
  <1> QED BY <1>1, <1>2

-----------------------------------------------------------------------------
(* The refinement *)

\* The copy of Backends that AtomicStore extends says what Backends says.
LEMMA SameOps == Atomic!StoreOp = StoreOp /\ Atomic!Kinds = Kinds /\ Atomic!Empty = Empty
  BY DEF Atomic!StoreOp, Atomic!Op, Atomic!ReadOp, Atomic!IncidentOp, Atomic!DeleteOp,
         Atomic!EmailOp, Atomic!Incident, StoreOp, Op, ReadOp, IncidentOp, DeleteOp, EmailOp,
         Incident, Atomic!Kinds, Kinds, Atomic!Empty, Empty

\* The abstract store has the same outcomes,
LEMMA SameOutcome ==
    ASSUME NEW op, NEW c
    PROVE  Atomic!Outcome(kind, op, c) = Outcome(kind, op, c)
  BY DEF Atomic!Outcome, Atomic!Apply, Atomic!LocalCall, Atomic!S3Call, Atomic!DBCall,
         Atomic!LocalCreate, Atomic!LocalUpdate, Atomic!LocalDelete, Atomic!LocalSubscribe,
         Atomic!LocalUnsubscribe, Atomic!S3Create, Atomic!S3Update, Atomic!S3Delete,
         Atomic!S3Subscribe, Atomic!S3Unsubscribe, Atomic!DBCreate, Atomic!DBUpdate,
         Atomic!DBDelete, Atomic!DBSubscribe, Atomic!DBUnsubscribe, Atomic!DropPers, Atomic!Erase,
         Atomic!Put, Atomic!Replace, Atomic!AddMsg, Atomic!DropMsg, Atomic!AddSub, Atomic!DropSub,
         Atomic!Readable, Atomic!Done, Atomic!Fail, Atomic!Missing,
         Outcome, Apply, LocalCall, S3Call, DBCall, LocalCreate, LocalUpdate, LocalDelete,
         LocalSubscribe, LocalUnsubscribe, S3Create, S3Update, S3Delete, S3Subscribe,
         S3Unsubscribe, DBCreate, DBUpdate, DBDelete, DBSubscribe, DBUnsubscribe, DropPers, Erase,
         Put, Replace, AddMsg, DropMsg, AddSub, DropSub, Readable, Done, Fail, Missing

\* and the same faults.
LEMMA SameDisturbed ==
    ASSUME NEW op, NEW c
    PROVE  Atomic!Disturbed(kind, op, c) = Disturbed(kind, op, c)
  BY DEF Atomic!Disturbed, Atomic!Faulty, Atomic!Stages, Atomic!LocalStages, Atomic!S3Stages,
         Atomic!DBStages, Atomic!UpdateStages, Atomic!Swallowed, Atomic!DBRowSet, Atomic!S3Call,
         Atomic!DBCall, Atomic!S3Create, Atomic!S3Update, Atomic!S3Delete, Atomic!S3Subscribe,
         Atomic!S3Unsubscribe, Atomic!DBCreate, Atomic!DBUpdate, Atomic!DBDelete,
         Atomic!DBSubscribe, Atomic!DBUnsubscribe, Atomic!DropPers, Atomic!Erase, Atomic!Put,
         Atomic!Replace, Atomic!AddMsg, Atomic!DropMsg, Atomic!AddSub, Atomic!DropSub,
         Atomic!Readable, Atomic!Done, Atomic!Fail,
         Disturbed, Faulty, Stages, LocalStages, S3Stages, DBStages, UpdateStages, Swallowed,
         DBRowSet, S3Call, DBCall, S3Create, S3Update, S3Delete, S3Subscribe, S3Unsubscribe,
         DBCreate, DBUpdate, DBDelete, DBSubscribe, DBUnsubscribe, DropPers, Erase, Put, Replace,
         AddMsg, DropMsg, AddSub, DropSub, Readable, Done, Fail

\* The initial states map to the initial state.
LEMMA RefinesInit ==
    ASSUME OneCaller, StoresInit
    PROVE  Atomic!AInit
  <1>1. client[Caller] = Idle
    BY Starts DEF Resting
  <1>2. AtRest /\ client[Caller].op = None
    BY <1>1 DEF AtRest, Idle
  <1> QED BY <1>2, Starts, SameOps DEF Atomic!AInit

\* Every step maps to a call, to an answer or to a stutter.
LEMMA RefinesStep ==
    ASSUME OneCaller, Inv, [StoresNext]_storeVars
    PROVE  [Atomic!ANext]_(Atomic!avars)
  <1> DEFINE content == IF AtRest THEN Kept ELSE start[Caller].content
             faults == IF AtRest THEN env.faults ELSE start[Caller].faults
             busy == client[Caller].op
  <1>1. CASE UNCHANGED storeVars
    BY <1>1, Stutters DEF Atomic!avars, AtRest
  <1>2. CASE StoresNext /\ Resting /\ Begun /\ kind' = kind
    <2>1. AtRest /\ busy = None
      BY <1>2 DEF Resting, AtRest, Idle
    <2>2. ~AtRest' /\ busy' \in StoreOp
      <3>1. InCall' /\ kind' \in Kinds
        BY <1>2 DEF Begun, Frame
      <3> QED BY <3>1, BusyNext DEF AtRest, InCall
    <2>3. content' = content /\ faults' = faults
      BY <1>2, <2>1, <2>2 DEF Begun
    <2>4. reply'[Caller] = reply[Caller]
      BY <1>2 DEF Begun
    <2>5. Atomic!Invoke(busy')
      BY <1>2, <2>1, <2>3, <2>4 DEF Atomic!Invoke
    <2> QED BY <2>2, <2>5, SameOps DEF Atomic!ANext
  <1>3. CASE StoresNext /\ InCall /\ StepOk
    <2>1. kind \in Kinds /\ ~AtRest /\ busy # None /\ kind' = kind
      BY <1>3, Busy DEF Inv, Frame, AtRest, StepOk
    <2>2. CASE InCall' /\ client'[Caller].op = client[Caller].op /\ reply' = reply
      <3>1. ~AtRest'
        BY <1>3, <2>2, BusyNext DEF StepOk, Frame, AtRest
      <3>2. content' = content /\ faults' = faults
        BY <1>3, <2>1, <3>1 DEF StepOk
      <3> QED BY <2>1, <2>2, <3>2 DEF Atomic!avars
    <2>3. CASE /\ Resting'
               /\ Allowed(busy, start[Caller].content, Failed', Fail(Kept', reply'[Caller]))
      <3>1. AtRest' /\ busy' = None
        BY <2>3 DEF Resting, AtRest, Idle
      <3>2. content = start[Caller].content /\ faults = start[Caller].faults
        BY <2>1
      <3>3. content' = Kept' /\ faults' = env'.faults
        BY <3>1
      <3>4. faults' >= faults /\ (Failed' => faults' > faults)
        BY <1>3, <3>2, <3>3 DEF StepOk, Frame, Failed
      <3> DEFINE res == Fail(Kept', reply'[Caller])
      <3>5. res.content = Kept' /\ res.err = reply'[Caller]
        BY DEF Fail
      <3> HIDE DEF res, content, faults, busy
      <3>6. CASE res = Outcome(kind, busy, start[Caller].content)
        BY <2>1, <3>1, <3>2, <3>3, <3>4, <3>5, <3>6, SameOutcome
           DEF Atomic!ANext, Atomic!Perform, Atomic!Answer, content, faults, busy
      <3>7. CASE Failed' /\ res \in Disturbed(kind, busy, start[Caller].content)
        BY <2>1, <3>1, <3>2, <3>3, <3>4, <3>5, <3>7, SameDisturbed
           DEF Atomic!ANext, Atomic!Perform, Atomic!Answer, content, faults, busy
      <3> QED BY <2>3, <3>6, <3>7 DEF Allowed, res, busy
    <2> QED BY <1>3, <2>2, <2>3 DEF StepOk
  <1> QED BY <1>1, <1>2, <1>3, Steps

\* With one caller and no restart, a store of any kind implements AtomicStore:
\* each call has the result Backends allows it, whatever fails underneath.
THEOREM StoresImplementBackends == ASSUME OneCaller PROVE StoresSpec => ImplementsBackends
  <1>1. StoresInit => Inv /\ Atomic!AInit
    BY Starts, RefinesInit
  <1>2. Inv /\ [StoresNext]_storeVars => Inv' /\ [Atomic!ANext]_(Atomic!avars)
    BY InvStep, RefinesStep
  <1> QED BY <1>1, <1>2, PTL DEF StoresSpec, ImplementsBackends, Atomic!ASpec
=============================================================================
