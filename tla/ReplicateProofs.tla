-------------------------- MODULE ReplicateProofs --------------------------
(***************************************************************************)
(* Theorems about Replicate, for every set of stores, writers, guids,       *)
(* emails and versions, every assignment of backends and every bound.       *)
(***************************************************************************)
EXTENDS Replicate, BackendsProofs

\* What an attempt can end with: the backend's content, an error, and a count
\* of faults within the bound.
LEMMA AttemptsType ==
    ASSUME TypeOK, NEW s \in Stores, NEW op \in Op, NEW a \in Attempts(s, op)
    PROVE  a.res \in Result /\ a.faults \in 0..MaxFaults
  <1>1. Kind[s] \in Kinds /\ content[s] \in Content
    BY ReplicateAssumption DEF TypeOK
  <1>2. env.faults \in 0..MaxFaults /\ MaxFaults \in Nat
    BY ReplicateAssumption DEF TypeOK, Env
  <1>3. Apply(Kind[s], op, content[s]) \in Result
    BY <1>1, ApplyType
  <1>4. Faulty(Kind[s], op, content[s]) \subseteq Result
    BY <1>1, FaultyType
  <1> QED BY <1>2, <1>3, <1>4 DEF Attempts

-----------------------------------------------------------------------------
(* Type correctness *)

\* Flagging a record as replayed keeps it a record.
LEMMA FlagType ==
    ASSUME NEW h \in Record
    PROVE  [h EXCEPT !.deleted = TRUE, !.plays = h.plays + 1] \in Record
  <1>1. ASSUME NEW n \in Nat
        PROVE  [h EXCEPT !.deleted = TRUE, !.plays = n] \in Record
    BY DEF Record
  <1>2. h.plays + 1 \in Nat
    BY DEF Record
  <1> QED BY <1>1, <1>2

\* The steps of a call lead from a well-formed call to a well-formed call.
LEMMA IdleType == WellFormed(Idle, 0)
  BY ReplicateAssumption DEF WellFormed, Idle, Call

LEMMA BeginType ==
    ASSUME NEW op \in Op, NEW n \in Nat
    PROVE  WellFormed([Idle EXCEPT !.pc = "loop", !.op = op, !.left = Stores], n)
  <1>1. [Idle EXCEPT !.pc = "loop", !.op = op, !.left = Stores] \in Call
    BY DEF Idle, Call
  <1> QED BY <1>1, ReplicateAssumption DEF WellFormed, Idle

LEMMA VisitType ==
    ASSUME NEW n \in Nat, NEW c, WellFormed(c, n), c.pc = "loop", NEW s \in c.left
    PROVE  WellFormed([c EXCEPT !.pc = "call", !.cur = s, !.tries = 0,
                                !.left = c.left \ {s}], n)
  <1>1. c \in Call /\ s \in Stores
    BY DEF WellFormed, Call
  <1>2. ASSUME NEW L \in SUBSET Stores
        PROVE  [c EXCEPT !.pc = "call", !.cur = s, !.tries = 0, !.left = L] \in Call
    BY <1>1 DEF Call
  <1>3. c.left \ {s} \in SUBSET Stores
    BY <1>1 DEF Call
  <1>4. [c EXCEPT !.pc = "call", !.cur = s, !.tries = 0, !.left = c.left \ {s}] \in Call
    BY <1>2, <1>3
  <1> QED BY <1>1, <1>4, ReplicateAssumption DEF WellFormed, Call

LEMMA AfterAttemptType ==
    ASSUME NEW n \in Nat, NEW c, WellFormed(c, n), c.pc = "call", NEW err
    PROVE  WellFormed(AfterAttempt(c, err), n)
  <1>1. CASE err = "nil"
    <2>1. [c EXCEPT !.pc = "loop", !.cur = None, !.tries = 0, !.allInError = FALSE] \in Call
      BY DEF WellFormed, Call
    <2> QED BY <1>1, <2>1, ReplicateAssumption DEF AfterAttempt, WellFormed, Call
  <1>2. CASE err # "nil" /\ GivesUp(err, c.tries)
    <2>1. [c EXCEPT !.pc = "add", !.tries = 0] \in Call
      BY DEF WellFormed, Call
    <2> QED BY <1>2, <2>1, ReplicateAssumption DEF AfterAttempt, WellFormed, Call
  <1>3. CASE err # "nil" /\ ~GivesUp(err, c.tries)
    <2>1. c.tries \in Nat /\ c.tries + 1 < NbRetry
      BY <1>3, ReplicateAssumption DEF GivesUp, WellFormed, Call
    <2> QED BY <1>3, <2>1 DEF AfterAttempt, WellFormed, Call
  <1> QED BY <1>1, <1>2, <1>3

LEMMA AddRecordType ==
    ASSUME NEW n \in Nat, NEW c, WellFormed(c, n), c.pc = "add",
           NEW S \in SUBSET (1..n)
    PROVE  WellFormed([c EXCEPT !.pc = "publish", !.snap = S \cup {n + 1}], n + 1)
  <1>1. c \in Call
    BY DEF WellFormed
  <1>2. ASSUME NEW T \in SUBSET (Nat \ {0})
        PROVE  [c EXCEPT !.pc = "publish", !.snap = T] \in Call
    BY <1>1 DEF Call
  <1>3. S \cup {n + 1} \in SUBSET (1..(n + 1)) /\ S \cup {n + 1} \in SUBSET (Nat \ {0})
    OBVIOUS
  <1>4. [c EXCEPT !.pc = "publish", !.snap = S \cup {n + 1}] \in Call
    BY <1>2, <1>3
  <1> QED BY <1>1, <1>3, <1>4 DEF WellFormed, Call

LEMMA PublishType ==
    ASSUME NEW n \in Nat, NEW c, WellFormed(c, n), c.pc = "publish"
    PROVE  WellFormed([c EXCEPT !.pc = "loop", !.cur = None, !.snap = {}], n)
  <1>1. [c EXCEPT !.pc = "loop", !.cur = None, !.snap = {}] \in Call
    BY DEF WellFormed, Call
  <1> QED BY <1>1 DEF WellFormed, Call

\* Allocating more records does not disturb a call in progress.
LEMMA WellFormedMonotone ==
    ASSUME NEW n \in Nat, NEW m \in Nat, n <= m, NEW c, WellFormed(c, n)
    PROVE  WellFormed(c, m)
  BY DEF WellFormed

\* Replacing one writer's call by a well-formed one.
LEMMA CallStep ==
    ASSUME TypeOK, NEW w \in Writers, NEW c, NEW m \in Nat, Len(heap) <= m,
           WellFormed(c, m), call' = [call EXCEPT ![w] = c]
    PROVE  /\ call' \in [Writers -> Call]
           /\ \A x \in Writers : WellFormed(call'[x], m)
  <1>1. call \in [Writers -> Call] /\ Len(heap) \in Nat
    BY DEF TypeOK
  <1>2. c \in Call
    BY DEF WellFormed
  <1>3. ASSUME NEW x \in Writers PROVE WellFormed(call'[x], m)
    <2>1. CASE x = w
      BY <1>1, <2>1
    <2>2. CASE x # w
      <3>1. WellFormed(call[x], m)
        BY <1>1, WellFormedMonotone DEF TypeOK
      <3> QED BY <1>1, <2>2, <3>1
    <2> QED BY <2>1, <2>2
  <1> QED BY <1>1, <1>2, <1>3

\* Each count of the environment moves within its bound.
LEMMA EnvType ==
    ASSUME NEW e \in Env
    PROVE  /\ \A n \in 0..MaxFaults : [e EXCEPT !.faults = n] \in Env
           /\ e.ops < MaxOps => [e EXCEPT !.ops = e.ops + 1] \in Env
           /\ e.crashes < MaxCrashes => [e EXCEPT !.crashes = e.crashes + 1] \in Env
  <1>1. ASSUME NEW n \in 0..MaxFaults PROVE [e EXCEPT !.faults = n] \in Env
    BY DEF Env
  <1>2. ASSUME e.ops < MaxOps PROVE [e EXCEPT !.ops = e.ops + 1] \in Env
    <2>1. e.ops + 1 \in 0..MaxOps
      BY <1>2, ReplicateAssumption DEF Env
    <2> QED BY <2>1 DEF Env
  <1>3. ASSUME e.crashes < MaxCrashes PROVE [e EXCEPT !.crashes = e.crashes + 1] \in Env
    <2>1. e.crashes + 1 \in 0..MaxCrashes
      BY <1>3, ReplicateAssumption DEF Env
    <2> QED BY <2>1 DEF Env
  <1> QED BY <1>1, <1>2, <1>3

LEMMA TypeInit == Init => TypeOK
  <1> SUFFICES ASSUME Init PROVE TypeOK
    OBVIOUS
  <1>1. Empty \in Content
    BY DEF Empty, Content, Shelf
  <1>2. call \in [Writers -> Call] /\ \A w \in Writers : WellFormed(call[w], 0)
    BY IdleType DEF Init, WellFormed
  <1>3. env \in Env
    BY ReplicateAssumption DEF Init, Env
  <1>4. heap \in Seq(Record) /\ Len(heap) = 0
    BY DEF Init
  <1>5. overlap \in BOOLEAN
    BY DEF Init
  <1> QED BY <1>1, <1>2, <1>3, <1>4, <1>5, ReplicateAssumption DEF Init, TypeOK

LEMMA TypeStep == TypeOK /\ [Next]_vars => TypeOK'
  <1> SUFFICES ASSUME TypeOK, [Next]_vars PROVE TypeOK'
    OBVIOUS
  <1>a. /\ Len(heap) \in Nat /\ Len(heap) <= Len(heap)
        /\ Len(heap) + 1 \in Nat /\ Len(heap) <= Len(heap) + 1
    BY DEF TypeOK
  <1>b. ASSUME NEW w \in Writers PROVE WellFormed(call[w], Len(heap))
    BY DEF TypeOK
  <1>1. ASSUME NEW w \in Writers, NEW op \in Op, Begin(w, op),
               used' \subseteq Guids, doomed' \subseteq Guids
        PROVE  TypeOK'
    <2>0. env \in Env /\ env.ops < MaxOps /\ env' = [env EXCEPT !.ops = env.ops + 1]
      BY <1>1 DEF Begin, TypeOK
    <2>1. env' \in Env
      BY <2>0, EnvType
    <2>2. /\ call' \in [Writers -> Call]
          /\ \A x \in Writers : WellFormed(call'[x], Len(heap))
      BY <1>1, <1>a, BeginType, CallStep DEF Begin
    <2> QED BY <1>1, <2>1, <2>2 DEF Begin, TypeOK
  <1>2. ASSUME NEW w \in Writers, Create(w) PROVE TypeOK'
    <2>1. PICK g \in Guids \ used, v \in Versions, p \in Persistence :
            /\ Begin(w, [act |-> "created", inc |-> [guid |-> g, ver |-> v, persistent |-> p]])
            /\ used' = used \cup {g}
            /\ UNCHANGED doomed
      BY <1>2 DEF Create
    <2>2. p \in BOOLEAN
      BY ReplicateAssumption
    <2>3. [act |-> "created", inc |-> [guid |-> g, ver |-> v, persistent |-> p]] \in Op
      BY <2>2 DEF Op, IncidentOp, Incident
    <2> QED BY <2>1, <2>3, <1>1 DEF TypeOK
  <1>3. ASSUME NEW w \in Writers, Update(w) PROVE TypeOK'
    <2>1. PICK g \in Guids, v \in Versions, p \in Persistence :
            /\ Begin(w, [act |-> "updated", inc |-> [guid |-> g, ver |-> v, persistent |-> p]])
            /\ UNCHANGED <<used, doomed>>
      BY <1>3 DEF Update
    <2>2. p \in BOOLEAN
      BY ReplicateAssumption
    <2>3. [act |-> "updated", inc |-> [guid |-> g, ver |-> v, persistent |-> p]] \in Op
      BY <2>2 DEF Op, IncidentOp, Incident
    <2> QED BY <2>1, <2>3, <1>1 DEF TypeOK
  <1>4. ASSUME NEW w \in Writers, Delete(w) PROVE TypeOK'
    <2>1. PICK g \in Guids : /\ Begin(w, [act |-> "deleted", guid |-> g])
                             /\ doomed' = doomed \cup {g}
                             /\ UNCHANGED used
      BY <1>4 DEF Delete
    <2>2. [act |-> "deleted", guid |-> g] \in Op
      BY DEF Op, DeleteOp
    <2> QED BY <2>1, <2>2, <1>1 DEF TypeOK
  <1>5. ASSUME NEW w \in Writers, Subscribe(w) \/ Unsubscribe(w) PROVE TypeOK'
    <2>1. PICK e \in Emails, x \in {"subscribe", "unsubscribe"} :
            Begin(w, [act |-> x, email |-> e]) /\ UNCHANGED <<used, doomed>>
      BY <1>5 DEF Subscribe, Unsubscribe
    <2>2. [act |-> x, email |-> e] \in Op
      BY DEF Op, EmailOp
    <2> QED BY <2>1, <2>2, <1>1 DEF TypeOK
  <1>6. ASSUME NEW w \in Writers, Visit(w) PROVE TypeOK'
    <2>1. PICK s \in call[w].left :
            call' = [call EXCEPT ![w] = [call[w] EXCEPT !.pc = "call", !.cur = s, !.tries = 0,
                                                        !.left = call[w].left \ {s}]]
      BY <1>6 DEF Visit
    <2>2. call[w].pc = "loop"
      BY <1>6 DEF Visit
    <2>3. /\ call' \in [Writers -> Call]
          /\ \A x \in Writers : WellFormed(call'[x], Len(heap))
      BY <1>a, <1>b, <2>1, <2>2, VisitType, CallStep
    <2> QED BY <1>6, <2>3 DEF Visit, TypeOK
  <1>7. ASSUME NEW w \in Writers, CallStore(w) PROVE TypeOK'
    <2>1. /\ call[w].pc = "call"
          /\ call[w].cur \in Stores /\ call[w].op \in Op
      BY <1>7, <1>b DEF CallStore, WellFormed
    <2>2. PICK a \in Attempts(call[w].cur, call[w].op) :
            /\ content' = [content EXCEPT ![call[w].cur] = a.res.content]
            /\ env' = [env EXCEPT !.faults = a.faults]
            /\ call' = [call EXCEPT ![w] = AfterAttempt(call[w], a.res.err)]
      BY <1>7 DEF CallStore
    <2>3. a.res.content \in Content /\ a.faults \in 0..MaxFaults
      BY <2>1, AttemptsType DEF Result
    <2>4. content' \in [Stores -> Content]
      BY <2>2, <2>3 DEF TypeOK
    <2>5. env' \in Env
      BY <2>2, <2>3 DEF TypeOK, Env
    <2>6. /\ call' \in [Writers -> Call]
          /\ \A x \in Writers : WellFormed(call'[x], Len(heap))
      BY <1>a, <1>b, <2>1, <2>2, AfterAttemptType, CallStep
    <2> QED BY <1>7, <2>4, <2>5, <2>6 DEF CallStore, TypeOK
  <1>8. ASSUME NEW w \in Writers, AddRecord(w) PROVE TypeOK'
    <2>1. call[w].pc = "add" /\ call[w].cur \in Stores /\ call[w].op \in Op
      BY <1>8, <1>b DEF AddRecord, WellFormed
    <2>2. [store |-> call[w].cur, op |-> call[w].op, deleted |-> FALSE, plays |-> 0] \in Record
      BY <2>1 DEF Record
    <2>3. heap' \in Seq(Record) /\ Len(heap') = Len(heap) + 1
      BY <1>8, <2>2 DEF AddRecord, TypeOK
    <2>4. records \in SUBSET (1..Len(heap)) /\ todo \in SUBSET (1..Len(heap))
      BY DEF TypeOK
    <2>5. WellFormed([call[w] EXCEPT !.pc = "publish", !.snap = records \cup {Len(heap) + 1}],
                     Len(heap) + 1)
      BY <1>a, <1>b, <2>1, <2>4, AddRecordType
    <2>6. /\ call' \in [Writers -> Call]
          /\ \A x \in Writers : WellFormed(call'[x], Len(heap) + 1)
      BY <1>8, <1>a, <2>5, CallStep DEF AddRecord
    <2>7. records' \subseteq 1..(Len(heap) + 1) /\ todo' \subseteq 1..(Len(heap) + 1)
      BY <1>8, <1>a, <2>4 DEF AddRecord
    <2>8. overlap' \in BOOLEAN
      BY <1>8 DEF AddRecord
    <2> QED BY <1>8, <2>3, <2>6, <2>7, <2>8 DEF AddRecord, TypeOK
  <1>9. ASSUME NEW w \in Writers, Publish(w) PROVE TypeOK'
    <2>1. call[w].pc = "publish" /\ call[w].snap \subseteq 1..Len(heap)
      BY <1>9, <1>b DEF Publish, WellFormed
    <2>2. /\ call' \in [Writers -> Call]
          /\ \A x \in Writers : WellFormed(call'[x], Len(heap))
      BY <1>9, <1>a, <1>b, <2>1, PublishType, CallStep DEF Publish
    <2> QED BY <1>9, <2>1, <2>2 DEF Publish, TypeOK
  <1>10. ASSUME NEW w \in Writers, Return(w) PROVE TypeOK'
    <2>1. call[w].op \in Op
      BY <1>10, <1>b DEF Return, WellFormed
    <2>2. acked' \subseteq Guids
      BY <1>10, <2>1, OpFields DEF Return, TypeOK, Incident
    <2>3. WellFormed(Idle, Len(heap))
      BY <1>a, IdleType, WellFormedMonotone
    <2>4. /\ call' \in [Writers -> Call]
          /\ \A x \in Writers : WellFormed(call'[x], Len(heap))
      BY <1>10, <1>a, <2>3, CallStep DEF Return
    <2> QED BY <1>10, <2>2, <2>4 DEF Return, TypeOK
  <1>11. ASSUME StartReplay PROVE TypeOK'
    BY <1>11 DEF StartReplay, Pending, TypeOK
  <1>12. ASSUME ReplayStep PROVE TypeOK'
    <2>1. PICK r \in todo : \E a \in Attempts(heap[r].store, heap[r].op) : Played(r, a)
      BY <1>12 DEF ReplayStep
    <2>0. PICK a \in Attempts(heap[r].store, heap[r].op) : Played(r, a)
      BY <2>1
    <2>2. r \in 1..Len(heap) /\ heap[r] \in Record
      BY DEF TypeOK
    <2>3. heap[r].store \in Stores /\ heap[r].op \in Op
      BY <2>2 DEF Record
    <2>4. a.res.content \in Content /\ a.faults \in 0..MaxFaults
      BY <2>3, AttemptsType DEF Result
    <2>5. content' \in [Stores -> Content]
      BY <2>0, <2>3, <2>4 DEF Played, TypeOK
    <2>6. env' \in Env
      BY <2>0, <2>4 DEF Played, TypeOK, Env
    <2>7. heap' \in Seq(Record) /\ Len(heap') = Len(heap)
      <3> DEFINE h == [heap[r] EXCEPT !.deleted = TRUE, !.plays = heap[r].plays + 1]
      <3>1. h \in Record
        BY <2>2, FlagType
      <3>2. heap' = heap \/ heap' = [heap EXCEPT ![r] = h]
        BY <2>0 DEF Played
      <3> HIDE DEF h
      <3> QED BY <2>2, <3>1, <3>2 DEF TypeOK
    <2>8. todo' \subseteq 1..Len(heap)
      BY <2>0 DEF Played, TypeOK
    <2>9. tries' \in 0..(NbRetry - 1)
      BY <2>0, ReplicateAssumption DEF Played, TypeOK, GivesUp
    <2> QED BY <1>12, <2>5, <2>6, <2>7, <2>8, <2>9 DEF ReplayStep, TypeOK
  <1>13. ASSUME Clean PROVE TypeOK'
    BY <1>13 DEF Clean, Pending, TypeOK
  <1>14. ASSUME Crash PROVE TypeOK'
    <2>0. /\ env \in Env /\ env.crashes < MaxCrashes
          /\ env' = [env EXCEPT !.crashes = env.crashes + 1]
      BY <1>14 DEF Crash, TypeOK
    <2>1. env' \in Env
      BY <2>0, EnvType
    <2>2. heap' \in Seq(Record) /\ Len(heap') = 0
      BY <1>14 DEF Crash
    <2>3. call' \in [Writers -> Call] /\ \A x \in Writers : WellFormed(call'[x], 0)
      BY <1>14, IdleType DEF Crash, WellFormed
    <2>4. overlap' \in BOOLEAN
      BY <1>14 DEF Crash
    <2> QED BY <1>14, <2>1, <2>2, <2>3, <2>4, ReplicateAssumption DEF Crash, TypeOK
  <1>15. ASSUME UNCHANGED vars PROVE TypeOK'
    BY <1>15 DEF vars, TypeOK
  <1> QED BY <1>2, <1>3, <1>4, <1>5, <1>6, <1>7, <1>8, <1>9, <1>10, <1>11, <1>12,
             <1>13, <1>14, <1>15
          DEF Next, Request, Handle, Replay

\* TypeOK holds in every behaviour, whatever fails and whoever calls.
THEOREM TypeCorrect == Spec => []TypeOK
  BY TypeInit, TypeStep, PTL DEF Spec

-----------------------------------------------------------------------------
(* Each record succeeds at most once *)

LEMMA ReplayedOnceStep == TypeOK /\ ReplayedOnce /\ [Next]_vars => ReplayedOnce'
  <1> SUFFICES ASSUME TypeOK, ReplayedOnce, [Next]_vars PROVE ReplayedOnce'
    OBVIOUS
  <1>a. heap \in Seq(Record) /\ todo \subseteq 1..Len(heap) /\ records \subseteq 1..Len(heap)
    BY DEF TypeOK
  <1>1. ASSUME NEW w \in Writers, AddRecord(w) PROVE ReplayedOnce'
    <2>1. PICK h : h.deleted = FALSE /\ h.plays = 0 /\ heap' = Append(heap, h)
      BY <1>1 DEF AddRecord
    <2>2. todo' = todo
      BY <1>1 DEF AddRecord
    <2>3. /\ Len(heap') = Len(heap) + 1
          /\ heap'[Len(heap) + 1] = h
          /\ \A r \in 1..Len(heap) : heap'[r] = heap[r]
      BY <2>1, <1>a
    <2> QED BY <1>a, <2>1, <2>2, <2>3 DEF ReplayedOnce
  <1>2. ASSUME StartReplay PROVE ReplayedOnce'
    BY <1>2, <1>a DEF StartReplay, Pending, ReplayedOnce
  <1>3. ASSUME ReplayStep PROVE ReplayedOnce'
    <2>1. PICK r \in todo : \E a \in Attempts(heap[r].store, heap[r].op) : Played(r, a)
      BY <1>3 DEF ReplayStep
    <2>2. PICK a \in Attempts(heap[r].store, heap[r].op) : Played(r, a)
      BY <2>1
    <2>3. r \in 1..Len(heap) /\ heap[r] \in Record /\ todo' \subseteq todo
      BY <1>a, <2>2 DEF Played
    <2>4. CASE a.res.err = "nil"
      <3> DEFINE h == [heap[r] EXCEPT !.deleted = TRUE, !.plays = heap[r].plays + 1]
      <3>1. heap[r].plays = 0
        BY <2>3 DEF ReplayedOnce
      <3>2. h.deleted = TRUE /\ h.plays = 1
        BY <2>3, <3>1 DEF Record
      <3>3. heap' = [heap EXCEPT ![r] = h] /\ todo' = todo \ {r}
        BY <2>2, <2>4 DEF Played
      <3> HIDE DEF h
      <3>4. /\ Len(heap') = Len(heap)
            /\ heap'[r] = h
            /\ \A q \in 1..Len(heap) : q # r => heap'[q] = heap[q]
        BY <1>a, <2>3, <3>3
      <3> QED BY <1>a, <3>2, <3>3, <3>4 DEF ReplayedOnce
    <2>5. CASE a.res.err # "nil"
      BY <2>2, <2>3, <2>5 DEF Played, ReplayedOnce
    <2> QED BY <2>4, <2>5
  <1>4. ASSUME Crash PROVE ReplayedOnce'
    BY <1>4 DEF Crash, ReplayedOnce
  <1>5. ASSUME UNCHANGED <<heap, todo>> PROVE ReplayedOnce'
    BY <1>5 DEF ReplayedOnce
  <1>6. \A w \in Writers : Request(w) => UNCHANGED <<heap, todo>>
    <2>1. \A w \in Writers : Request(w) => \E op : Begin(w, op)
      BY DEF Request, Create, Update, Delete, Subscribe, Unsubscribe
    <2> QED BY <2>1 DEF Begin
  <1>7. \A w \in Writers :
          Visit(w) \/ CallStore(w) \/ Publish(w) \/ Return(w) => UNCHANGED <<heap, todo>>
    BY DEF Visit, CallStore, Publish, Return
  <1>8. Clean \/ UNCHANGED vars => UNCHANGED <<heap, todo>>
    BY DEF Clean, vars
  <1> QED BY <1>1, <1>2, <1>3, <1>4, <1>5, <1>6, <1>7, <1>8 DEF Next, Handle, Replay

\* However many handlers record failed writes at the same time, and whatever
\* stale slice they publish, no record is replayed after it has succeeded.
THEOREM ReplayedOnceHolds == Spec => []ReplayedOnce
  <1>1. Init => ReplayedOnce
    BY DEF Init, ReplayedOnce
  <1> QED BY <1>1, ReplayedOnceStep, TypeCorrect, PTL DEF Spec

-----------------------------------------------------------------------------
(* Records are lost by overlapping addRecords only *)

\* The slice S has every record that is still to be replayed.
Complete(S) == \A r \in 1..Len(heap) : heap[r].deleted \/ r \in S

Publishing(w) == call[w].pc = "publish"

\* Until addRecords overlap, at most one handler is inside.  Nobody inside: the
\* published slice is complete.  Someone inside: the slice that is about to be
\* published is.
LossInv ==
    ~overlap => /\ \A v, w \in Writers : Publishing(v) /\ Publishing(w) => v = w
                /\ (\A w \in Writers : ~Publishing(w)) => Complete(records)
                /\ \A w \in Writers : Publishing(w) => Complete(call[w].snap)

\* A step that neither allocates a record nor changes the published slice, the
\* local slices and who is publishing keeps LossInv.
LEMMA LossInvFrame ==
    ASSUME LossInv, Len(heap') = Len(heap), records' = records, overlap' = overlap,
           \A r \in 1..Len(heap) : heap[r].deleted => heap'[r].deleted,
           \A w \in Writers : /\ Publishing(w)' = Publishing(w)
                              /\ Publishing(w) => call'[w].snap = call[w].snap
    PROVE  LossInv'
  <1> SUFFICES ASSUME ~overlap
               PROVE  /\ \A v, w \in Writers : Publishing(v)' /\ Publishing(w)' => v = w
                      /\ (\A w \in Writers : ~Publishing(w)') => Complete(records)'
                      /\ \A w \in Writers : Publishing(w)' => Complete(call[w].snap)'
    BY DEF LossInv
  <1>1. \A v, w \in Writers : Publishing(v)' /\ Publishing(w)' => v = w
    BY DEF LossInv
  <1>2. (\A w \in Writers : ~Publishing(w)') => Complete(records)'
    BY DEF LossInv, Complete
  <1>3. \A w \in Writers : Publishing(w)' => Complete(call[w].snap)'
    BY DEF LossInv, Complete
  <1> QED BY <1>1, <1>2, <1>3

LEMMA LossInvStep == TypeOK /\ LossInv /\ [Next]_vars => LossInv'
  <1> SUFFICES ASSUME TypeOK, LossInv, [Next]_vars PROVE LossInv'
    OBVIOUS
  <1>a. /\ heap \in Seq(Record) /\ todo \subseteq 1..Len(heap) /\ records \subseteq 1..Len(heap)
        /\ call \in [Writers -> Call]
    BY DEF TypeOK
  <1>1. ASSUME NEW w \in Writers, Request(w) PROVE LossInv'
    <2>1. PICK op : Begin(w, op)
      BY <1>1 DEF Request, Create, Update, Delete, Subscribe, Unsubscribe
    <2>2. /\ heap' = heap /\ records' = records /\ overlap' = overlap
          /\ call' = [call EXCEPT ![w] = [Idle EXCEPT !.pc = "loop", !.op = op, !.left = Stores]]
          /\ call[w].pc = "idle"
      BY <2>1 DEF Begin
    <2>3. ~Publishing(w) /\ ~Publishing(w)'
      BY <1>a, <2>2 DEF Publishing, Idle
    <2>4. \A v \in Writers : v # w => call'[v] = call[v]
      BY <1>a, <2>2
    <2>5. \A v \in Writers : /\ Publishing(v)' = Publishing(v)
                             /\ Publishing(v) => call'[v].snap = call[v].snap
      BY <2>3, <2>4 DEF Publishing
    <2> QED BY <2>2, <2>5, LossInvFrame
  <1>2. ASSUME NEW w \in Writers, Visit(w) \/ CallStore(w) \/ Return(w) PROVE LossInv'
    <2>1. PICK c : call' = [call EXCEPT ![w] = c] /\ c.pc # "publish"
      <3>1. CASE Visit(w)
        <4>1. PICK s \in call[w].left :
                call' = [call EXCEPT ![w] = [call[w] EXCEPT !.pc = "call", !.cur = s, !.tries = 0,
                                                            !.left = call[w].left \ {s}]]
          BY <3>1 DEF Visit
        <4>2. [call[w] EXCEPT !.pc = "call", !.cur = s, !.tries = 0,
                              !.left = call[w].left \ {s}].pc = "call"
          BY <1>a DEF Call
        <4> QED BY <4>1, <4>2
      <3>2. CASE CallStore(w)
        <4>1. PICK a \in Attempts(call[w].cur, call[w].op) :
                call' = [call EXCEPT ![w] = AfterAttempt(call[w], a.res.err)]
          BY <3>2 DEF CallStore
        <4>2. call[w] \in Call /\ call[w].pc = "call"
          BY <3>2, <1>a DEF CallStore
        <4>3. AfterAttempt(call[w], a.res.err).pc # "publish"
          BY <4>2 DEF AfterAttempt, Call
        <4> QED BY <4>1, <4>3
      <3>3. CASE Return(w)
        <4>1. call' = [call EXCEPT ![w] = Idle]
          BY <3>3 DEF Return
        <4>2. Idle.pc # "publish"
          BY DEF Idle
        <4> QED BY <4>1, <4>2
      <3> QED BY <1>2, <3>1, <3>2, <3>3
    <2>2. /\ heap' = heap /\ records' = records /\ overlap' = overlap
          /\ call[w].pc # "publish"
      BY <1>2 DEF Visit, CallStore, Return
    <2> QED BY <1>a, <2>1, <2>2, LossInvFrame DEF Publishing
  <1>3. ASSUME NEW w \in Writers, AddRecord(w) PROVE LossInv'
    <2>1. PICK h : h.deleted = FALSE /\ heap' = Append(heap, h)
      BY <1>3 DEF AddRecord
    <2>2. /\ Len(heap') = Len(heap) + 1
          /\ \A r \in 1..Len(heap) : heap'[r] = heap[r]
      BY <2>1, <1>a
    <2>3. Publishing(w)' /\ call'[w].snap = records \cup {Len(heap) + 1}
      BY <1>3, <1>a DEF AddRecord, Publishing, Call
    <2> SUFFICES ASSUME ~overlap' PROVE LossInv'
      BY DEF LossInv
    <2>5. ~overlap /\ \A v \in Writers : ~Publishing(v)
      BY <1>3 DEF AddRecord, Publishing
    <2>4. \A v \in Writers : Publishing(v)' => v = w
      BY <1>3, <1>a, <2>5 DEF AddRecord, Publishing
    <2>6. Complete(records)
      BY <2>5 DEF LossInv
    <2>7. Complete(call[w].snap)'
      BY <1>a, <2>2, <2>3, <2>6 DEF Complete
    <2> QED BY <2>3, <2>4, <2>7 DEF LossInv
  <1>4. ASSUME NEW w \in Writers, Publish(w) PROVE LossInv'
    <2>1. Publishing(w) /\ records' = call[w].snap /\ heap' = heap
      BY <1>4 DEF Publish, Publishing
    <2> SUFFICES ASSUME ~overlap PROVE LossInv'
      BY <1>4 DEF LossInv, Publish
    <2>2. Complete(records)'
      BY <2>1 DEF LossInv, Complete
    <2>3. \A v \in Writers : ~Publishing(v)'
      BY <1>4, <1>a, <2>1 DEF Publish, Publishing, LossInv, Call
    <2> QED BY <2>2, <2>3 DEF LossInv
  <1>5. ASSUME StartReplay PROVE LossInv'
    BY <1>5, LossInvFrame DEF StartReplay, Publishing
  <1>6. ASSUME ReplayStep PROVE LossInv'
    <2>1. PICK r \in todo : \E a \in Attempts(heap[r].store, heap[r].op) : Played(r, a)
      BY <1>6 DEF ReplayStep
    <2>2. r \in 1..Len(heap) /\ heap[r] \in Record
      BY <1>a
    <2> DEFINE h == [heap[r] EXCEPT !.deleted = TRUE, !.plays = heap[r].plays + 1]
    <2>3. h.deleted = TRUE
      BY <2>2 DEF Record
    <2>4. heap' = heap \/ heap' = [heap EXCEPT ![r] = h]
      BY <2>1 DEF Played
    <2> HIDE DEF h
    <2>5. Len(heap') = Len(heap) /\ \A q \in 1..Len(heap) : heap[q].deleted => heap'[q].deleted
      BY <1>a, <2>2, <2>3, <2>4
    <2>6. records' = records /\ call' = call /\ overlap' = overlap
      BY <1>6 DEF ReplayStep
    <2> QED BY <2>5, <2>6, LossInvFrame DEF Publishing
  <1>7. ASSUME Clean PROVE LossInv'
    BY <1>7 DEF Clean, Pending, LossInv, Complete, Publishing
  <1>8. ASSUME Crash PROVE LossInv'
    BY <1>8 DEF Crash, LossInv, Complete, Publishing, Idle
  <1>9. ASSUME UNCHANGED vars PROVE LossInv'
    BY <1>9, LossInvFrame DEF vars, Publishing
  <1> QED BY <1>1, <1>2, <1>3, <1>4, <1>5, <1>6, <1>7, <1>8, <1>9 DEF Next, Handle, Replay

\* A write a store did not take is forgotten before it is replayed only if two
\* handlers were inside addRecord together: clean and replay, which work on the
\* same slice, never lose one.
THEOREM LostByOverlapOnlyHolds == Spec => []LostByOverlapOnly
  <1>1. Init => LossInv
    BY DEF Init, LossInv, Complete, Publishing, Idle
  <1>2. LossInv => LostByOverlapOnly
    BY DEF LossInv, Complete, Publishing, LostByOverlapOnly, NoLostRecord
  <1> QED BY <1>1, <1>2, LossInvStep, TypeCorrect, PTL DEF Spec

\* With a single handler no failed write is ever lost.
THEOREM NoLossSingleWriter ==
    ASSUME NEW CONSTANT w, Writers = {w}
    PROVE  Spec => []NoLostRecord
  <1>1. Init => ~overlap
    BY DEF Init
  <1>2. ~overlap /\ [Next]_vars => ~overlap'
    <2> SUFFICES ASSUME ~overlap, [Next]_vars PROVE ~overlap'
      OBVIOUS
    <2>1. ASSUME Request(w) PROVE ~overlap'
      BY <2>1 DEF Request, Create, Update, Delete, Subscribe, Unsubscribe, Begin
    <2>2. ASSUME AddRecord(w) PROVE ~overlap'
      BY <2>2 DEF AddRecord
    <2>3. ASSUME Visit(w) \/ CallStore(w) \/ Publish(w) \/ Return(w) PROVE ~overlap'
      BY <2>3 DEF Visit, CallStore, Publish, Return
    <2>4. ASSUME Replay \/ Clean \/ Crash PROVE ~overlap'
      BY <2>4 DEF Replay, StartReplay, ReplayStep, Clean, Crash
    <2>5. CASE UNCHANGED vars
      BY <2>5 DEF vars
    <2> QED BY <2>1, <2>2, <2>3, <2>4, <2>5 DEF Next, Handle
  <1>3. LostByOverlapOnly /\ ~overlap => NoLostRecord
    BY DEF LostByOverlapOnly
  <1> QED BY <1>1, <1>2, <1>3, LostByOverlapOnlyHolds, PTL DEF Spec

-----------------------------------------------------------------------------
(* Acknowledged incidents stay readable *)

\* An operation no call and no record may lose an incident by: deletions were
\* asked for, and no incident is written to the persistent ones.
Meant(op) ==
    /\ op.act = "deleted" => op.guid \in doomed
    /\ op.act \in {"created", "updated"} => ~op.inc.persistent

\* A store has the incident on its own, or its deletion was asked for.
Kept(g) == g \in doomed \/ \E s \in Stores : content[s].file[g] # None

\* Some store took the creation this call is about.
Taken(c) == c.pc # "idle" /\ c.op.act = "created" /\ ~c.allInError

\* Every write under way or recorded is meant; what some store took of a
\* creation under way is kept, and so is what was acknowledged.
AckInv ==
    /\ \A w \in Writers : call[w].pc # "idle" => Meant(call[w].op)
    /\ \A r \in 1..Len(heap) : Meant(heap[r].op)
    /\ \A w \in Writers : Taken(call[w]) => Kept(call[w].op.inc.guid)
    /\ \A g \in acked : Kept(g)

\* An attempt, disturbed or not, loses no incident that is kept.
LEMMA AttemptsSpare ==
    ASSUME TypeOK, NEW s \in Stores, NEW op \in Op, Meant(op), NEW a \in Attempts(s, op),
           content' = [content EXCEPT ![s] = a.res.content], doomed \subseteq doomed',
           NEW g \in Guids, Kept(g)
    PROVE  Kept(g)'
  <1> SUFFICES ASSUME g \notin doomed' PROVE \E t \in Stores : content'[t].file[g] # None
    BY DEF Kept
  <1>1. PICK t \in Stores : content[t].file[g] # None
    BY DEF Kept
  <1>2. CASE t # s
    BY <1>1, <1>2 DEF TypeOK
  <1>3. CASE t = s
    <2>1. Kind[s] \in Kinds /\ content[s] \in Content
      BY ReplicateAssumption DEF TypeOK
    <2>2. Spares(op, g)
      BY DEF Meant, Spares
    <2>3. a.res.content.file[g] # None
      BY <1>1, <1>3, <2>1, <2>2, CallsSpare DEF Attempts
    <2> QED BY <2>3 DEF TypeOK
  <1> QED BY <1>2, <1>3

\* Every step of the system keeps the incidents that are to be kept.
LEMMA AckStep ==
    ASSUME Persistence \subseteq {FALSE}
    PROVE  TypeOK /\ AckInv /\ [Next]_vars => AckInv'
  <1> SUFFICES ASSUME TypeOK, AckInv, [Next]_vars PROVE AckInv'
    OBVIOUS
  <1>a. /\ heap \in Seq(Record) /\ todo \subseteq 1..Len(heap) /\ records \subseteq 1..Len(heap)
        /\ call \in [Writers -> Call] /\ acked \subseteq Guids
    BY DEF TypeOK
  <1>b. ASSUME NEW w \in Writers
        PROVE  /\ call[w] \in Call
               /\ call[w].pc # "idle" => call[w].op \in Op
               /\ call[w].pc \in {"call", "add", "publish"} => call[w].cur \in Stores
    BY DEF TypeOK, WellFormed
  <1>1. ASSUME NEW w \in Writers, NEW op \in Op, Begin(w, op), doomed \subseteq doomed',
               op.act = "deleted" => op.guid \in doomed',
               op.act \in {"created", "updated"} => ~op.inc.persistent
        PROVE  AckInv'
    <2>0. /\ call' = [call EXCEPT ![w] = [Idle EXCEPT !.pc = "loop", !.op = op, !.left = Stores]]
          /\ content' = content /\ heap' = heap /\ acked' = acked
      BY <1>1 DEF Begin
    <2>1. call'[w].op = op /\ call'[w].allInError = TRUE
      BY <1>a, <2>0 DEF Idle
    <2>2. \A v \in Writers : v # w => call'[v] = call[v]
      BY <1>a, <2>0
    <2>3. \A o : Meant(o) => Meant(o)'
      BY <1>1 DEF Meant
    <2>4. \A g : Kept(g) => Kept(g)'
      BY <1>1, <2>0 DEF Kept
    <2>5. \A v \in Writers : call'[v].pc # "idle" => Meant(call[v].op)'
      BY <1>1, <2>1, <2>2, <2>3 DEF AckInv, Meant
    <2>6. \A r \in 1..Len(heap') : Meant(heap[r].op)'
      BY <2>0, <2>3 DEF AckInv, Meant
    <2>7. \A v \in Writers : Taken(call'[v]) => Kept(call[v].op.inc.guid)'
      BY <2>1, <2>2, <2>4 DEF AckInv, Taken, Kept
    <2> QED BY <2>0, <2>4, <2>5, <2>6, <2>7 DEF AckInv, Taken
  <1>2. ASSUME NEW w \in Writers, Request(w) PROVE AckInv'
    <2>1. ASSUME Create(w) PROVE AckInv'
      <3>1. PICK g \in Guids \ used, v \in Versions, p \in Persistence :
            /\ Begin(w, [act |-> "created", inc |-> [guid |-> g, ver |-> v, persistent |-> p]])
            /\ UNCHANGED doomed
        BY <2>1 DEF Create
      <3>2. p \in BOOLEAN /\ ~p
        BY ReplicateAssumption
      <3> DEFINE op == [act |-> "created", inc |-> [guid |-> g, ver |-> v, persistent |-> p]]
      <3>3. op \in Op /\ op.act = "created" /\ ~op.inc.persistent
        BY <3>2 DEF Op, IncidentOp, Incident
      <3>4. Begin(w, op) /\ doomed' = doomed
        BY <3>1
      <3> HIDE DEF op
      <3> QED BY <1>1, <3>3, <3>4
    <2>2. ASSUME Update(w) PROVE AckInv'
      <3>1. PICK g \in Guids, v \in Versions, p \in Persistence :
            /\ Begin(w, [act |-> "updated", inc |-> [guid |-> g, ver |-> v, persistent |-> p]])
            /\ UNCHANGED doomed
        BY <2>2 DEF Update
      <3>2. p \in BOOLEAN /\ ~p
        BY ReplicateAssumption
      <3> DEFINE op == [act |-> "updated", inc |-> [guid |-> g, ver |-> v, persistent |-> p]]
      <3>3. op \in Op /\ op.act = "updated" /\ ~op.inc.persistent
        BY <3>2 DEF Op, IncidentOp, Incident
      <3>4. Begin(w, op) /\ doomed' = doomed
        BY <3>1
      <3> HIDE DEF op
      <3> QED BY <1>1, <3>3, <3>4
    <2>3. ASSUME Delete(w) PROVE AckInv'
      <3>1. PICK g \in Guids : /\ Begin(w, [act |-> "deleted", guid |-> g])
                               /\ doomed' = doomed \cup {g}
        BY <2>3 DEF Delete
      <3> DEFINE op == [act |-> "deleted", guid |-> g]
      <3>2. op \in Op /\ op.act = "deleted" /\ op.guid = g
        BY DEF Op, DeleteOp
      <3>3. Begin(w, op) /\ doomed' = doomed \cup {g}
        BY <3>1
      <3> HIDE DEF op
      <3> QED BY <1>1, <3>2, <3>3
    <2>4. ASSUME Subscribe(w) \/ Unsubscribe(w) PROVE AckInv'
      <3>1. PICK e \in Emails, x \in {"subscribe", "unsubscribe"} :
              Begin(w, [act |-> x, email |-> e]) /\ UNCHANGED doomed
        BY <2>4 DEF Subscribe, Unsubscribe
      <3> DEFINE op == [act |-> x, email |-> e]
      <3>2. op \in Op /\ op.act \notin {"created", "updated", "deleted"}
        BY DEF Op, EmailOp
      <3>3. Begin(w, op) /\ doomed' = doomed
        BY <3>1
      <3> HIDE DEF op
      <3> QED BY <1>1, <3>2, <3>3
    <2> QED BY <1>2, <2>1, <2>2, <2>3, <2>4 DEF Request
  <1>3. ASSUME NEW w \in Writers, NEW c, call' = [call EXCEPT ![w] = c],
               call[w].pc # "idle", c.op = call[w].op, c.allInError = call[w].allInError,
               content' = content, doomed' = doomed, acked' = acked,
               \A r \in 1..Len(heap') : Meant(heap'[r].op)
        PROVE  AckInv'
    <2>1. \A v \in Writers : /\ call'[v].pc # "idle" => call[v].pc # "idle"
                             /\ call'[v].op = call[v].op
                             /\ call'[v].allInError = call[v].allInError
      BY <1>3, <1>a
    <2>2. \A v \in Writers : call'[v].pc # "idle" => Meant(call[v].op)'
      BY <1>3, <2>1 DEF AckInv, Meant
    <2>3. \A r \in 1..Len(heap') : Meant(heap[r].op)'
      BY <1>3 DEF Meant
    <2>4. \A g : Kept(g)' <=> Kept(g)
      BY <1>3 DEF Kept
    <2>5. \A v \in Writers : Taken(call'[v]) => Taken(call[v]) /\ call'[v].op = call[v].op
      BY <2>1 DEF Taken
    <2>6. \A v \in Writers : Taken(call[v]) => Kept(call[v].op.inc.guid)
      BY DEF AckInv
    <2>7. \A v \in Writers : Taken(call'[v]) => Kept(call[v].op.inc.guid)'
      BY <2>4, <2>5, <2>6
    <2>8. \A g \in acked' : Kept(g)'
      BY <1>3, <2>4 DEF AckInv
    <2> QED BY <2>2, <2>3, <2>7, <2>8 DEF AckInv, Taken
  <1>4. ASSUME NEW w \in Writers, Visit(w) PROVE AckInv'
    <2>1. PICK s \in call[w].left :
            call' = [call EXCEPT ![w] = [call[w] EXCEPT !.pc = "call", !.cur = s, !.tries = 0,
                                                        !.left = call[w].left \ {s}]]
      BY <1>4 DEF Visit
    <2> DEFINE c == [call[w] EXCEPT !.pc = "call", !.cur = s, !.tries = 0,
                                    !.left = call[w].left \ {s}]
    <2>2. c.op = call[w].op /\ c.allInError = call[w].allInError
      BY <1>b DEF Call
    <2>3. call' = [call EXCEPT ![w] = c]
      BY <2>1
    <2> HIDE DEF c
    <2>4. /\ call[w].pc # "idle" /\ content' = content /\ doomed' = doomed /\ acked' = acked
          /\ heap' = heap
      BY <1>4 DEF Visit
    <2>5. \A r \in 1..Len(heap') : Meant(heap'[r].op)
      BY <2>4 DEF AckInv
    <2> QED BY <1>3, <2>2, <2>3, <2>4, <2>5
  <1>5. ASSUME NEW w \in Writers, CallStore(w) PROVE AckInv'
    <2>1. call[w].pc = "call" /\ call[w].cur \in Stores /\ call[w].op \in Op /\ Meant(call[w].op)
      BY <1>5, <1>b DEF CallStore, AckInv
    <2>2. PICK a \in Attempts(call[w].cur, call[w].op) :
            /\ content' = [content EXCEPT ![call[w].cur] = a.res.content]
            /\ call' = [call EXCEPT ![w] = AfterAttempt(call[w], a.res.err)]
      BY <1>5 DEF CallStore
    <2>3. heap' = heap /\ doomed' = doomed /\ acked' = acked
      BY <1>5 DEF CallStore
    <2>4. \A g \in Guids : Kept(g) => Kept(g)'
      BY <2>1, <2>2, <2>3, AttemptsSpare
    <2> DEFINE c == AfterAttempt(call[w], a.res.err)
    <2>5. c.op = call[w].op /\ (c.allInError = call[w].allInError \/ a.res.err = "nil")
      BY <1>b DEF AfterAttempt, Call
    <2>6. call' = [call EXCEPT ![w] = c]
      BY <2>2
    <2> HIDE DEF c
    <2>7. a.res.err = "nil" /\ call[w].op.act = "created" => Kept(call[w].op.inc.guid)'
      <3> SUFFICES ASSUME a.res.err = "nil", call[w].op.act = "created"
                   PROVE  Kept(call[w].op.inc.guid)'
        OBVIOUS
      <3>1. ~call[w].op.inc.persistent
        BY <2>1 DEF Meant
      <3>2. Kind[call[w].cur] \in Kinds /\ content[call[w].cur] \in Content
        BY <2>1, ReplicateAssumption DEF TypeOK
      <3>b. PICK k \in Kinds, d \in Content :
                k = Kind[call[w].cur] /\ d = content[call[w].cur]
        BY <3>2
      <3>c. a.res = Apply(k, call[w].op, d) \/ a.res \in Faulty(k, call[w].op, d)
        BY <3>b DEF Attempts
      <3>3. a.res.content.file[call[w].op.inc.guid] # None
        BY <2>1, <3>1, <3>c, CreationLasts
      <3>4. content'[call[w].cur].file[call[w].op.inc.guid] # None
        BY <2>1, <2>2, <3>3 DEF TypeOK
      <3>5. PICK g : g = call[w].op.inc.guid
        OBVIOUS
      <3>6. Kept(g)'
        BY <2>1, <3>4, <3>5 DEF Kept
      <3>7. call'[w].op.inc.guid = g
        BY <1>a, <2>5, <2>6, <3>5
      <3> QED BY <3>6, <3>7
    <2>8. \A v \in Writers : v # w => call'[v] = call[v]
      BY <1>a, <2>6
    <2>9. call'[w] = c
      BY <1>a, <2>6
    <2>10. \A v \in Writers : call'[v].pc # "idle" => Meant(call[v].op)'
      BY <2>1, <2>3, <2>5, <2>8, <2>9 DEF AckInv, Meant
    <2>11. \A r \in 1..Len(heap') : Meant(heap[r].op)'
      BY <2>3 DEF AckInv, Meant
    <2>12. \A v \in Writers : Taken(call'[v]) => Kept(call[v].op.inc.guid)'
      <3>1. ASSUME NEW v \in Writers, Taken(call[v]) PROVE Kept(call[v].op.inc.guid)'
        <4>1. call[v].op \in Op /\ call[v].op.act = "created"
          BY <1>b, <3>1 DEF Taken
        <4>2. call[v].op.inc.guid \in Guids
          BY <4>1, OpFields DEF Incident
        <4>3. Kept(call[v].op.inc.guid)
          BY <3>1 DEF AckInv
        <4>4. PICK g \in Guids : g = call[v].op.inc.guid
          BY <4>2
        <4>5. Kept(g)'
          BY <4>3, <4>4, <2>4
        <4>6. call'[v].op.inc.guid = g
          BY <2>5, <2>8, <2>9, <4>4
        <4> QED BY <4>5, <4>6
      <3>2. ASSUME NEW v \in Writers, Taken(call'[v]) PROVE Kept(call[v].op.inc.guid)'
        <4>1. v # w => call'[v] = call[v] /\ Taken(call[v])
          BY <2>8, <3>2
        <4>2. v = w => call'[v].op = call[v].op /\ (Taken(call[v]) \/ a.res.err = "nil")
          BY <2>1, <2>5, <2>9, <3>2 DEF Taken
        <4>3. v = w => call'[v].op = call[v].op /\ call[v].op.act = "created"
          BY <2>5, <2>9, <3>2 DEF Taken
        <4> QED BY <2>7, <3>1, <4>1, <4>2, <4>3
      <3> QED BY <3>2
    <2>13. \A g \in acked' : Kept(g)'
      BY <1>a, <2>3, <2>4 DEF AckInv
    <2> QED BY <2>10, <2>11, <2>12, <2>13 DEF AckInv, Taken
  <1>6. ASSUME NEW w \in Writers, AddRecord(w) PROVE AckInv'
    <2>1. call[w].pc # "idle" /\ content' = content /\ doomed' = doomed /\ acked' = acked
      BY <1>6 DEF AddRecord
    <2> DEFINE c == [call[w] EXCEPT !.pc = "publish", !.snap = records \cup {Len(heap) + 1}]
    <2>2. c.op = call[w].op /\ c.allInError = call[w].allInError
      BY <1>b DEF Call
    <2>3. call' = [call EXCEPT ![w] = c]
      BY <1>6 DEF AddRecord
    <2> HIDE DEF c
    <2>4. PICK h \in Record : h.op = call[w].op /\ heap' = Append(heap, h)
      <3>1. [store |-> call[w].cur, op |-> call[w].op, deleted |-> FALSE, plays |-> 0] \in Record
        BY <1>6, <1>b DEF AddRecord, Record
      <3> QED BY <1>6, <3>1 DEF AddRecord
    <2>5. \A r \in 1..Len(heap') : heap'[r] = h \/ (r \in 1..Len(heap) /\ heap'[r] = heap[r])
      <3>1. /\ Len(heap') = Len(heap) + 1 /\ heap'[Len(heap) + 1] = h
            /\ \A r \in 1..Len(heap) : heap'[r] = heap[r]
        BY <1>a, <2>4
      <3> QED BY <1>a, <3>1
    <2>6. \A r \in 1..Len(heap') : Meant(heap'[r].op)
      BY <2>1, <2>4, <2>5 DEF AckInv
    <2> QED BY <1>3, <2>1, <2>2, <2>3, <2>6
  <1>7. ASSUME NEW w \in Writers, Publish(w) PROVE AckInv'
    <2>1. /\ call[w].pc # "idle" /\ content' = content /\ doomed' = doomed /\ acked' = acked
          /\ heap' = heap
      BY <1>7 DEF Publish
    <2> DEFINE c == [call[w] EXCEPT !.pc = "loop", !.cur = None, !.snap = {}]
    <2>2. c.op = call[w].op /\ c.allInError = call[w].allInError
      BY <1>b DEF Call
    <2>3. call' = [call EXCEPT ![w] = c]
      BY <1>7 DEF Publish
    <2> HIDE DEF c
    <2>4. \A r \in 1..Len(heap') : Meant(heap'[r].op)
      BY <2>1 DEF AckInv
    <2> QED BY <1>3, <2>1, <2>2, <2>3, <2>4
  <1>8. ASSUME NEW w \in Writers, Return(w) PROVE AckInv'
    <2>1. /\ content' = content /\ heap' = heap /\ doomed' = doomed
          /\ call' = [call EXCEPT ![w] = Idle] /\ call[w].pc # "idle"
      BY <1>8 DEF Return
    <2>2. \A g : Kept(g)' <=> Kept(g)
      BY <2>1 DEF Kept
    <2>3. \A v \in Writers : call'[v].pc # "idle" => call'[v] = call[v]
      BY <1>a, <2>1 DEF Idle
    <2>4. \A g \in acked' : Kept(g)
      BY <1>8, <2>1 DEF Return, AckInv, Taken
    <2>b. \A v \in Writers : Taken(call'[v]) => Taken(call[v]) /\ call'[v] = call[v]
      BY <2>3 DEF Taken
    <2>5. \A v \in Writers : Taken(call'[v]) => Kept(call[v].op.inc.guid)'
      <3>1. \A v \in Writers : Taken(call[v]) => Kept(call[v].op.inc.guid)
        BY DEF AckInv
      <3> QED BY <2>2, <2>b, <3>1
    <2>6. \A v \in Writers : call'[v].pc # "idle" => Meant(call[v].op)'
      BY <2>1, <2>3 DEF AckInv, Meant
    <2>7. \A r \in 1..Len(heap') : Meant(heap[r].op)'
      BY <2>1 DEF AckInv, Meant
    <2> QED BY <2>2, <2>4, <2>5, <2>6, <2>7 DEF AckInv, Taken
  <1>9. ASSUME ReplayStep PROVE AckInv'
    <2>1. PICK r \in todo : \E a \in Attempts(heap[r].store, heap[r].op) : Played(r, a)
      BY <1>9 DEF ReplayStep
    <2>2. PICK a \in Attempts(heap[r].store, heap[r].op) : Played(r, a)
      BY <2>1
    <2>3. r \in 1..Len(heap) /\ heap[r] \in Record /\ Meant(heap[r].op)
      BY <1>a DEF AckInv
    <2>4. heap[r].store \in Stores /\ heap[r].op \in Op
      BY <2>3 DEF Record
    <2>5. content' = [content EXCEPT ![heap[r].store] = a.res.content]
      BY <2>2 DEF Played
    <2>6. call' = call /\ doomed' = doomed /\ acked' = acked
      BY <1>9 DEF ReplayStep
    <2>7. \A g \in Guids : Kept(g) => Kept(g)'
      BY <2>3, <2>4, <2>5, <2>6, AttemptsSpare
    <2> DEFINE h == [heap[r] EXCEPT !.deleted = TRUE, !.plays = heap[r].plays + 1]
    <2>8. heap' = heap \/ heap' = [heap EXCEPT ![r] = h]
      BY <2>2 DEF Played
    <2>9. h.op = heap[r].op
      BY <2>3 DEF Record
    <2> HIDE DEF h
    <2>10. Len(heap') = Len(heap) /\ \A q \in 1..Len(heap) : heap'[q].op = heap[q].op
      BY <1>a, <2>3, <2>8, <2>9
    <2>11. \A q \in 1..Len(heap') : Meant(heap[q].op)'
      BY <2>6, <2>10 DEF AckInv, Meant
    <2>12. \A v \in Writers : Taken(call[v]) => Kept(call[v].op.inc.guid)'
      <3> SUFFICES ASSUME NEW v \in Writers, Taken(call[v]) PROVE Kept(call[v].op.inc.guid)'
        OBVIOUS
      <3>1. call[v].op \in Op /\ call[v].op.act = "created"
        BY <1>b DEF Taken
      <3>2. call[v].op.inc.guid \in Guids /\ Kept(call[v].op.inc.guid)
        BY <3>1, OpFields DEF Incident, AckInv
      <3>3. PICK g \in Guids : g = call[v].op.inc.guid /\ Kept(g)
        BY <3>2
      <3>4. Kept(g)'
        BY <3>3, <2>7
      <3> QED BY <2>6, <3>3, <3>4
    <2>13. \A v \in Writers : call'[v].pc # "idle" => Meant(call[v].op)'
      BY <2>6 DEF AckInv, Meant
    <2>14. \A g \in acked' : Kept(g)'
      BY <1>a, <2>6, <2>7 DEF AckInv
    <2> QED BY <2>6, <2>11, <2>12, <2>13, <2>14 DEF AckInv, Taken
  <1>10. ASSUME Crash PROVE AckInv'
    BY <1>10, <1>a DEF Crash, AckInv, Idle, Taken, Kept, Meant
  <1>11. ASSUME UNCHANGED <<content, heap, call, acked, doomed>> PROVE AckInv'
    BY <1>11 DEF AckInv, Taken, Kept, Meant
  <1>12. StartReplay \/ Clean \/ UNCHANGED vars => UNCHANGED <<content, heap, call, acked, doomed>>
    BY DEF StartReplay, Clean, vars
  <1> QED BY <1>2, <1>4, <1>5, <1>6, <1>7, <1>8, <1>9, <1>10, <1>11, <1>12
          DEF Next, Handle, Replay

\* Whatever fails, whoever calls and however often the process is restarted
\* with its records lost, an incident whose creation was acknowledged is
\* readable until its deletion is asked for, as long as no incident is
\* persistent.  (Updating one erases it before it is written again.)
THEOREM AckedReadableHolds ==
    ASSUME Persistence \subseteq {FALSE}
    PROVE  Spec => []AckedReadable
  <1>1. Init => AckInv
    BY DEF Init, AckInv, Idle, Taken
  <1>2. TypeOK /\ AckInv => AckedReadable
    BY DEF AckInv, AckedReadable, Kept, Known, Readable
  <1> QED BY <1>1, <1>2, AckStep, TypeCorrect, PTL DEF Spec

-----------------------------------------------------------------------------
(* One handler and no fault: the replicas agree *)

\* What a content lists.
Listed(c) == [file |-> c.file, pers |-> c.pers, subs |-> c.subs]

\* What a content lists once it has taken the operation on an incident.
Target(op, c) == Listed(IF op.act = "deleted" THEN Erase(c, op.guid) ELSE Replace(c, op.inc))

\* The operations that write an incident.
Changes == {"created", "updated"}

\* The content is one such an operation comes to with one handler and no fault:
\* a creation finds no trace of its incident, an update finds the incident.
Expects(op, c) ==
    /\ op.act = "created" => ~Readable(c, op.inc.guid) /\ op.inc.guid \notin c.msgs
    /\ op.act = "updated" => Readable(c, op.inc.guid)

\* The target depends on what is listed alone.
LEMMA TargetOfListed ==
    ASSUME NEW c \in Content, NEW d \in Content, Listed(c) = Listed(d), NEW op
    PROVE  Target(op, c) = Target(op, d)
  <1>1. c.file = d.file /\ c.pers = d.pers /\ c.subs = d.subs
    BY DEF Listed
  <1>2. ASSUME NEW g PROVE Listed(Erase(c, g)) = Listed(Erase(d, g))
    BY <1>1 DEF Listed, Erase, Content
  <1>3. ASSUME NEW i PROVE Listed(Replace(c, i)) = Listed(Replace(d, i))
    <2>1. /\ Erase(c, i.guid).file = Erase(d, i.guid).file
          /\ Erase(c, i.guid).pers = Erase(d, i.guid).pers
          /\ Erase(c, i.guid).subs = Erase(d, i.guid).subs
      BY <1>2 DEF Listed
    <2> QED BY <2>1 DEF Listed, Replace, Put, Erase, Content
  <1> QED BY <1>2, <1>3 DEF Target

\* Forgetting an incident that is not there changes no list.
LEMMA EraseNothing ==
    ASSUME NEW c \in Content, NEW g \in Guids, ~Readable(c, g)
    PROVE  Erase(c, g) = c
  <1>1. c.file[g] = None /\ c.pers[g] = None
    BY DEF Readable
  <1>2. [c.file EXCEPT ![g] = None] = c.file
    BY <1>1 DEF Content, Shelf
  <1>3. [c.pers EXCEPT ![g] = None] = c.pers
    BY <1>1 DEF Content, Shelf
  <1> QED BY <1>2, <1>3 DEF Erase, Content

\* A deletion comes to its target on every kind of store.
LEMMA DeletionLists ==
    ASSUME NEW k \in Kinds, NEW op \in Op, NEW c \in Content, op.act = "deleted"
    PROVE  /\ Listed(Apply(k, op, c).content) = Target(op, c)
           /\ Apply(k, op, c).content.msgs \subseteq c.msgs
           /\ Apply(k, op, c).err \in {"nil", "notexist"}
  <1>1. op.guid \in Guids
    BY OpFields
  <1>2. LocalDelete(op.guid, c).content.msgs = c.msgs
        /\ Listed(LocalDelete(op.guid, c).content) = Listed(Erase(c, op.guid))
    <2>1. CASE c.file[op.guid] = None
      <3>1. [c.file EXCEPT ![op.guid] = None] = c.file
        BY <1>1, <2>1 DEF Content, Shelf
      <3>2. LocalDelete(op.guid, c).content = DropPers(c, op.guid)
        BY <2>1 DEF LocalDelete, Fail
      <3> QED BY <3>1, <3>2 DEF DropPers, Erase, Listed, Content
    <2>2. CASE c.file[op.guid] # None
      BY <2>2 DEF LocalDelete, Done, Erase, Listed, Content
    <2> QED BY <2>1, <2>2
  <1>3. S3Delete(op.guid, c).content.msgs = c.msgs
        /\ Listed(S3Delete(op.guid, c).content) = Listed(Erase(c, op.guid))
    BY DEF S3Delete, Done, Erase, Content
  <1>4. DBDelete(op.guid, c).content.msgs \subseteq c.msgs
        /\ Listed(DBDelete(op.guid, c).content) = Listed(Erase(c, op.guid))
    BY DEF DBDelete, Done, Erase, DropMsg, Listed, Content
  <1>5. Apply(k, op, c).err \in {"nil", "notexist"}
    BY DEF Apply, Kinds, LocalCall, S3Call, DBCall, LocalDelete, S3Delete, DBDelete, Done, Fail
  <1> QED BY <1>2, <1>3, <1>4, <1>5 DEF Apply, Kinds, LocalCall, S3Call, DBCall, Target

\* So does a creation or an update that finds what it expects, and it succeeds.
LEMMA ChangeLists ==
    ASSUME NEW k \in Kinds, NEW op \in Op, NEW c \in Content, op.act \in Changes, Expects(op, c)
    PROVE  /\ Apply(k, op, c).err = "nil"
           /\ Listed(Apply(k, op, c).content) = Target(op, c)
           /\ Apply(k, op, c).content.msgs \subseteq c.msgs \cup {op.inc.guid}
  <1> DEFINE i == op.inc
             d == AddMsg(c, i.guid)
  <1>1. i \in Incident /\ i.guid \in Guids
    BY OpFields DEF Changes, Incident
  <1>2. d \in Content /\ Listed(d) = Listed(c) /\ d.msgs = c.msgs \cup {i.guid}
    BY <1>1, EditsType DEF AddMsg, Listed, Content
  <1>3. \A x \in Content : Put(x, i).msgs = x.msgs /\ Replace(x, i).msgs = x.msgs
    BY <1>1, EditsType DEF Put, Replace, Erase, Content
  <1>4. Listed(Replace(d, i)) = Listed(Replace(c, i))
    <2>1. ASSUME NEW x \in Content, NEW y \in Content, Listed(x) = Listed(y)
          PROVE  Listed(Replace(x, i)) = Listed(Replace(y, i))
      <3>1. x.file = y.file /\ x.pers = y.pers /\ x.subs = y.subs
        BY <2>1 DEF Listed
      <3> QED BY <3>1 DEF Listed, Replace, Put, Erase, Content
    <2> QED BY <1>2, <2>1
  <1>5. CASE op.act = "created"
    <2>1. ~Readable(c, i.guid) /\ i.guid \notin c.msgs
      BY <1>5 DEF Expects
    <2>2. Replace(c, i) = Put(c, i)
      BY <1>1, <2>1, EraseNothing DEF Replace
    <2>3. ~Readable(d, i.guid)
      BY <1>2, <2>1 DEF Readable, Listed
    <2>4. Replace(d, i) = Put(d, i)
      BY <1>1, <1>2, <2>3, EraseNothing DEF Replace
    <2>5. Target(op, c) = Listed(Put(c, i)) /\ Target(op, c) = Listed(Put(d, i))
      BY <1>4, <1>5, <2>2, <2>4 DEF Target
    <2>6. Apply(k, op, c) = Done(Put(c, i)) \/ Apply(k, op, c) = Done(Put(d, i))
      BY <1>5, <2>1 DEF Apply, Kinds, LocalCall, S3Call, DBCall, LocalCreate, S3Create, DBCreate
    <2> HIDE DEF i, d
    <2>7. Apply(k, op, c).err = "nil"
      BY <2>6 DEF Done
    <2>8. Apply(k, op, c).content = Put(c, i) \/ Apply(k, op, c).content = Put(d, i)
      BY <2>6 DEF Done
    <2>9. i = op.inc
      BY DEF i
    <2> QED BY <1>2, <1>3, <2>5, <2>7, <2>8, <2>9
  <1>6. CASE op.act = "updated"
    <2>1. Readable(c, i.guid)
      BY <1>6 DEF Expects
    <2>2. Apply(k, op, c) = Done(Replace(c, i)) \/ Apply(k, op, c) = Done(Replace(d, i))
      BY <1>6, <2>1 DEF Apply, Kinds, LocalCall, S3Call, DBCall, LocalUpdate, S3Update, DBUpdate
    <2>3. Target(op, c) = Listed(Replace(c, i)) /\ Target(op, c) = Listed(Replace(d, i))
      BY <1>4, <1>6 DEF Target
    <2> HIDE DEF i, d
    <2>4. Apply(k, op, c).err = "nil"
      BY <2>2 DEF Done
    <2>5. Apply(k, op, c).content = Replace(c, i) \/ Apply(k, op, c).content = Replace(d, i)
      BY <2>2 DEF Done
    <2>6. i = op.inc
      BY DEF i
    <2> QED BY <1>2, <1>3, <2>3, <2>4, <2>5, <2>6
  <1> QED BY <1>5, <1>6 DEF Changes

\* What a content that has taken the operation lets be read.
LEMMA TargetReads ==
    ASSUME NEW op \in Op, NEW c \in Content, NEW x, Listed(x) = Target(op, c), NEW g \in Guids
    PROVE  /\ op.act = "deleted" => /\ ~Readable(x, op.guid)
                                    /\ g # op.guid => (Readable(x, g) <=> Readable(c, g))
           /\ op.act \in Changes /\ g # op.inc.guid => (Readable(x, g) <=> Readable(c, g))
  <1>1. ASSUME NEW y, Listed(x) = Listed(y), NEW h PROVE Readable(x, h) <=> Readable(y, h)
    BY <1>1 DEF Listed, Readable
  <1>2. CASE op.act = "deleted"
    <2>1. op.guid \in Guids
      BY <1>2, OpFields
    <2>2. \A h : Readable(x, h) <=> Readable(Erase(c, op.guid), h)
      BY <1>1, <1>2 DEF Target
    <2>3. /\ ~Readable(Erase(c, op.guid), op.guid)
          /\ g # op.guid => (Readable(Erase(c, op.guid), g) <=> Readable(c, g))
      BY <2>1 DEF Erase, Readable, Content, Shelf
    <2> QED BY <1>2, <2>2, <2>3 DEF Changes
  <1>3. CASE op.act \in Changes
    <2>1. op.inc \in Incident /\ op.inc.guid \in Guids
      BY <1>3, OpFields DEF Changes, Incident
    <2>2. \A h : Readable(x, h) <=> Readable(Replace(c, op.inc), h)
      BY <1>1, <1>3 DEF Target, Changes
    <2>3. g # op.inc.guid => (Readable(Replace(c, op.inc), g) <=> Readable(c, g))
      BY <2>1 DEF Replace, Put, Erase, Readable, Content, Shelf
    <2> QED BY <1>3, <2>2, <2>3 DEF Changes
  <1> QED BY <1>2, <1>3

\* Writer w's call has still to come to store s.
Due(w, s) == \/ call[w].pc # "idle" /\ s \in call[w].left
             \/ call[w].pc = "call" /\ s = call[w].cur

\* What store s lists once the call under way is over.
Goal(w, s) == IF Due(w, s) THEN Target(call[w].op, content[s]) ELSE View(s)

\* The record deletes an incident that its store has not, and that no call under
\* way puts there.
Spent(w, h) ==
    /\ h.op.act = "deleted" /\ h.op.guid \in used
    /\ ~Readable(content[h.store], h.op.guid)
    /\ call[w].pc # "idle" /\ call[w].op.act \in Changes => call[w].op.inc.guid # h.op.guid

\* One handler, no fault: every store comes to the same lists.
AgreeInv(w) ==
    /\ \A s \in Stores, g \in Guids : Readable(content[s], g) \/ g \in content[s].msgs => g \in used
    /\ \A s, t \in Stores : Goal(w, s) = Goal(w, t)
    /\ \A s \in Stores : Due(w, s) => Expects(call[w].op, content[s])
    /\ \A r \in 1..Len(heap) : Spent(w, heap[r])
    /\ call[w].pc # "idle" =>
         \/ call[w].op.act = "deleted" /\ call[w].op.guid \in used
         \/ call[w].op.act \in Changes /\ call[w].op.inc.guid \in used
    /\ call[w].pc \in {"call", "add", "publish"} => call[w].cur \notin call[w].left
    /\ call[w].pc \in {"add", "publish"} =>
         call[w].op.act = "deleted" /\ ~Readable(content[call[w].cur], call[w].op.guid)

\* The conditions under which it holds.
Calm(w) == /\ Writers = {w} /\ MaxFaults = 0 /\ MaxCrashes = 0
           /\ Acts \subseteq {"created", "updated", "deleted"}

\* Nothing disturbs an attempt.
LEMMA CalmAttempts ==
    ASSUME NEW w, Calm(w), TypeOK, NEW s \in Stores, NEW op \in Op, NEW a \in Attempts(s, op)
    PROVE  a.res = Apply(Kind[s], op, content[s])
  <1>1. env.faults \in 0..MaxFaults
    BY DEF TypeOK, Env
  <1>2. ~(env.faults < MaxFaults)
    BY <1>1 DEF Calm
  <1> QED BY <1>2 DEF Attempts

\* A call begins: the stores list the same, and expect the operation.
LEMMA AgreeBegin ==
    ASSUME NEW w, Calm(w), TypeOK, AgreeInv(w), NEW op \in Op, Begin(w, op), used \subseteq used',
           op.act \in Acts, \A s \in Stores : Expects(op, content[s]),
           \/ op.act = "deleted" /\ op.guid \in used'
           \/ op.act \in Changes /\ op.inc.guid \in used',
           \A r \in 1..Len(heap) : op.act \in Changes => op.inc.guid # heap[r].op.guid
    PROVE  AgreeInv(w)'
  <1>1. /\ call[w].pc = "idle" /\ content' = content /\ heap' = heap
        /\ call' = [call EXCEPT ![w] = [Idle EXCEPT !.pc = "loop", !.op = op, !.left = Stores]]
    BY DEF Begin
  <1>2. w \in Writers /\ call \in [Writers -> Call]
    BY DEF Calm, TypeOK
  <1>3. /\ call'[w].pc = "loop" /\ call'[w].op = op /\ call'[w].left = Stores
    BY <1>1, <1>2 DEF Idle
  <1>4. \A s \in Stores : ~Due(w, s) /\ Goal(w, s) = View(s)
    BY <1>1 DEF Due, Goal
  <1>5. \A s \in Stores : Due(w, s)' /\ Goal(w, s)' = Target(op, content[s])
    BY <1>1, <1>3 DEF Due, Goal
  <1>6. \A s, t \in Stores : Listed(content[s]) = Listed(content[t])
    BY <1>4 DEF AgreeInv, View, Listed
  <1>7. \A s, t \in Stores : Goal(w, s)' = Goal(w, t)'
    BY <1>5, <1>6, TargetOfListed DEF TypeOK
  <1>8. \A s \in Stores : Due(w, s)' => Expects(call[w].op, content[s])'
    BY <1>1, <1>3 DEF Expects, Readable
  <1>9. \A r \in 1..Len(heap') : Spent(w, heap[r])'
    BY <1>1, <1>3 DEF AgreeInv, Spent, Readable
  <1>10. \A s \in Stores, g \in Guids :
            Readable(content'[s], g) \/ g \in content'[s].msgs => g \in used'
    BY <1>1 DEF AgreeInv
  <1> QED BY <1>1, <1>3, <1>7, <1>8, <1>9, <1>10 DEF AgreeInv

\* A step of the call that changes no store.
LEMMA AgreeFrame ==
    ASSUME NEW w, Calm(w), TypeOK, AgreeInv(w), content' = content, heap' = heap, used' = used,
           call[w].pc # "idle" => call'[w].op = call[w].op,
           call'[w].pc # "idle" => call[w].pc # "idle",
           \A s \in Stores : Due(w, s)' = Due(w, s),
           call'[w].pc \in {"call", "add", "publish"} => call'[w].cur \notin call'[w].left,
           call'[w].pc \in {"add", "publish"} =>
             call[w].pc \in {"add", "publish"} /\ call'[w].cur = call[w].cur
    PROVE  AgreeInv(w)'
  <1>a. \A s \in Stores : Due(w, s) => call[w].pc # "idle" /\ call'[w].op = call[w].op
    BY DEF Due
  <1>1. \A s \in Stores : Goal(w, s)' = Goal(w, s)
    BY <1>a DEF Goal, View
  <1>2. \A s \in Stores : Due(w, s)' => Expects(call[w].op, content[s])'
    BY <1>a DEF AgreeInv, Expects, Readable
  <1>3. \A r \in 1..Len(heap') : Spent(w, heap[r])'
    BY DEF AgreeInv, Spent, Readable
  <1>4. \A s \in Stores, g \in Guids :
           Readable(content'[s], g) \/ g \in content'[s].msgs => g \in used'
    BY DEF AgreeInv
  <1>5. call'[w].pc \in {"add", "publish"} =>
         call'[w].op.act = "deleted" /\ ~Readable(content'[call'[w].cur], call'[w].op.guid)
    BY DEF AgreeInv
  <1>6. call'[w].pc # "idle" =>
         \/ call'[w].op.act = "deleted" /\ call'[w].op.guid \in used'
         \/ call'[w].op.act \in Changes /\ call'[w].op.inc.guid \in used'
    BY DEF AgreeInv
  <1>7. \A s, t \in Stores : Goal(w, s)' = Goal(w, t)'
    BY <1>1 DEF AgreeInv
  <1> QED BY <1>2, <1>3, <1>4, <1>5, <1>6, <1>7 DEF AgreeInv

\* A call of a store: nothing but the content of that store changes, and its
\* goal does not.
LEMMA AgreeCallStore ==
    ASSUME NEW w, Calm(w), TypeOK, AgreeInv(w), CallStore(w)
    PROVE  AgreeInv(w)'
  <1>a. PICK s, op, c : s = call[w].cur /\ op = call[w].op /\ c = content[s]
    OBVIOUS
  <1>1. /\ w \in Writers /\ call \in [Writers -> Call] /\ call[w].pc = "call" /\ call[w] \in Call
        /\ s \in Stores /\ op \in Op /\ s \notin call[w].left /\ c \in Content /\ Kind[s] \in Kinds
        /\ content \in [Stores -> Content]
    BY <1>a, ReplicateAssumption DEF Calm, TypeOK, WellFormed, AgreeInv, CallStore
  <1>2. PICK a \in Attempts(s, op) :
            /\ content' = [content EXCEPT ![s] = a.res.content]
            /\ call' = [call EXCEPT ![w] = AfterAttempt(call[w], a.res.err)]
    BY <1>a DEF CallStore
  <1>3. heap' = heap /\ used' = used
    BY DEF CallStore
  <1>4. a.res = Apply(Kind[s], op, c)
    BY <1>a, <1>1, CalmAttempts
  <1>5. \/ op.act = "deleted" /\ op.guid \in used
        \/ op.act \in Changes /\ op.inc.guid \in used
    BY <1>a, <1>1 DEF AgreeInv
  <1>6. Due(w, s) /\ Expects(op, c)
    BY <1>a, <1>1 DEF Due, AgreeInv
  <1>7. /\ Listed(a.res.content) = Target(op, c)
        /\ op.act \in Changes => a.res.err = "nil"
        /\ a.res.err \in {"nil", "notexist"}
        /\ a.res.content.msgs \subseteq c.msgs \cup IF op.act \in Changes THEN {op.inc.guid} ELSE {}
    <2>1. CASE op.act = "deleted"
      BY <1>1, <1>4, <2>1, DeletionLists DEF Changes
    <2>2. CASE op.act \in Changes
      BY <1>1, <1>4, <1>6, <2>2, ChangeLists
    <2> QED BY <1>5, <2>1, <2>2
  <1>8. a.res.content \in Content
    BY <1>1, AttemptsType DEF Result
  <1>9. /\ content'[s] = a.res.content
        /\ \A t \in Stores : t # s => content'[t] = content[t]
    BY <1>a, <1>1, <1>2
  <1>10. /\ call'[w].op = op /\ call'[w].left = call[w].left
         /\ \/ call'[w].pc = "loop"
            \/ call'[w].pc = "add" /\ call'[w].cur = s /\ op.act = "deleted"
    BY <1>a, <1>1, <1>2, <1>5, <1>7 DEF AfterAttempt, GivesUp, Call
  <1>11. \A t \in Stores : /\ Due(w, t)' <=> Due(w, t) /\ t # s
                           /\ Due(w, t) <=> t \in call[w].left \/ t = s
    BY <1>a, <1>1, <1>10 DEF Due
  <1>12. \A t \in Stores : Goal(w, t)' = Goal(w, t)
    <2>1. Goal(w, s)' = Goal(w, s)
      <3>1. Goal(w, s) = Target(op, c)
        BY <1>a, <1>6 DEF Goal
      <3>2. ~Due(w, s)'
        BY <1>1, <1>11
      <3>3. Goal(w, s)' = Listed(content'[s])
        BY <3>2 DEF Goal, View, Listed
      <3> QED BY <1>7, <1>9, <3>1, <3>3
    <2>2. ASSUME NEW t \in Stores, t # s PROVE Goal(w, t)' = Goal(w, t)
      BY <1>a, <1>9, <1>10, <1>11, <2>2 DEF Goal, View
    <2> QED BY <1>a, <2>1, <2>2
  <1>13. \A g \in Guids : /\ op.act = "deleted" =>
                              /\ ~Readable(content'[s], op.guid)
                              /\ g # op.guid => (Readable(content'[s], g) <=> Readable(c, g))
                          /\ op.act \in Changes /\ g # op.inc.guid =>
                              (Readable(content'[s], g) <=> Readable(c, g))
    BY <1>a, <1>1, <1>7, <1>9, TargetReads
  <1>14. \A t \in Stores, g \in Guids :
            Readable(content'[t], g) \/ g \in content'[t].msgs => g \in used'
    <2>1. ASSUME NEW g \in Guids, Readable(content'[s], g) \/ g \in content'[s].msgs
          PROVE  g \in used
      <3>1. Readable(c, g) \/ g \in c.msgs => g \in used
        BY <1>a, <1>1 DEF AgreeInv
      <3>2. CASE op.act = "deleted"
        BY <1>5, <1>7, <1>9, <1>13, <2>1, <3>1, <3>2 DEF Changes
      <3>3. CASE op.act \in Changes
        BY <1>5, <1>7, <1>9, <1>13, <2>1, <3>1, <3>3 DEF Changes
      <3> QED BY <1>5, <3>2, <3>3
    <2> QED BY <1>a, <1>3, <1>9, <2>1 DEF AgreeInv
  <1>15. \A t \in Stores : Due(w, t)' => Expects(call'[w].op, content'[t])
    BY <1>a, <1>9, <1>10, <1>11 DEF AgreeInv
  <1>16. \A r \in 1..Len(heap') : Spent(w, heap[r])'
    <2> SUFFICES ASSUME NEW r \in 1..Len(heap) PROVE Spent(w, heap[r])'
      BY <1>a, <1>3
    <2> DEFINE h == heap[r]
    <2>1. Spent(w, h) /\ h \in Record
      BY <1>a DEF AgreeInv, TypeOK
    <2>2. h.op \in Op /\ h.op.act = "deleted" /\ h.op.guid \in Guids
      BY <1>a, <2>1, OpFields DEF Record, Spent
    <2>3. h.store = s => ~Readable(content'[s], h.op.guid)
      BY <1>a, <1>1, <1>5, <1>13, <2>1, <2>2 DEF Spent
    <2>4. ~Readable(content'[h.store], h.op.guid)
      BY <1>a, <1>9, <2>1, <2>3 DEF Spent, Record
    <2>5. h = heap'[r]
      BY <1>a, <1>3
    <2>6. call'[w].op = call[w].op /\ call[w].pc # "idle"
      BY <1>a, <1>1, <1>10
    <2> HIDE DEF h
    <2> QED BY <1>a, <1>3, <2>1, <2>4, <2>5, <2>6 DEF Spent
  <1>17. call'[w].pc \in {"add", "publish"} =>
           call'[w].op.act = "deleted" /\ ~Readable(content'[call'[w].cur], call'[w].op.guid)
    <2>1. op.act = "deleted" => ~Readable(content'[s], op.guid)
      <3>1. op.act = "deleted" => op.guid \in Guids
        BY <1>a, <1>1, OpFields
      <3> QED BY <1>a, <1>13, <3>1
    <2> QED BY <1>a, <1>10, <2>1
  <1>18. \A t, u \in Stores : Goal(w, t)' = Goal(w, u)'
    BY <1>a, <1>12 DEF AgreeInv
  <1>19. call'[w].pc \in {"call", "add", "publish"} => call'[w].cur \notin call'[w].left
    BY <1>a, <1>1, <1>10
  <1> QED BY <1>a, <1>3, <1>5, <1>10, <1>14, <1>15, <1>16, <1>17, <1>18, <1>19 DEF AgreeInv

\* A replay changes no list: the record is spent.
LEMMA AgreeReplay ==
    ASSUME NEW w, Calm(w), TypeOK, AgreeInv(w), ReplayStep
    PROVE  AgreeInv(w)'
  <1>1. PICK r \in todo : \E a \in Attempts(heap[r].store, heap[r].op) : Played(r, a)
    BY DEF ReplayStep
  <1>2. PICK a \in Attempts(heap[r].store, heap[r].op) : Played(r, a)
    BY <1>1
  <1>3. r \in 1..Len(heap) /\ heap[r] \in Record /\ heap \in Seq(Record)
    BY DEF TypeOK
  <1>4. PICK s \in Stores, op \in Op : s = heap[r].store /\ op = heap[r].op
    BY <1>3 DEF Record
  <1>5. content[s] \in Content /\ Kind[s] \in Kinds /\ content \in [Stores -> Content]
    BY ReplicateAssumption DEF TypeOK
  <1>6. op.act = "deleted" /\ ~Readable(content[s], op.guid) /\ op.guid \in Guids
    BY <1>3, <1>4, OpFields DEF AgreeInv, Spent
  <1>7. a.res = Apply(Kind[s], op, content[s])
    BY <1>2, <1>4, CalmAttempts
  <1>8. Target(op, content[s]) = Listed(content[s])
    BY <1>5, <1>6, EraseNothing DEF Target
  <1>9. Listed(a.res.content) = Listed(content[s]) /\ a.res.content.msgs \subseteq content[s].msgs
    BY <1>5, <1>6, <1>7, <1>8, DeletionLists
  <1>10. a.res.content \in Content
    BY <1>2, <1>4, AttemptsType DEF Result
  <1>11. \A t \in Stores : /\ Listed(content'[t]) = Listed(content[t])
                           /\ content'[t].msgs \subseteq content[t].msgs
                           /\ content'[t] \in Content
    <2>1. content' = [content EXCEPT ![s] = a.res.content]
      BY <1>2, <1>4 DEF Played
    <2> QED BY <1>5, <1>9, <1>10, <2>1
  <1>12. call' = call /\ used' = used
    BY DEF ReplayStep
  <1>13. Len(heap') = Len(heap) /\ \A q \in 1..Len(heap) : /\ heap'[q].op = heap[q].op
                                                          /\ heap'[q].store = heap[q].store
 <2> DEFINE h == [heap[r] EXCEPT !.deleted = TRUE, !.plays = heap[r].plays + 1]
    <2>1. heap' = heap \/ heap' = [heap EXCEPT ![r] = h]
      BY <1>2 DEF Played
    <2>2. h.op = heap[r].op /\ h.store = heap[r].store
      BY <1>3 DEF Record
    <2> HIDE DEF h
    <2> QED BY <1>3, <2>1, <2>2
  <1>14. \A t \in Stores : \A g : Readable(content'[t], g) <=> Readable(content[t], g)
    BY <1>11 DEF Listed, Readable
  <1>15. \A t \in Stores : Goal(w, t)' = Goal(w, t)
    <2> SUFFICES ASSUME NEW t \in Stores PROVE Goal(w, t)' = Goal(w, t)
      OBVIOUS
    <2>1. Due(w, t)' <=> Due(w, t)
      BY <1>12 DEF Due
    <2>2. Target(call[w].op, content'[t]) = Target(call[w].op, content[t])
      BY <1>5, <1>11, TargetOfListed
    <2>3. View(t)' = View(t)
      BY <1>11 DEF View, Listed
    <2> QED BY <1>12, <2>1, <2>2, <2>3 DEF Goal
  <1>16. \A t \in Stores : Due(w, t)' => Expects(call[w].op, content[t])'
    BY <1>11, <1>12, <1>14 DEF AgreeInv, Due, Expects
  <1>17. \A q \in 1..Len(heap') : Spent(w, heap[q])'
    <2> SUFFICES ASSUME NEW q \in 1..Len(heap) PROVE Spent(w, heap[q])'
      BY <1>13
    <2>1. Spent(w, heap[q]) /\ heap[q].store \in Stores
      <3>1. heap[q] \in Record
        BY <1>3
      <3> QED BY <3>1 DEF AgreeInv, Record
    <2> QED BY <1>12, <1>13, <1>14, <2>1 DEF Spent
  <1>18. \A t \in Stores, g \in Guids :
            Readable(content'[t], g) \/ g \in content'[t].msgs => g \in used'
    BY <1>11, <1>12, <1>14 DEF AgreeInv
  <1>19. call[w].pc \in {"add", "publish"} => ~Readable(content'[call[w].cur], call[w].op.guid)
    <2>1. call[w].pc \in {"add", "publish"} => call[w].cur \in Stores
      BY DEF TypeOK, WellFormed, Calm
    <2> QED BY <1>14, <2>1 DEF AgreeInv
  <1>20. \A t, u \in Stores : Goal(w, t)' = Goal(w, u)'
    BY <1>15 DEF AgreeInv
  <1> QED BY <1>12, <1>16, <1>17, <1>18, <1>19, <1>20 DEF AgreeInv

\* Every step of the system.
LEMMA AgreeStep ==
    ASSUME NEW w, Calm(w)
    PROVE  TypeOK /\ AgreeInv(w) /\ [Next]_vars => AgreeInv(w)'
  <1> SUFFICES ASSUME TypeOK, AgreeInv(w), [Next]_vars PROVE AgreeInv(w)'
    OBVIOUS
  <1>a. /\ w \in Writers /\ call \in [Writers -> Call] /\ heap \in Seq(Record)
        /\ \A s \in Stores : content[s] \in Content
    BY DEF TypeOK, Calm
  <1>b. call[w].pc = "idle" =>
          \A s, t \in Stores, g \in Guids : Readable(content[s], g) => Readable(content[t], g)
    <2> SUFFICES ASSUME call[w].pc = "idle"
                 PROVE  \A s, t \in Stores, g \in Guids :
                           Readable(content[s], g) => Readable(content[t], g)
      OBVIOUS
    <2>1. \A s \in Stores : Goal(w, s) = View(s)
      BY DEF Goal, Due
    <2> QED BY <2>1 DEF AgreeInv, View, Readable
  <1>1. ASSUME Create(w) PROVE AgreeInv(w)'
    <2>1. PICK g \in Guids \ used, v \in Versions, p \in Persistence :
            /\ Begin(w, [act |-> "created", inc |-> [guid |-> g, ver |-> v, persistent |-> p]])
            /\ used' = used \cup {g}
      BY <1>1 DEF Create
    <2> DEFINE op == [act |-> "created", inc |-> [guid |-> g, ver |-> v, persistent |-> p]]
    <2>2. op \in Op /\ op.act = "created" /\ op.inc.guid = g
      <3>1. p \in BOOLEAN
        BY ReplicateAssumption
      <3> QED BY <3>1 DEF Op, IncidentOp, Incident
    <2>3. Begin(w, op)
      BY <2>1
    <2> HIDE DEF op
    <2>4. \A s \in Stores : Expects(op, content[s])
      BY <2>2 DEF Expects, AgreeInv
    <2>5. \A r \in 1..Len(heap) : op.inc.guid # heap[r].op.guid
      BY <2>2 DEF AgreeInv, Spent
    <2> QED BY <2>1, <2>2, <2>3, <2>4, <2>5, AgreeBegin DEF Begin, Changes
  <1>2. ASSUME Update(w) PROVE AgreeInv(w)'
    <2>1. PICK g \in Guids, v \in Versions, p \in Persistence :
            /\ Known(g)
            /\ Begin(w, [act |-> "updated", inc |-> [guid |-> g, ver |-> v, persistent |-> p]])
            /\ used' = used
      BY <1>2 DEF Update
    <2> DEFINE op == [act |-> "updated", inc |-> [guid |-> g, ver |-> v, persistent |-> p]]
    <2>2. op \in Op /\ op.act = "updated" /\ op.inc.guid = g
      <3>1. p \in BOOLEAN
        BY ReplicateAssumption
      <3> QED BY <3>1 DEF Op, IncidentOp, Incident
    <2>3. Begin(w, op)
      BY <2>1
    <2> HIDE DEF op
    <2>4. call[w].pc = "idle" /\ \A s \in Stores : Readable(content[s], g)
      BY <1>b, <2>1, <2>3 DEF Known, Begin
    <2>5. \A s \in Stores : Expects(op, content[s])
      BY <2>2, <2>4 DEF Expects
    <2>6. \A r \in 1..Len(heap) : op.inc.guid # heap[r].op.guid
      <3>1. ASSUME NEW r \in 1..Len(heap) PROVE heap[r].store \in Stores
        <4>1. heap[r] \in Record
          BY <1>a
        <4> QED BY <4>1 DEF Record
      <3> QED BY <2>2, <2>4, <3>1 DEF AgreeInv, Spent
    <2>7. g \in used
      BY <2>1 DEF Known, AgreeInv
    <2> QED BY <2>1, <2>2, <2>3, <2>5, <2>6, <2>7, AgreeBegin DEF Begin, Changes
  <1>3. ASSUME Delete(w) PROVE AgreeInv(w)'
    <2>1. PICK g \in Guids : Known(g) /\ Begin(w, [act |-> "deleted", guid |-> g]) /\ used' = used
      BY <1>3 DEF Delete
    <2> DEFINE op == [act |-> "deleted", guid |-> g]
    <2>2. op \in Op /\ op.act = "deleted" /\ op.guid = g
      BY DEF Op, DeleteOp
    <2>3. Begin(w, op)
      BY <2>1
    <2> HIDE DEF op
    <2>4. g \in used
      BY <2>1 DEF Known, AgreeInv
    <2>5. \A s \in Stores : Expects(op, content[s])
      BY <2>2 DEF Expects
    <2> QED BY <2>1, <2>2, <2>3, <2>4, <2>5, AgreeBegin DEF Begin, Changes
  <1>4. ~Subscribe(w) /\ ~Unsubscribe(w)
    BY DEF Subscribe, Unsubscribe, Begin, Calm
  <1>5. ASSUME Visit(w) PROVE AgreeInv(w)'
    <2>1. PICK s \in call[w].left :
            call' = [call EXCEPT ![w] = [call[w] EXCEPT !.pc = "call", !.cur = s, !.tries = 0,
                                                        !.left = call[w].left \ {s}]]
      BY <1>5 DEF Visit
    <2>2. /\ call'[w].pc = "call" /\ call'[w].op = call[w].op /\ call'[w].cur = s
          /\ call'[w].left = call[w].left \ {s}
      BY <1>a, <2>1 DEF Call
    <2>3. /\ call[w].pc = "loop" /\ content' = content /\ heap' = heap /\ used' = used
      BY <1>5 DEF Visit
    <2>4. \A t \in Stores : Due(w, t)' = Due(w, t)
      BY <2>2, <2>3 DEF Due
    <2> QED BY <2>2, <2>3, <2>4, AgreeFrame
  <1>6. ASSUME AddRecord(w) PROVE AgreeInv(w)'
    <2>1. /\ call[w].pc = "add" /\ content' = content /\ used' = used
          /\ heap' = Append(heap, [store |-> call[w].cur, op |-> call[w].op,
                                   deleted |-> FALSE, plays |-> 0])
      BY <1>6 DEF AddRecord
    <2> DEFINE h == [store |-> call[w].cur, op |-> call[w].op, deleted |-> FALSE, plays |-> 0]
    <2>2. /\ call'[w].pc = "publish" /\ call'[w].op = call[w].op /\ call'[w].cur = call[w].cur
          /\ call'[w].left = call[w].left
      BY <1>6, <1>a DEF AddRecord, Call
    <2>3. Spent(w, h)
      BY <2>1 DEF AgreeInv, Spent, Changes
    <2>4. h \in Record
      BY <1>a, <2>1 DEF TypeOK, WellFormed, Record
    <2>5. heap' = Append(heap, h)
      BY <2>1
    <2> HIDE DEF h
    <2>6. \A r \in 1..Len(heap') : Spent(w, heap'[r])
      <3>1. /\ Len(heap') = Len(heap) + 1 /\ heap'[Len(heap) + 1] = h
            /\ \A r \in 1..Len(heap) : heap'[r] = heap[r]
        BY <1>a, <2>4, <2>5
      <3> QED BY <1>a, <2>3, <3>1 DEF AgreeInv
    <2>7. \A r \in 1..Len(heap') : Spent(w, heap[r])'
      BY <2>1, <2>2, <2>6 DEF Spent
    <2>8. \A s \in Stores : Goal(w, s)' = Goal(w, s) /\ Due(w, s)' = Due(w, s)
      BY <2>1, <2>2 DEF Goal, Due, View
    <2>9. \A s \in Stores : Due(w, s)' => Expects(call[w].op, content[s])'
      BY <2>1, <2>2, <2>8 DEF AgreeInv, Expects
    <2>10. \A s, t \in Stores : Goal(w, s)' = Goal(w, t)'
      BY <2>8 DEF AgreeInv
    <2> QED BY <2>1, <2>2, <2>7, <2>9, <2>10 DEF AgreeInv
  <1>7. ASSUME Publish(w) PROVE AgreeInv(w)'
    <2>1. /\ call[w].pc = "publish" /\ content' = content /\ heap' = heap /\ used' = used
      BY <1>7 DEF Publish
    <2>2. call'[w].pc = "loop" /\ call'[w].op = call[w].op /\ call'[w].left = call[w].left
      BY <1>7, <1>a DEF Publish, Call
    <2>3. \A t \in Stores : Due(w, t)' = Due(w, t)
      BY <2>1, <2>2 DEF Due
    <2> QED BY <2>1, <2>2, <2>3, AgreeFrame
  <1>8. ASSUME Return(w) PROVE AgreeInv(w)'
    <2>1. /\ call[w].pc = "loop" /\ call[w].left = {}
          /\ content' = content /\ heap' = heap /\ used' = used
      BY <1>8 DEF Return
    <2>2. call'[w].pc = "idle"
      BY <1>8, <1>a DEF Return, Idle
    <2>3. \A t \in Stores : Due(w, t)' = Due(w, t)
      BY <2>1, <2>2 DEF Due
    <2>4. \A s, t \in Stores : Goal(w, s)' = Goal(w, t)'
      BY <2>1, <2>3 DEF AgreeInv, Goal, View, Due
    <2>5. \A s \in Stores : ~Due(w, s)'
      BY <2>2 DEF Due
    <2>6. \A r \in 1..Len(heap') : Spent(w, heap[r])'
      BY <2>1, <2>2 DEF AgreeInv, Spent
    <2> QED BY <2>1, <2>2, <2>4, <2>5, <2>6 DEF AgreeInv
  <1>9. ASSUME StartReplay \/ Clean \/ UNCHANGED vars PROVE AgreeInv(w)'
    <2>1. content' = content /\ heap' = heap /\ used' = used /\ call' = call
      BY <1>9 DEF StartReplay, Clean, vars
    <2> QED BY <2>1 DEF AgreeInv, Spent, Goal, View, Due, Expects
  <1>10. ~Crash
    BY DEF Crash, Calm, TypeOK, Env
  <1> QED BY <1>1, <1>2, <1>3, <1>4, <1>5, <1>6, <1>7, <1>8, <1>9, <1>10,
             AgreeCallStore, AgreeReplay
          DEF Next, Request, Handle, Replay, Calm

\* With one handler, and no fault or restart, all replicas list the same
\* incidents as soon as its call is over: Local, S3 and DB stores alike, for
\* incidents that become persistent and stop being so, and whatever records of
\* deletions a Local store leaves to replay for ever.
THEOREM ReplicasAgreeAlone ==
    ASSUME NEW CONSTANT w, Writers = {w}, MaxFaults = 0, MaxCrashes = 0,
           Acts \subseteq {"created", "updated", "deleted"}
    PROVE  Spec => []ReplicasAgree
  <1>1. Calm(w)
    BY DEF Calm
  <1>2. Init => AgreeInv(w)
    <2> SUFFICES ASSUME Init PROVE AgreeInv(w)
      OBVIOUS
    <2>1. call[w].pc = "idle" /\ heap = <<>>
      BY <1>1 DEF Calm, Init, Idle
    <2>2. \A s \in Stores : /\ ~Due(w, s) /\ Goal(w, s) = View(s)
                            /\ content[s].msgs = {}
                            /\ \A g \in Guids : ~Readable(content[s], g)
      BY <2>1 DEF Init, Due, Goal, Empty, Readable
    <2>3. \A s, t \in Stores : View(s) = View(t)
      BY DEF Init, View
    <2> QED BY <2>1, <2>2, <2>3 DEF AgreeInv
  <1>3. AgreeInv(w) => ReplicasAgree
    BY <1>1 DEF AgreeInv, ReplicasAgree, Quiet, Goal, Due, Calm
  <1>4. TypeOK /\ AgreeInv(w) /\ [Next]_vars => AgreeInv(w)'
    BY <1>1, AgreeStep
  <1> QED BY <1>2, <1>3, <1>4, TypeCorrect, PTL DEF Spec
=============================================================================
