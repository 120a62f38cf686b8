--------------------------- MODULE AnnounceProofs --------------------------
(***************************************************************************)
(* What holds of Announce for every number of handlers and every bound.    *)
(***************************************************************************)
EXTENDS Announce, FiniteSetTheorems, SequenceTheorems, TLAPS

-----------------------------------------------------------------------------
(* One annotation *)

\* What is counted: before it creates, Notify has made room for one.
CountInv ==
    /\ IsFiniteSet(annotations)
    /\ arrived \in Nat
    /\ Cardinality(annotations) <= 1 + arrived
    /\ pc = "delete" => found \in annotations
    /\ pc = "create" => Cardinality(annotations) <= arrived

\* One more element adds at most one to the count.
LEMMA OneMore ==
    ASSUME NEW S, IsFiniteSet(S), NEW x
    PROVE  /\ IsFiniteSet(S \cup {x})
           /\ Cardinality(S) \in Nat
           /\ Cardinality(S \cup {x}) \in Nat
           /\ Cardinality(S \cup {x}) <= Cardinality(S) + 1
  <1>1. Cardinality(S) \in Nat
    BY FS_CardinalityType
  <1>2. CASE x \in S
    <2>1. S \cup {x} = S
      BY <1>2
    <2>2. Cardinality(S) <= Cardinality(S) + 1
      BY <1>1
    <2> QED BY ONLY IsFiniteSet(S), <1>1, <2>1, <2>2
  <1>3. CASE x \notin S
    <2>1. /\ IsFiniteSet(S \cup {x})
          /\ Cardinality(S \cup {x}) = Cardinality(S) + 1
      BY <1>3, FS_AddElement
    <2> QED BY <1>1, <2>1
  <1> QED BY <1>2, <1>3

\* One element less takes at most one from the count.
LEMMA OneLess ==
    ASSUME NEW S, IsFiniteSet(S), NEW x
    PROVE  /\ IsFiniteSet(S \ {x})
           /\ Cardinality(S) \in Nat
           /\ Cardinality(S \ {x}) \in Nat
           /\ Cardinality(S \ {x}) = Cardinality(S) - (IF x \in S THEN 1 ELSE 0)
  <1>1. Cardinality(S) \in Nat
    BY FS_CardinalityType
  <1>2. CASE x \in S
    <2>1. IsFiniteSet(S \ {x}) /\ Cardinality(S \ {x}) = Cardinality(S) - 1
      BY <1>2, FS_RemoveElement
    <2> QED BY <1>1, <1>2, <2>1, FS_CardinalityType
  <1>3. CASE x \notin S
    <2>1. S \ {x} = S
      BY <1>3
    <2>2. Cardinality(S) - 0 = Cardinality(S)
      BY <1>1
    <2> QED BY <1>1, <1>3, <2>1, <2>2
  <1> QED BY <1>2, <1>3

\* Before the first step nothing is counted.
LEMMA CountInit == Init => CountInv
  BY FS_EmptySet DEF Init, CountInv

\* Every step keeps the count.
LEMMA CountStep == CountInv /\ [Next]_vars => CountInv'
  <1> SUFFICES ASSUME CountInv, [Next]_vars PROVE CountInv'
    OBVIOUS
  <1> USE FS_CardinalityType DEF CountInv
  <1>a. Cardinality(annotations) \in Nat
    OBVIOUS
  <1>1. CASE UNCHANGED grafanaVars
    BY <1>1 DEF grafanaVars
  <1>2. CASE Dispatch
    BY <1>2 DEF Dispatch
  <1>3. CASE Find
    BY <1>3, <1>a, FS_EmptySet DEF Find, Return
  <1>4. CASE Delete
    <2>1. CASE annotations' = annotations
      BY <1>4, <2>1 DEF Delete, Return
    <2>2. CASE annotations' = annotations \ {found}
      <3>1. found \in annotations
        BY <1>4 DEF Delete
      <3>2. /\ IsFiniteSet(annotations')
            /\ Cardinality(annotations') = Cardinality(annotations) - 1
        BY <2>2, <3>1, FS_RemoveElement
      <3>3. arrived' = arrived /\ pc' # "delete"
        BY <1>4 DEF Delete, Return
      <3> QED BY <1>a, <3>2, <3>3
    <2> QED BY <1>4, <2>1, <2>2 DEF Delete
  <1>5. CASE Post
    <2>1. /\ arrived' = arrived /\ pc' = "idle"
          /\ Cardinality(annotations) <= arrived
          /\ annotations' = annotations \/ annotations' = annotations \cup {New}
      BY <1>5 DEF Post, Return
    <2>2. /\ IsFiniteSet(annotations \cup {New})
          /\ Cardinality(annotations \cup {New}) \in Nat
          /\ Cardinality(annotations \cup {New}) <= Cardinality(annotations) + 1
      BY OneMore
    <2>3. CASE annotations' = annotations
      BY <1>a, <2>1, <2>3
    <2>4. CASE annotations' = annotations \cup {New}
      <3>1. Cardinality(annotations') <= 1 + arrived'
        BY <1>a, <2>1, <2>2, <2>4
      <3> QED BY <2>1, <2>2, <2>4, <3>1
    <2> QED BY <2>1, <2>3, <2>4
  <1>6. CASE Arrive
    <2>1. PICK a \in late : annotations' = annotations \cup {a}
      BY <1>6 DEF Arrive
    <2>2. arrived' = arrived + 1 /\ pc' = pc /\ found' = found
      BY <1>6 DEF Arrive
    <2>3. /\ IsFiniteSet(annotations \cup {a})
          /\ Cardinality(annotations \cup {a}) \in Nat
          /\ Cardinality(annotations \cup {a}) <= Cardinality(annotations) + 1
      BY OneMore
    <2> QED BY <1>a, <2>1, <2>2, <2>3
  <1>7. CASE Crash
    BY <1>7 DEF Crash, Return
  <1> QED BY <1>1, <1>2, <1>3, <1>4, <1>5, <1>6, <1>7 DEF Next, vars

\* An incident never has more annotations than one and the late creations, for
\* any number of failures, restarts, handlers and events.
THEOREM OneAnnotationHolds == Spec => []OneAnnotation
  <1>1. CountInv => OneAnnotation
    BY DEF CountInv, OneAnnotation
  <1> QED BY <1>1, CountInit, CountStep, PTL DEF Spec

-----------------------------------------------------------------------------
(* What a request makes of an incident *)

\* The fields a request has.
LEMMA RequestFields ==
    ASSUME NEW r \in Requests
    PROVE  /\ r.n \in 1..MaxRequests
           /\ r.op \in {"update", "notify", "delete", "addMessage", "updateMessage", "deleteMessage"}
           /\ r.op = "update" => /\ r.state \in States \cup {None}
                                 /\ r.messages \in {"keep", "none", "one", "edit"}
           /\ r.op = "update" /\ r.messages = "edit" => r.id \in 1..MaxRequests
           /\ r.op \in {"updateMessage", "deleteMessage"} => r.id \in 1..MaxRequests
  <1>1. PICK n \in 1..MaxRequests : r \in RequestsOf(n)
    BY DEF Requests
  <1>2. \A i \in 1..(n - 1) : i \in 1..MaxRequests
    BY ApiAssumption
  <1>3. CASE r \in [op : {"update"}, n : {n}, state : States \cup {None},
                    messages : {"keep", "none", "one"}, quiet : BOOLEAN]
    BY <1>3
  <1>4. CASE r \in [op : {"update"}, n : {n}, state : States \cup {None}, messages : {"edit"},
                    id : 1..(n - 1), quiet : BOOLEAN]
    BY <1>2, <1>4
  <1>5. CASE r \in [op : {"notify", "delete", "addMessage"}, n : {n}]
    BY <1>5
  <1>6. CASE r \in [op : {"updateMessage", "deleteMessage"}, n : {n}, id : 1..(n - 1)]
    BY <1>2, <1>6
  <1> QED BY <1>1, <1>3, <1>4, <1>5, <1>6 DEF RequestsOf

\* An edit keeps a set of messages one.
LEMMA RetoldType ==
    ASSUME NEW M \in SUBSET Message, NEW id \in 1..MaxRequests, NEW n \in 1..MaxRequests
    PROVE  Retold(M, id, n) \in SUBSET Message
  BY DEF Retold, Message

\* Only a deletion takes an incident away from the client.
LEMMA PromiseType ==
    ASSUME NEW p \in Known, NEW r \in Requests, r.op \notin {"notify", "delete"}
    PROVE  Promise(p, r) \in Known
  <1>1. p # None /\ p.state \in States /\ p.messages \in SUBSET Message
    BY NoneAssumption DEF Known
  <1>2. Fresh(r.n) \in Message
    BY RequestFields DEF Fresh, Message
  <1>3. CASE r.op = "update"
    <2> DEFINE st == IF r.state = None THEN p.state ELSE r.state
               ms == CASE r.messages = "keep" -> p.messages
                       [] r.messages = "none" -> {}
                       [] r.messages = "one"  -> {Fresh(r.n)}
                       [] r.messages = "edit" -> Retold(p.messages, r.id, r.n)
    <2>1. Promise(p, r) = [state |-> st, messages |-> ms]
      BY <1>1, <1>3 DEF Promise
    <2>2. st \in States
      BY <1>1, <1>3, RequestFields
    <2>3. ms \in SUBSET Message
      <3>1. CASE r.messages = "edit"
        BY <1>1, <1>3, <3>1, RequestFields, RetoldType
      <3>2. CASE r.messages # "edit"
        BY <1>1, <1>2, <1>3, <3>2, RequestFields
      <3> QED BY <3>1, <3>2
    <2> HIDE DEF st, ms
    <2> QED BY <2>1, <2>2, <2>3 DEF Known
  <1>4. CASE r.op = "addMessage"
    BY <1>1, <1>2, <1>4 DEF Promise, Known
  <1>5. CASE r.op = "updateMessage"
    <2>1. Retold(p.messages, r.id, r.n) \in SUBSET Message
      BY <1>1, <1>5, RequestFields, RetoldType
    <2> QED BY <1>1, <1>5, <2>1 DEF Promise, Known
  <1>6. CASE r.op = "deleteMessage"
    BY <1>1, <1>6 DEF Promise, Known
  <1> QED BY <1>3, <1>4, <1>5, <1>6, RequestFields

\* Counting up the elements of a finite set of positions names each of them.
LEMMA NthNames ==
    ASSUME NEW S \in SUBSET Int, IsFiniteSet(S)
    PROVE  /\ \A k \in 1..Cardinality(S) : Nth(S, k) \in S
           /\ \A i \in S : \E k \in 1..Cardinality(S) : Nth(S, k) = i
  <1> DEFINE Upto(i) == {j \in S : j <= i}
             rank == [i \in S |-> Cardinality(Upto(i))]
             N == Cardinality(S)
  <1>1. \A i \in S : IsFiniteSet(Upto(i)) /\ Cardinality(Upto(i)) <= N
    BY FS_Subset
  <1>2. N \in Nat /\ \A i \in S : Cardinality(Upto(i)) \in Nat
    BY <1>1, FS_CardinalityType
  <1>3. \A i \in S : Cardinality(Upto(i)) # 0
    BY <1>1, FS_EmptySet
  <1>4. \A i, j \in S : i < j => Cardinality(Upto(i)) # Cardinality(Upto(j))
    <2> SUFFICES ASSUME NEW i \in S, NEW j \in S, i < j
                 PROVE  Cardinality(Upto(i)) # Cardinality(Upto(j))
      OBVIOUS
    <2>1. Upto(i) \in SUBSET Upto(j)
      <3>1. ASSUME NEW x \in Upto(i) PROVE x \in Upto(j)
        <4>1. x \in S /\ x <= i
          OBVIOUS
        <4>2. x \in Int /\ i \in Int /\ j \in Int
          BY <4>1
        <4> QED BY <4>1, <4>2
      <3> HIDE DEF Upto
      <3> QED BY <3>1
    <2>2. j \in Upto(j) /\ j \notin Upto(i)
      OBVIOUS
    <2> HIDE DEF Upto
    <2> QED BY <1>1, <2>1, <2>2, FS_Subset
  <1>5. rank \in [S -> 1..N]
    <2> HIDE DEF Upto, N
    <2> QED BY <1>1, <1>2, <1>3
  <1>6. \A i, j \in S : rank[i] = rank[j] => i = j
    <2> HIDE DEF Upto
    <2> QED BY <1>4
  <1>7. rank \in Injection(S, 1..N)
    <2> HIDE DEF rank
    <2> QED BY <1>5, <1>6 DEF Injection, IsInjective
  <1>8. IsFiniteSet(1..N) /\ Cardinality(1..N) = N
    <2> HIDE DEF N
    <2> QED BY <1>2, FS_Interval
  <1>9. rank \in Surjection(S, 1..N)
    <2> HIDE DEF rank
    <2> QED BY <1>7, <1>8, FS_Injection
  <1>10. \A k \in 1..N : \E i \in S : rank[i] = k
    <2> HIDE DEF rank, N
    <2> QED BY <1>9 DEF Surjection
  <1>11. \A k \in 1..N : Nth(S, k) \in S /\ rank[Nth(S, k)] = k
    <2> HIDE DEF N
    <2> QED BY <1>10 DEF Nth
  <1>12. \A i \in S : rank[i] \in 1..N /\ Nth(S, rank[i]) = i
    <2> HIDE DEF rank, N
    <2> QED BY <1>5, <1>6, <1>11
  <1> HIDE DEF rank
  <1> QED BY <1>11, <1>12

\* Deleting a message of a sequence deletes it of the set.
LEMMA WithoutIs ==
    ASSUME NEW ms \in Seq(Message), NEW id
    PROVE  /\ Without(ms, id) \in Seq(Message)
           /\ ToSet(Without(ms, id)) = {m \in ToSet(ms) : m.id # id}
  <1> DEFINE kept == {i \in DOMAIN ms : ms[i].id # id}
             out == [k \in 1..Cardinality(kept) |-> ms[Nth(kept, k)]]
  <1>1. Without(ms, id) = out
    BY DEF Without
  <1>2. Len(ms) \in Nat /\ DOMAIN ms = 1..Len(ms)
    BY LenProperties
  <1>3. IsFiniteSet(DOMAIN ms)
    BY <1>2, FS_Interval
  <1>4. kept \in SUBSET Int /\ IsFiniteSet(kept)
    BY <1>2, <1>3, FS_Subset
  <1>5. Cardinality(kept) \in Nat
    BY <1>4, FS_CardinalityType
  <1>6. \A i \in kept : i \in DOMAIN ms /\ ms[i] \in Message /\ ms[i].id # id
    BY ElementOfSeq, <1>2
  <1>7. /\ \A k \in 1..Cardinality(kept) : Nth(kept, k) \in kept
        /\ \A i \in kept : \E k \in 1..Cardinality(kept) : Nth(kept, k) = i
    <2> HIDE DEF kept
    <2> QED BY <1>4, NthNames
  <1>8. out \in Seq(Message)
    <2> HIDE DEF kept
    <2>1. out \in [1..Cardinality(kept) -> Message]
      BY <1>6, <1>7
    <2> QED BY <1>5, <2>1, SeqDef
  <1>9. \A i \in DOMAIN ms : ms[i].id # id => i \in kept
    OBVIOUS
  <1>10. ToSet(out) = {m \in ToSet(ms) : m.id # id}
    <2> HIDE DEF kept
    <2>1. \A m \in ToSet(out) : m \in ToSet(ms) /\ m.id # id
      BY <1>6, <1>7 DEF ToSet
    <2>2. ASSUME NEW m \in ToSet(ms), m.id # id PROVE m \in ToSet(out)
      <3>1. PICK i \in DOMAIN ms : ms[i] = m
        BY DEF ToSet
      <3>2. i \in kept
        BY <1>9, <2>2, <3>1
      <3>3. PICK k \in 1..Cardinality(kept) : Nth(kept, k) = i
        BY <1>7, <3>2
      <3> QED BY <3>1, <3>3 DEF ToSet
    <2> QED BY <2>1, <2>2
  <1> HIDE DEF out
  <1> QED BY <1>1, <1>8, <1>10

\* Editing a message of a sequence edits it in the set.
LEMMA EditedIs ==
    ASSUME NEW ms \in Seq(Message), NEW id \in 1..MaxRequests, NEW n \in 1..MaxRequests
    PROVE  /\ Edited(ms, id, n) \in Seq(Message)
           /\ ToSet(Edited(ms, id, n)) = Retold(ToSet(ms), id, n)
  <1> DEFINE out == Edited(ms, id, n)
             It == [id |-> id, text |-> n]
  <1>1. Len(ms) \in Nat /\ DOMAIN ms = 1..Len(ms) /\ \A i \in DOMAIN ms : ms[i] \in Message
    BY LenProperties, ElementOfSeq
  <1>2. DOMAIN out = DOMAIN ms /\ \A i \in DOMAIN ms :
            out[i] = IF ms[i].id = id THEN It ELSE ms[i]
    <2>1. \A i \in DOMAIN ms : ms[i].id = id => [ms[i] EXCEPT !.text = n] = It
      BY <1>1 DEF Message
    <2> QED BY <2>1 DEF Edited
  <1>3. It \in Message
    BY DEF Message
  <1>4. out = [i \in DOMAIN ms |-> out[i]]
    BY DEF Edited
  <1> HIDE DEF out
  <1>5. out \in Seq(Message)
    <2>1. out \in [1..Len(ms) -> Message]
      BY <1>1, <1>2, <1>3, <1>4
    <2> QED BY <1>1, <2>1, SeqDef
  <1>6. Retold(ToSet(ms), id, n) = {m \in ToSet(ms) : m.id # id} \cup {It : m \in {x \in ToSet(ms) : x.id = id}}
    BY DEF Retold
  <1> HIDE DEF It
  <1>7. ToSet(out) = {m \in ToSet(ms) : m.id # id} \cup {It : m \in {x \in ToSet(ms) : x.id = id}}
    <2>1. \A i \in DOMAIN ms : out[i] \in {m \in ToSet(ms) : m.id # id} \cup {It : m \in {x \in ToSet(ms) : x.id = id}}
      BY <1>2 DEF ToSet
    <2>2. \A m \in ToSet(ms) : m.id # id => m \in ToSet(out)
      BY <1>2 DEF ToSet
    <2>3. \A m \in ToSet(ms) : m.id = id => It \in ToSet(out)
      BY <1>2 DEF ToSet
    <2>4. \A m \in ToSet(out) : \E i \in DOMAIN ms : m = out[i]
      BY <1>2 DEF ToSet
    <2> QED BY <2>1, <2>2, <2>3, <2>4
  <1> QED BY <1>5, <1>6, <1>7 DEF out

\* Appending a message adds it to the set.
LEMMA AppendIs ==
    ASSUME NEW ms \in Seq(Message), NEW m \in Message
    PROVE  /\ Append(ms, m) \in Seq(Message)
           /\ ToSet(Append(ms, m)) = ToSet(ms) \cup {m}
  <1>1. Len(ms) \in Nat /\ DOMAIN ms = 1..Len(ms)
    BY LenProperties
  <1>2. /\ Append(ms, m) \in Seq(Message)
        /\ Len(Append(ms, m)) = Len(ms) + 1
        /\ \A i \in 1..Len(ms) : Append(ms, m)[i] = ms[i]
        /\ Append(ms, m)[Len(ms) + 1] = m
    BY AppendProperties
  <1>3. DOMAIN Append(ms, m) = 1..(Len(ms) + 1)
    BY <1>2, LenProperties
  <1> QED BY <1>1, <1>2, <1>3 DEF ToSet

\* Reading may reorder the messages, and nothing else.
LEMMA AsReadIs ==
    ASSUME NEW inc \in Incident, NEW x \in AsRead(inc)
    PROVE  x \in Incident /\ x.state = inc.state /\ ToSet(x.messages) = ToSet(inc.messages)
  <1>1. CASE kind = "local"
    BY <1>1 DEF AsRead
  <1>2. CASE kind # "local"
    <2> DEFINE ms == inc.messages
    <2>1. ms \in Seq(Message)
      BY DEF Incident
    <2> HIDE DEF ms
    <2>2. PICK s \in NewestFirst(ms) : x = [inc EXCEPT !.messages = s]
      BY <1>2 DEF AsRead, ms
    <2>3. PICK p \in Bijection(DOMAIN ms, DOMAIN ms) : s = [i \in DOMAIN ms |-> ms[p[i]]]
      BY <2>2 DEF NewestFirst
    <2>4. /\ p \in [DOMAIN ms -> DOMAIN ms]
          /\ \A j \in DOMAIN ms : \E i \in DOMAIN ms : p[i] = j
      BY <2>3 DEF Bijection, Surjection
    <2>5. Len(ms) \in Nat /\ DOMAIN ms = 1..Len(ms) /\ \A i \in DOMAIN ms : ms[i] \in Message
      BY <2>1, LenProperties, ElementOfSeq
    <2>6. s \in Seq(Message)
      <3>1. s \in [1..Len(ms) -> Message]
        BY <2>3, <2>4, <2>5
      <3> QED BY <2>5, <3>1, SeqDef
    <2>7. ToSet(s) = ToSet(ms)
      BY <2>3, <2>4 DEF ToSet
    <2>8. x \in Incident /\ x.state = inc.state /\ x.messages = s
      BY <2>2, <2>6 DEF Incident
    <2> QED BY <2>7, <2>8 DEF ms
  <1> QED BY <1>1, <1>2

\* What a handler makes of an incident is one.
LEMMA EffectType ==
    ASSUME NEW inc \in Incident, NEW r \in Requests
    PROVE  /\ Effect(inc, r) \in Incident
           /\ r.op # "delete" /\ inc.state \in States => Effect(inc, r).state \in States
           /\ r.op = "notify" => Effect(inc, r).state = inc.state
  <1>1. inc.state \in States \cup {"cancelled"} /\ inc.messages \in Seq(Message)
    BY DEF Incident
  <1>2. Fresh(r.n) \in Message
    BY RequestFields DEF Fresh, Message
  <1>3. CASE r.op = "update"
    <2> DEFINE st == IF r.state = None THEN inc.state ELSE r.state
    <2>1. Effect(inc, r) = [state |-> st, messages |-> Revised(inc.messages, r)]
      BY <1>3 DEF Effect
    <2>2. st \in States \cup {"cancelled"} /\ (inc.state \in States => st \in States)
      BY <1>1, <1>3, RequestFields
    <2>3. Revised(inc.messages, r) \in Seq(Message)
      <3>1. CASE r.messages = "edit"
        BY <1>1, <1>3, <3>1, RequestFields, EditedIs DEF Revised
      <3>2. CASE r.messages = "one"
        BY <1>2, <3>2 DEF Revised
      <3>3. CASE r.messages \in {"keep", "none"}
        BY <1>1, <3>3 DEF Revised
      <3> QED BY <1>3, <3>1, <3>2, <3>3, RequestFields
    <2> HIDE DEF st
    <2> QED BY <1>3, <2>1, <2>2, <2>3 DEF Incident
  <1>4. CASE r.op = "delete"
    BY <1>1, <1>4 DEF Effect, Incident
  <1>5. CASE r.op = "addMessage"
    <2>1. Append(inc.messages, Fresh(r.n)) \in Seq(Message)
      BY <1>1, <1>2, AppendIs
    <2> QED BY <1>1, <1>5, <2>1 DEF Effect, Incident
  <1>6. CASE r.op = "updateMessage"
    <2>1. Edited(inc.messages, r.id, r.n) \in Seq(Message)
      BY <1>1, <1>6, RequestFields, EditedIs
    <2> QED BY <1>1, <1>6, <2>1 DEF Effect, Incident
  <1>7. CASE r.op = "deleteMessage"
    <2>1. Without(inc.messages, r.id) \in Seq(Message)
      BY <1>1, WithoutIs
    <2> QED BY <1>1, <1>7, <2>1 DEF Effect, Incident
  <1>8. CASE r.op = "notify"
    BY <1>8 DEF Effect
  <1> QED BY <1>3, <1>4, <1>5, <1>6, <1>7, <1>8, RequestFields

\* What a handler makes of its copy is what the client is promised of it: the
\* order of the messages plays no part.
LEMMA EffectPromise ==
    ASSUME NEW inc \in Incident, inc.state \in States,
           NEW r \in Requests, r.op \notin {"notify", "delete"}
    PROVE  /\ PromiseOf(Effect(inc, r)) = Promise(PromiseOf(inc), r)
           /\ PromiseOf(inc) \in Known
  <1> DEFINE ms == inc.messages
             p == [state |-> inc.state, messages |-> ToSet(ms)]
  <1>1. inc # None /\ ms \in Seq(Message)
    BY NoneAssumption DEF Incident
  <1>2. PromiseOf(inc) = p
    BY <1>1 DEF PromiseOf
  <1>3. Effect(inc, r) \in Incident /\ Effect(inc, r) # None
    BY EffectType, NoneAssumption
  <1>4. Fresh(r.n) \in Message
    BY RequestFields DEF Fresh, Message
  <1>5. ToSet(ms) \in SUBSET Message
    BY <1>1, ElementOfSeq, LenProperties DEF ToSet
  <1>6. p \in Known /\ p # None /\ p.state = inc.state /\ p.messages = ToSet(ms)
    BY <1>5, NoneAssumption DEF Known
  <1>7. PromiseOf(Effect(inc, r)) = [state |-> Effect(inc, r).state, messages |-> ToSet(Effect(inc, r).messages)]
    BY <1>3 DEF PromiseOf
  <1> HIDE DEF p
  <1>8. CASE r.op = "update"
    <2> DEFINE st == IF r.state = None THEN inc.state ELSE r.state
               sm == CASE r.messages = "keep" -> p.messages
                       [] r.messages = "none" -> {}
                       [] r.messages = "one"  -> {Fresh(r.n)}
                       [] r.messages = "edit" -> Retold(p.messages, r.id, r.n)
    <2>1. Effect(inc, r) = [state |-> st, messages |-> Revised(ms, r)]
      BY <1>8 DEF Effect
    <2>2. Promise(p, r) = [state |-> st, messages |-> sm]
      BY <1>6, <1>8 DEF Promise
    <2>3. ToSet(Revised(ms, r)) = sm
      <3>1. CASE r.messages = "edit"
        BY <1>1, <1>6, <1>8, <3>1, RequestFields, EditedIs DEF Revised
      <3>2. CASE r.messages = "one"
        BY <3>2 DEF Revised, ToSet
      <3>3. CASE r.messages = "none"
        BY <3>3 DEF Revised, ToSet
      <3>4. CASE r.messages = "keep"
        BY <1>6, <3>4 DEF Revised
      <3> QED BY <1>8, <3>1, <3>2, <3>3, <3>4, RequestFields
    <2> HIDE DEF st, sm, ms
    <2>4. Effect(inc, r).state = st /\ Effect(inc, r).messages = Revised(ms, r)
      BY <2>1
    <2> QED BY <1>2, <1>6, <1>7, <2>2, <2>3, <2>4
  <1>9. CASE r.op = "addMessage"
    <2>1. Effect(inc, r).state = inc.state /\ Effect(inc, r).messages = Append(ms, Fresh(r.n))
      BY <1>9 DEF Effect, Incident
    <2>2. Promise(p, r) = [p EXCEPT !.messages = p.messages \cup {Fresh(r.n)}]
      BY <1>6, <1>9 DEF Promise
    <2>3. Promise(p, r) = [state |-> inc.state, messages |-> ToSet(ms) \cup {Fresh(r.n)}]
      BY <1>6, <2>2 DEF p
    <2>4. ToSet(Append(ms, Fresh(r.n))) = ToSet(ms) \cup {Fresh(r.n)}
      BY <1>1, <1>4, AppendIs
    <2> QED BY <1>2, <1>6, <1>7, <2>1, <2>3, <2>4
  <1>10. CASE r.op = "updateMessage"
    <2>1. Effect(inc, r).state = inc.state /\ Effect(inc, r).messages = Edited(ms, r.id, r.n)
      BY <1>10 DEF Effect, Incident
    <2>2. Promise(p, r) = [p EXCEPT !.messages = Retold(p.messages, r.id, r.n)]
      BY <1>6, <1>10 DEF Promise
    <2>3. Promise(p, r) = [state |-> inc.state, messages |-> Retold(ToSet(ms), r.id, r.n)]
      BY <1>6, <2>2 DEF p
    <2>4. ToSet(Edited(ms, r.id, r.n)) = Retold(ToSet(ms), r.id, r.n)
      BY <1>1, <1>10, RequestFields, EditedIs
    <2> QED BY <1>2, <1>6, <1>7, <2>1, <2>3, <2>4
  <1>11. CASE r.op = "deleteMessage"
    <2>1. Effect(inc, r).state = inc.state /\ Effect(inc, r).messages = Without(ms, r.id)
      BY <1>11 DEF Effect, Incident
    <2>2. Promise(p, r) = [p EXCEPT !.messages = {m \in p.messages : m.id # r.id}]
      BY <1>6, <1>11 DEF Promise
    <2>3. Promise(p, r) = [state |-> inc.state, messages |-> {m \in ToSet(ms) : m.id # r.id}]
      BY <1>6, <2>2 DEF p
    <2>4. ToSet(Without(ms, r.id)) = {m \in ToSet(ms) : m.id # r.id}
      BY <1>1, WithoutIs
    <2> QED BY <1>2, <1>6, <1>7, <2>1, <2>3, <2>4
  <1> QED BY <1>2, <1>6, <1>8, <1>9, <1>10, <1>11, RequestFields

-----------------------------------------------------------------------------
(* Types *)

\* The handlers at work, and those that have a copy to write.
Busy    == {h \in Handlers : call[h].pc # "idle"}
Writing == {h \in Handlers : call[h].pc = "write"}

\* A handler about to write has a request that writes.
Writers == \A h \in Writing : call[h].req \in Requests /\ call[h].req.op # "notify"

\* A request makes one write, one event, one call of Notify and one creation,
\* and a creation arrives once.
Counted ==
    /\ IsFiniteSet(Busy) /\ IsFiniteSet(late)
    /\ version + Cardinality(Writing) <= env.requests
    /\ made + (IF pc = "idle" THEN 0 ELSE 1) + Len(chan) + Cardinality(Busy) <= env.requests
    /\ arrived + Cardinality(late) <= made

TypeInv == TypeOK /\ Writers /\ Counted

\* Of two counts of handlers, the one of the writers is the smaller.
LEMMA Counts ==
    ASSUME IsFiniteSet(Busy)
    PROVE  /\ IsFiniteSet(Writing) /\ Cardinality(Writing) \in Nat /\ Cardinality(Busy) \in Nat
           /\ Writing \subseteq Busy /\ Cardinality(Writing) <= Cardinality(Busy)
  <1>1. Writing \in SUBSET Busy
    BY DEF Writing, Busy
  <1> QED BY <1>1, FS_Subset, FS_CardinalityType

\* A handler that goes to rest.
LEMMA Rests ==
    ASSUME TypeInv, NEW h \in Handlers, call' = [call EXCEPT ![h] = AtRest]
    PROVE  /\ call' \in [Handlers -> Call] /\ Writers'
           /\ \A x \in Handlers : call'[x].pc # "idle" => call'[x].req # None /\ call'[x].copy # None
           /\ IsFiniteSet(Busy') /\ Cardinality(Writing') \in Nat /\ Cardinality(Busy') \in Nat
           /\ Cardinality(Writing') = Cardinality(Writing) - (IF call[h].pc = "write" THEN 1 ELSE 0)
           /\ Cardinality(Busy') = Cardinality(Busy) - (IF call[h].pc # "idle" THEN 1 ELSE 0)
  <1>1. AtRest \in Call
    <2>1. 0 \in 0..MaxRequests
      BY ApiAssumption
    <2> QED BY <2>1 DEF AtRest, Call
  <1>2. call \in [Handlers -> Call]
    BY DEF TypeInv, TypeOK, ApiTypeOK
  <1>3. Writing' = Writing \ {h} /\ Busy' = Busy \ {h}
    BY <1>2 DEF Writing, Busy, AtRest
  <1>4. h \in Writing <=> call[h].pc = "write"
    BY DEF Writing
  <1>5. h \in Busy <=> call[h].pc # "idle"
    BY DEF Busy
  <1>6. IsFiniteSet(Busy) /\ IsFiniteSet(Writing)
    BY Counts DEF TypeInv, Counted
  <1>7. Writers'
    BY <1>2, <1>3 DEF TypeInv, Writers, Writing
  <1>8. \A x \in Handlers : call'[x].pc # "idle" => call'[x].req # None /\ call'[x].copy # None
    BY <1>2 DEF TypeInv, TypeOK, ApiTypeOK, AtRest
  <1>9. call' \in [Handlers -> Call]
    BY <1>1, <1>2
  <1> QED BY <1>3, <1>4, <1>5, <1>6, <1>7, <1>8, <1>9, OneLess

\* What the inequalities say before the first request.
LEMMA Unused ==
    ASSUME TypeInv, env.requests = 0
    PROVE  /\ Busy = {} /\ Writing = {} /\ version = 0 /\ made = 0 /\ pc = "idle" /\ Len(chan) = 0
           /\ arrived = 0
  <1>1. /\ Cardinality(Writing) \in Nat /\ Cardinality(Busy) \in Nat /\ Writing \subseteq Busy
        /\ version \in Nat /\ made \in Nat /\ Len(chan) \in Nat /\ IsFiniteSet(Busy)
        /\ arrived \in Nat /\ Cardinality(late) \in Nat
    BY Counts, FS_CardinalityType, LenProperties, ApiAssumption DEF TypeInv, Counted, TypeOK, ApiTypeOK
  <1>2. version = 0 /\ made = 0 /\ pc = "idle" /\ Len(chan) = 0 /\ Cardinality(Busy) = 0
    BY <1>1 DEF TypeInv, Counted
  <1>3. Busy = {}
    BY <1>1, <1>2, FS_EmptySet
  <1>4. arrived = 0
    BY <1>1, <1>2 DEF TypeInv, Counted
  <1> QED BY <1>1, <1>2, <1>3, <1>4

\* The first state has its types.
LEMMA TypeInit == Init => TypeInv
  <1> SUFFICES ASSUME Init PROVE TypeInv
    OBVIOUS
  <1>1. Busy = {} /\ Writing = {} /\ late = {}
    BY DEF Init, ApiInit, Busy, Writing, AtRest
  <1>2. 0 \in 0..MaxRequests /\ 0 \in 0..MaxFaults /\ 0 \in 0..MaxCrashes
    BY ApiAssumption
  <1>3. AtRest \in Call
    BY <1>2 DEF AtRest, Call
  <1>4. ApiTypeOK
    <2>1. call \in [Handlers -> Call]
      BY <1>3 DEF Init, ApiInit
    <2>2. \A h \in Handlers : call[h].pc = "idle"
      BY DEF Init, ApiInit, AtRest
    <2>3. chan \in Seq(Event) /\ Len(chan) <= Cap
      BY ApiAssumption, EmptySeq DEF Init, ApiInit
    <2> QED BY <1>2, <2>1, <2>2, <2>3 DEF Init, ApiInit, ApiTypeOK
  <1>5. TypeOK
    BY <1>2, <1>4 DEF Init, TypeOK
  <1>6. Counted
    BY <1>1, FS_EmptySet DEF Init, ApiInit, Counted
  <1>7. Writers
    BY <1>1 DEF Writers
  <1> QED BY <1>5, <1>6, <1>7 DEF TypeInv

\* The first request finds nobody at work, and is the only one.
LEMMA CreateType == \A h \in Handlers : TypeInv /\ Create(h) /\ UNCHANGED grafanaVars => TypeInv'
  <1> SUFFICES ASSUME NEW h \in Handlers, TypeInv, Create(h), UNCHANGED grafanaVars PROVE TypeInv'
    OBVIOUS
  <1>1. PICK s \in States :
            /\ stored' = [state |-> s, messages |-> <<Fresh(1)>>]
            /\ promised' = PromiseOf(stored')
            /\ call' = [call EXCEPT ![h] = [pc |-> "emit", req |-> Creation, copy |-> stored', seen |-> 1]]
    BY DEF Create
  <1>2. 1 \in 1..MaxRequests /\ 1 \in 0..MaxRequests
    BY ApiAssumption DEF Create
  <1>3. Fresh(1) \in Message
    BY <1>2 DEF Fresh, Message
  <1>4. stored' \in Incident /\ stored' # None
    <2>1. <<Fresh(1)>> \in Seq(Message)
      BY <1>3
    <2>2. stored' \in Incident
      BY <1>1, <2>1 DEF Incident
    <2> QED BY <2>2, NoneAssumption
  <1>5. promised' \in Known
    <2>1. ToSet(<<Fresh(1)>>) \in SUBSET Message
      BY <1>3 DEF ToSet
    <2> QED BY <1>1, <1>4, <2>1 DEF PromiseOf, Known
  <1>6. call \in [Handlers -> Call]
    BY DEF TypeInv, TypeOK, ApiTypeOK
  <1>7. [pc |-> "emit", req |-> Creation, copy |-> stored', seen |-> 1] \in Call
    BY <1>2, <1>4 DEF Call
  <1>8. Busy = {} /\ Writing = {} /\ version = 0 /\ made = 0 /\ pc = "idle" /\ Len(chan) = 0 /\ arrived = 0
    BY Unused DEF Create
  <1>9. Busy' = {h} /\ Writing' = {}
    BY <1>1, <1>6, <1>8 DEF Busy, Writing
  <1>10. ApiTypeOK'
    <2>1. call' \in [Handlers -> Call]
      BY <1>1, <1>6, <1>7
    <2>2. \A x \in Handlers : call'[x].pc # "idle" => call'[x].req # None /\ call'[x].copy # None
      BY <1>1, <1>4, <1>6, NoneAssumption DEF TypeInv, TypeOK, ApiTypeOK
    <2>3. UNCHANGED <<kind, chan, raced>> /\ version' = 1 /\ env' = [env EXCEPT !.requests = 1]
      BY DEF Create
    <2> QED BY <1>2, <1>4, <1>5, <2>1, <2>2, <2>3 DEF TypeInv, TypeOK, ApiTypeOK
  <1>11. TypeOK'
    BY <1>10 DEF TypeInv, TypeOK, grafanaVars
  <1>12. Counted'
    <2>1. IsFiniteSet({h}) /\ Cardinality({h}) = 1 /\ IsFiniteSet({}) /\ Cardinality({}) = 0
      BY FS_Singleton, FS_EmptySet
    <2>2. env'.requests = 1
      BY DEF Create, TypeInv, TypeOK, ApiTypeOK
    <2>3. UNCHANGED <<late, made, pc, chan, arrived>> /\ version' = 1
      BY DEF Create, grafanaVars
    <2> QED BY <1>8, <1>9, <2>1, <2>2, <2>3 DEF TypeInv, Counted
  <1>13. Writers'
    BY <1>9 DEF Writers
  <1> QED BY <1>11, <1>12, <1>13 DEF TypeInv

\* A handler that starts has a request and a copy, and is one more at work.
LEMMA BeginType == \A h \in Handlers : TypeInv /\ Begin(h) /\ UNCHANGED grafanaVars => TypeInv'
  <1> SUFFICES ASSUME NEW h \in Handlers, TypeInv, Begin(h), UNCHANGED grafanaVars PROVE TypeInv'
    OBVIOUS
  <1>1. PICK r \in RequestsOf(env.requests + 1), inc \in AsRead(stored) :
            call' = [call EXCEPT ![h] = [pc |-> IF r.op = "notify" THEN "emit" ELSE "write", req |-> r,
                                         copy |-> Effect(inc, r), seen |-> version]]
    BY DEF Begin
  <1>2. env.requests \in Nat /\ env.requests + 1 \in 1..MaxRequests
    BY ApiAssumption DEF Begin
  <1>3. r \in Requests /\ r # None
    <2>1. r \in Requests
      BY <1>1, <1>2 DEF Requests
    <2> QED BY <2>1, NoneAssumption
  <1>4. inc \in Incident
    BY <1>1, AsReadIs DEF Begin, TypeInv, TypeOK, ApiTypeOK
  <1>5. Effect(inc, r) \in Incident /\ Effect(inc, r) # None
    BY <1>3, <1>4, EffectType, NoneAssumption
  <1>6. call \in [Handlers -> Call] /\ version \in 0..MaxRequests
    BY DEF TypeInv, TypeOK, ApiTypeOK
  <1> DEFINE at == IF r.op = "notify" THEN "emit" ELSE "write"
             new == [pc |-> at, req |-> r, copy |-> Effect(inc, r), seen |-> version]
  <1>7. at \in {"emit", "write"} /\ (at = "write" <=> r.op # "notify")
    OBVIOUS
  <1> HIDE DEF at
  <1>8. new \in Call /\ new.pc = at /\ new.req = r /\ new.copy = Effect(inc, r)
    BY <1>3, <1>5, <1>6, <1>7 DEF Call
  <1>9. call' = [call EXCEPT ![h] = new]
    BY <1>1 DEF at
  <1> HIDE DEF new
  <1>10. Busy' = Busy \cup {h}
    BY <1>6, <1>7, <1>8, <1>9 DEF Busy
  <1>11. Writing' = Writing \/ Writing' = Writing \cup {h}
    <2>1. h \notin Writing
      BY DEF Begin, Writing
    <2> QED BY <1>6, <1>7, <1>8, <1>9, <2>1 DEF Writing
  <1>12. ApiTypeOK'
    <2>1. call' \in [Handlers -> Call]
      BY <1>6, <1>8, <1>9
    <2>2. \A x \in Handlers : call'[x].pc # "idle" => call'[x].req # None /\ call'[x].copy # None
      BY <1>3, <1>5, <1>6, <1>8, <1>9 DEF TypeInv, TypeOK, ApiTypeOK
    <2>3. /\ UNCHANGED <<kind, stored, version, chan, promised, raced>>
          /\ env' = [env EXCEPT !.requests = env.requests + 1]
      BY DEF Begin
    <2>4. env.requests + 1 \in 0..MaxRequests
      BY <1>2
    <2> QED BY <2>1, <2>2, <2>3, <2>4 DEF TypeInv, TypeOK, ApiTypeOK
  <1>13. TypeOK'
    BY <1>12 DEF TypeInv, TypeOK, grafanaVars
  <1>14. Writers'
    BY <1>3, <1>6, <1>7, <1>8, <1>9, <1>11 DEF TypeInv, Writers, Writing
  <1>15. Counted'
    <2>1. /\ IsFiniteSet(Busy) /\ IsFiniteSet(Writing) /\ Cardinality(Writing) \in Nat /\ Cardinality(Busy) \in Nat
      BY Counts DEF TypeInv, Counted
    <2>2. /\ IsFiniteSet(Busy') /\ Cardinality(Busy') \in Nat /\ Cardinality(Busy') <= Cardinality(Busy) + 1
      BY <1>10, <2>1, OneMore
    <2>3. /\ Cardinality(Writing') \in Nat /\ Cardinality(Writing') <= Cardinality(Writing) + 1
      <3>1. CASE Writing' = Writing
        BY <2>1, <3>1
      <3>2. CASE Writing' = Writing \cup {h}
        BY <2>1, <3>2, OneMore
      <3> QED BY <1>11, <3>1, <3>2
    <2>4. env'.requests = env.requests + 1
      BY DEF Begin, TypeInv, TypeOK, ApiTypeOK
    <2>5. UNCHANGED <<late, made, pc, chan, arrived, version>>
      BY DEF Begin, grafanaVars
    <2>6. version \in Nat /\ made \in Nat /\ Len(chan) \in Nat
      BY ApiAssumption, LenProperties DEF TypeInv, TypeOK, ApiTypeOK
    <2>7. env.requests \in Nat
      BY <1>2
    <2>8. version' + Cardinality(Writing') <= env'.requests
      <3>1. version + Cardinality(Writing) <= env.requests /\ version' = version
        BY <2>5 DEF TypeInv, Counted
      <3> QED BY <2>1, <2>3, <2>4, <2>6, <2>7, <3>1
    <2>9. made' + (IF pc' = "idle" THEN 0 ELSE 1) + Len(chan') + Cardinality(Busy') <= env'.requests
      <3>1. made + (IF pc = "idle" THEN 0 ELSE 1) + Len(chan) + Cardinality(Busy) <= env.requests
        BY DEF TypeInv, Counted
      <3>2. made' = made /\ pc' = pc /\ chan' = chan
        BY <2>5
      <3> QED BY <2>1, <2>2, <2>4, <2>6, <2>7, <3>1, <3>2
    <2>10. IsFiniteSet(late') /\ arrived' + Cardinality(late') <= made'
      BY <2>5 DEF TypeInv, Counted
    <2> QED BY <2>2, <2>8, <2>9, <2>10 DEF Counted
  <1> QED BY <1>13, <1>14, <1>15 DEF TypeInv

\* A handler that answers an error is one less at work.
LEMMA FailType == \A h \in Handlers : TypeInv /\ (Fail(h) \/ NotFound(h)) /\ UNCHANGED grafanaVars => TypeInv'
  <1> SUFFICES ASSUME NEW h \in Handlers, TypeInv, Fail(h) \/ NotFound(h), UNCHANGED grafanaVars PROVE TypeInv'
    OBVIOUS
  <1>1. /\ call' = [call EXCEPT ![h] = AtRest]
        /\ UNCHANGED <<kind, stored, version, chan, promised, raced>>
    BY DEF Fail, NotFound
  <1>2. /\ env' \in [requests : 0..MaxRequests, faults : 0..MaxFaults, crashes : 0..MaxCrashes]
        /\ env'.requests = env.requests
    <2>1. CASE Fail(h)
      <3>1. env.faults + 1 \in 0..MaxFaults
        BY <2>1, ApiAssumption DEF Fail, TypeInv, TypeOK, ApiTypeOK
      <3> QED BY <2>1, <3>1 DEF Fail, TypeInv, TypeOK, ApiTypeOK
    <2>2. CASE NotFound(h)
      BY <2>2 DEF NotFound, TypeInv, TypeOK, ApiTypeOK
    <2> QED BY <2>1, <2>2
  <1>3. /\ call' \in [Handlers -> Call] /\ Writers'
        /\ \A x \in Handlers : call'[x].pc # "idle" => call'[x].req # None /\ call'[x].copy # None
        /\ IsFiniteSet(Busy') /\ Cardinality(Writing') \in Nat /\ Cardinality(Busy') \in Nat
        /\ Cardinality(Writing') = Cardinality(Writing) - (IF call[h].pc = "write" THEN 1 ELSE 0)
        /\ Cardinality(Busy') = Cardinality(Busy) - (IF call[h].pc # "idle" THEN 1 ELSE 0)
    BY <1>1, Rests
  <1>4. ApiTypeOK'
    BY <1>1, <1>2, <1>3 DEF TypeInv, TypeOK, ApiTypeOK
  <1>5. TypeOK'
    BY <1>4 DEF TypeInv, TypeOK, grafanaVars
  <1>6. Counted'
    <2>1. UNCHANGED <<late, made, pc, chan, arrived, version>>
      BY <1>1 DEF grafanaVars
    <2>2. /\ version \in Nat /\ made \in Nat /\ Len(chan) \in Nat /\ env.requests \in Nat
          /\ Cardinality(Writing) \in Nat /\ Cardinality(Busy) \in Nat
      BY Counts, ApiAssumption, LenProperties DEF TypeInv, Counted, TypeOK, ApiTypeOK
    <2>3. Cardinality(Busy') <= Cardinality(Busy) /\ Cardinality(Writing') <= Cardinality(Writing)
      BY <1>3, <2>2
    <2>4. /\ IsFiniteSet(Busy') /\ Cardinality(Writing') \in Nat /\ Cardinality(Busy') \in Nat
          /\ env'.requests = env.requests
      BY <1>2, <1>3
    <2>5. version' + Cardinality(Writing') <= env'.requests
      <3>1. version + Cardinality(Writing) <= env.requests /\ version' = version
        BY <2>1 DEF TypeInv, Counted
      <3> QED BY <2>2, <2>3, <2>4, <3>1
    <2>6. made' + (IF pc' = "idle" THEN 0 ELSE 1) + Len(chan') + Cardinality(Busy') <= env'.requests
      <3>1. made + (IF pc = "idle" THEN 0 ELSE 1) + Len(chan) + Cardinality(Busy) <= env.requests
        BY DEF TypeInv, Counted
      <3>2. made' = made /\ pc' = pc /\ chan' = chan
        BY <2>1
      <3> QED BY <2>2, <2>3, <2>4, <3>1, <3>2
    <2>7. IsFiniteSet(late') /\ arrived' + Cardinality(late') <= made'
      BY <2>1 DEF TypeInv, Counted
    <2> QED BY <2>4, <2>5, <2>6, <2>7 DEF Counted
  <1> QED BY <1>3, <1>5, <1>6 DEF TypeInv

\* A write is one more version, and one handler less that has one to write.
LEMMA WriteType == \A h \in Handlers : TypeInv /\ Write(h) /\ UNCHANGED grafanaVars => TypeInv'
  <1> SUFFICES ASSUME NEW h \in Handlers, TypeInv, Write(h), UNCHANGED grafanaVars PROVE TypeInv'
    OBVIOUS
  <1> DEFINE r == call[h].req
             copy == call[h].copy
             new == [call[h] EXCEPT !.pc = "emit", !.seen = version']
  <1>1. call \in [Handlers -> Call] /\ call[h] \in Call /\ h \in Writing /\ h \in Busy
    BY DEF TypeInv, TypeOK, ApiTypeOK, Write, Writing, Busy
  <1>2. r \in Requests /\ r.op # "notify" /\ r # None /\ copy \in Incident /\ copy # None
    BY <1>1 DEF TypeInv, TypeOK, ApiTypeOK, Writers, Write, Call
  <1>3. /\ version \in Nat /\ made \in Nat /\ Len(chan) \in Nat /\ env.requests \in 0..MaxRequests
        /\ Cardinality(Writing) \in Nat /\ Cardinality(Busy) \in Nat /\ IsFiniteSet(Writing) /\ IsFiniteSet(Busy)
    BY Counts, ApiAssumption, LenProperties DEF TypeInv, Counted, TypeOK, ApiTypeOK
  <1>4. Cardinality(Writing \ {h}) \in Nat /\ Cardinality(Writing \ {h}) = Cardinality(Writing) - 1
    BY <1>1, <1>3, OneLess
  <1>5. version' = version + 1 /\ version' \in 0..MaxRequests
    <2>1. version + Cardinality(Writing) <= env.requests
      BY DEF TypeInv, Counted
    <2>2. version' = version + 1
      BY DEF Write
    <2> QED BY <1>3, <1>4, <2>1, <2>2, ApiAssumption
  <1>6. new \in Call /\ new.pc = "emit" /\ new.req = r /\ new.copy = copy
    BY <1>1, <1>5 DEF Call
  <1>7. call' = [call EXCEPT ![h] = AtRest] \/ call' = [call EXCEPT ![h] = new]
    BY DEF Write
  <1> HIDE DEF new
  <1>8. /\ call' \in [Handlers -> Call] /\ Writers'
        /\ \A x \in Handlers : call'[x].pc # "idle" => call'[x].req # None /\ call'[x].copy # None
        /\ IsFiniteSet(Busy') /\ Cardinality(Writing') \in Nat /\ Cardinality(Busy') \in Nat
        /\ Cardinality(Writing') = Cardinality(Writing) - 1
        /\ Cardinality(Busy') <= Cardinality(Busy)
    <2>1. CASE call' = [call EXCEPT ![h] = AtRest]
      <3>1. call[h].pc = "write"
        BY DEF Write
      <3>2. /\ call' \in [Handlers -> Call] /\ Writers'
            /\ \A x \in Handlers : call'[x].pc # "idle" => call'[x].req # None /\ call'[x].copy # None
        BY <2>1, Rests
      <3>3. /\ IsFiniteSet(Busy') /\ Cardinality(Writing') \in Nat /\ Cardinality(Busy') \in Nat
            /\ Cardinality(Writing') = Cardinality(Writing) - 1
            /\ Cardinality(Busy') = Cardinality(Busy) - 1
        BY <2>1, <3>1, Rests
      <3>4. Cardinality(Busy') <= Cardinality(Busy)
        BY <1>3, <3>3
      <3> QED BY <3>2, <3>3, <3>4
    <2>2. CASE call' = [call EXCEPT ![h] = new]
      <3>1. Busy' = Busy /\ Writing' = Writing \ {h}
        BY <1>1, <1>6, <2>2 DEF Busy, Writing
      <3>2. \A x \in Handlers : call'[x].pc # "idle" => call'[x].req # None /\ call'[x].copy # None
        BY <1>1, <1>2, <1>6, <2>2 DEF TypeInv, TypeOK, ApiTypeOK
      <3>3. Writers'
        BY <1>1, <2>2, <3>1 DEF TypeInv, Writers
      <3>4. call' \in [Handlers -> Call]
        BY <1>1, <1>6, <2>2
      <3> QED BY <1>3, <1>4, <3>1, <3>2, <3>3, <3>4
    <2> QED BY <1>7, <2>1, <2>2
  <1> HIDE DEF r, copy
  <1>9. stored' \in Incident \cup {None}
    BY <1>2 DEF Write, Accepted, r, copy
  <1>10. promised' \in Known \cup {None}
    <2>1. promised' = Promise(promised, r) /\ promised \in Known \cup {None}
      BY DEF Write, r, TypeInv, TypeOK, ApiTypeOK
    <2>2. CASE promised = None \/ r.op = "delete"
      BY <2>1, <2>2 DEF Promise
    <2>3. CASE promised # None /\ r.op # "delete"
      BY <1>2, <2>1, <2>3, PromiseType
    <2> QED BY <2>2, <2>3
  <1>11. raced' \in BOOLEAN
    BY DEF Write, TypeInv, TypeOK, ApiTypeOK
  <1>12. UNCHANGED <<kind, chan, env>>
    BY DEF Write
  <1>13. ApiTypeOK'
    BY <1>5, <1>8, <1>9, <1>10, <1>11, <1>12 DEF TypeInv, TypeOK, ApiTypeOK
  <1>14. TypeOK'
    BY <1>13 DEF TypeInv, TypeOK, grafanaVars
  <1>15. Counted'
    <2>1. UNCHANGED <<late, made, pc, chan, arrived, env>>
      BY <1>12 DEF grafanaVars
    <2>2. version + Cardinality(Writing) <= env.requests
      BY DEF TypeInv, Counted
    <2>3. version' + Cardinality(Writing') <= env'.requests
      BY <1>3, <1>5, <1>8, <2>1, <2>2
    <2>4. made + (IF pc = "idle" THEN 0 ELSE 1) + Len(chan) + Cardinality(Busy) <= env.requests
      BY DEF TypeInv, Counted
    <2>5. made' + (IF pc' = "idle" THEN 0 ELSE 1) + Len(chan') + Cardinality(Busy') <= env'.requests
      BY <1>3, <1>8, <2>1, <2>4
    <2>6. IsFiniteSet(late') /\ arrived' + Cardinality(late') <= made'
      BY <2>1 DEF TypeInv, Counted
    <2> QED BY <1>8, <2>3, <2>5, <2>6 DEF Counted
  <1> QED BY <1>8, <1>14, <1>15 DEF TypeInv

\* What is emitted is an event.
LEMMA EmitType == \A h \in Handlers : TypeInv /\ Emit(h) /\ UNCHANGED grafanaVars => TypeInv'
  <1> SUFFICES ASSUME NEW h \in Handlers, TypeInv, Emit(h), UNCHANGED grafanaVars PROVE TypeInv'
    OBVIOUS
  <1> DEFINE e == [incident |-> call[h].copy, rev |-> call[h].seen, byUser |-> call[h].req.op \in {"notify", "delete"}]
  <1>1. call[h] \in Call /\ call[h].copy \in Incident /\ call[h].pc = "emit"
    BY DEF TypeInv, TypeOK, ApiTypeOK, Emit, Call
  <1>2. e \in Event
    BY <1>1 DEF Event, Call
  <1>3. /\ chan' = Append(chan, e) /\ Len(chan) < Cap /\ call' = [call EXCEPT ![h] = AtRest]
        /\ UNCHANGED <<kind, stored, version, env, promised, raced>>
    BY DEF Emit
  <1> HIDE DEF e
  <1>4. chan \in Seq(Event) /\ Len(chan) \in Nat
    BY LenProperties DEF TypeInv, TypeOK, ApiTypeOK
  <1>5. chan' \in Seq(Event) /\ Len(chan') = Len(chan) + 1
    BY <1>2, <1>3, <1>4, AppendProperties
  <1>6. Len(chan') <= Cap
    BY <1>3, <1>4, <1>5, ApiAssumption
  <1>7. /\ call' \in [Handlers -> Call] /\ Writers'
        /\ \A x \in Handlers : call'[x].pc # "idle" => call'[x].req # None /\ call'[x].copy # None
        /\ IsFiniteSet(Busy') /\ Cardinality(Writing') \in Nat /\ Cardinality(Busy') \in Nat
        /\ Cardinality(Writing') = Cardinality(Writing) - (IF call[h].pc = "write" THEN 1 ELSE 0)
        /\ Cardinality(Busy') = Cardinality(Busy) - (IF call[h].pc # "idle" THEN 1 ELSE 0)
    BY <1>3, Rests
  <1>8. ApiTypeOK'
    BY <1>3, <1>5, <1>6, <1>7 DEF TypeInv, TypeOK, ApiTypeOK
  <1>9. TypeOK'
    BY <1>8 DEF TypeInv, TypeOK, grafanaVars
  <1>10. Counted'
    <2>1. UNCHANGED <<late, made, pc, arrived, version, env>>
      BY <1>3 DEF grafanaVars
    <2>2. /\ version \in Nat /\ made \in Nat /\ env.requests \in Nat
          /\ Cardinality(Writing) \in Nat /\ Cardinality(Busy) \in Nat
      BY Counts, ApiAssumption DEF TypeInv, Counted, TypeOK, ApiTypeOK
    <2>3. Cardinality(Busy') = Cardinality(Busy) - 1 /\ Cardinality(Writing') = Cardinality(Writing)
      BY <1>1, <1>7, <2>2
    <2>4. IsFiniteSet(Busy') /\ IsFiniteSet(late')
      BY <1>7, <2>1 DEF TypeInv, Counted
    <2>5. version' + Cardinality(Writing') <= env'.requests
      BY <2>1, <2>3 DEF TypeInv, Counted
    <2>6. made' + (IF pc' = "idle" THEN 0 ELSE 1) + Len(chan') + Cardinality(Busy') <= env'.requests
      BY <1>4, <1>5, <2>1, <2>2, <2>3 DEF TypeInv, Counted
    <2> QED BY <2>1, <2>4, <2>5, <2>6 DEF TypeInv, Counted
  <1> QED BY <1>7, <1>9, <1>10 DEF TypeInv

\* Notify leaves the handlers alone.
LEMMA HandlersStay ==
    ASSUME UNCHANGED call
    PROVE  Busy' = Busy /\ Writing' = Writing /\ (Writers => Writers')
  <1>1. Busy' = Busy /\ Writing' = Writing
    BY DEF Busy, Writing
  <1> QED BY <1>1 DEF Writers

\* A failing call is one more, of those that may be.
LEMMA FaultyType ==
    ASSUME TypeInv, Faulty \/ UNCHANGED env
    PROVE  /\ env' \in [requests : 0..MaxRequests, faults : 0..MaxFaults, crashes : 0..MaxCrashes]
           /\ env'.requests = env.requests
  <1>1. env \in [requests : 0..MaxRequests, faults : 0..MaxFaults, crashes : 0..MaxCrashes]
    BY DEF TypeInv, TypeOK, ApiTypeOK
  <1>2. CASE Faulty
    <2>1. env.faults + 1 \in 0..MaxFaults
      BY <1>1, <1>2, ApiAssumption DEF Faulty
    <2> QED BY <1>1, <1>2, <2>1 DEF Faulty
  <1> QED BY <1>1, <1>2

\* The numbers in the inequalities.
LEMMA Numbers ==
    ASSUME TypeInv
    PROVE  /\ version \in Nat /\ made \in Nat /\ arrived \in Nat /\ Len(chan) \in Nat /\ env.requests \in 0..MaxRequests
           /\ Cardinality(Writing) \in Nat /\ Cardinality(Busy) \in Nat /\ Cardinality(late) \in Nat
           /\ IsFiniteSet(late) /\ IsFiniteSet(Busy)
  BY Counts, FS_CardinalityType, ApiAssumption, LenProperties DEF TypeInv, Counted, TypeOK, ApiTypeOK

\* An event taken from the channel is in the hands of Notify.
LEMMA DispatchType == TypeInv /\ Dispatch => TypeInv'
  <1> SUFFICES ASSUME TypeInv, Dispatch PROVE TypeInv'
    OBVIOUS
  <1>1. chan \in Seq(Event) /\ chan # <<>> /\ chan' = Tail(chan) /\ Len(chan) <= Cap
    BY DEF Dispatch, TypeInv, TypeOK, ApiTypeOK
  <1>2. /\ Head(chan) \in Event /\ chan' \in Seq(Event)
        /\ Len(chan') = Len(chan) - 1
    BY <1>1, HeadTailProperties
  <1>3. UNCHANGED <<kind, stored, version, call, env, promised, raced, found, annotations, late, made, arrived>>
    BY DEF Dispatch
  <1>4. /\ pc = "idle" /\ shown' = Head(chan).rev
        /\ \/ UNCHANGED <<pc, event>>
           \/ pc' = "find" /\ event' = Head(chan)
    BY DEF Dispatch
  <1>5. Len(chan') <= Cap
    BY <1>1, <1>2, Numbers, ApiAssumption
  <1>6. ApiTypeOK'
    BY <1>2, <1>3, <1>5 DEF TypeInv, TypeOK, ApiTypeOK
  <1>7. shown' \in 0..MaxRequests
    BY <1>2, <1>4 DEF Event
  <1>8. TypeOK'
    BY <1>2, <1>3, <1>4, <1>6, <1>7 DEF TypeInv, TypeOK
  <1>9. Busy' = Busy /\ Writing' = Writing /\ Writers'
    BY <1>3, HandlersStay DEF TypeInv
  <1>10. Counted'
    <2>1. made + Len(chan) + Cardinality(Busy) <= env.requests
      BY <1>4, Numbers DEF TypeInv, Counted
    <2>2. Len(chan') \in Nat
      BY <1>2, LenProperties
    <2>3. made + 1 + Len(chan') + Cardinality(Busy) <= env.requests
      BY <1>2, <2>1, <2>2, Numbers
    <2>4. made' + (IF pc' = "idle" THEN 0 ELSE 1) + Len(chan') + Cardinality(Busy') <= env'.requests
      BY <1>3, <1>9, <2>2, <2>3, Numbers
    <2> QED BY <1>3, <1>9, <2>4 DEF TypeInv, Counted
  <1> QED BY <1>8, <1>9, <1>10 DEF TypeInv

\* Looking for an annotation and deleting it count as nothing.
LEMMA FindDeleteType == TypeInv /\ (Find \/ Delete) => TypeInv'
  <1> SUFFICES ASSUME TypeInv, Find \/ Delete PROVE TypeInv'
    OBVIOUS
  <1>1. UNCHANGED <<kind, stored, version, call, chan, promised, raced, late, made, arrived, shown>>
    BY DEF Find, Delete
  <1>2. pc # "idle" /\ event \in Event
    BY DEF Find, Delete, TypeInv, TypeOK
  <1>3. Faulty \/ UNCHANGED env
    BY DEF Find, Delete
  <1>4. annotations' \subseteq Annotation
    BY DEF Find, Delete, TypeInv, TypeOK
  <1>5. /\ pc' \in {"idle", "find", "delete", "create"}
        /\ event' \in Event \cup {None} /\ (pc' # "idle" => event' \in Event)
    BY <1>2 DEF Find, Delete, Return, TypeInv, TypeOK
  <1>6. found' \in Annotation \cup {None} /\ (pc' = "delete" => found' \in Annotation)
    BY DEF Find, Delete, Return, TypeInv, TypeOK
  <1>7. ApiTypeOK'
    BY <1>1, <1>3, FaultyType DEF TypeInv, TypeOK, ApiTypeOK
  <1>8. TypeOK'
    BY <1>1, <1>4, <1>5, <1>6, <1>7 DEF TypeInv, TypeOK
  <1>9. Busy' = Busy /\ Writing' = Writing /\ Writers'
    BY <1>1, HandlersStay DEF TypeInv
  <1>10. env'.requests = env.requests
    BY <1>3, FaultyType
  <1>11. Counted'
    BY <1>1, <1>2, <1>9, <1>10, Numbers DEF TypeInv, Counted
  <1> QED BY <1>8, <1>9, <1>11 DEF TypeInv

\* A creation is one more made, and Notify is done with its event.
LEMMA PostType == TypeInv /\ Post => TypeInv'
  <1> SUFFICES ASSUME TypeInv, Post PROVE TypeInv'
    OBVIOUS
  <1>1. UNCHANGED <<kind, stored, version, call, chan, promised, raced, arrived, shown>>
    BY DEF Post
  <1>2. pc = "create" /\ made' = made + 1 /\ pc' = "idle" /\ event' = None /\ found' = None
    BY DEF Post, Return
  <1>3. Faulty \/ UNCHANGED env
    BY DEF Post
  <1>4. made + 1 \in 1..MaxRequests
    <2>1. made + 1 + Len(chan) + Cardinality(Busy) <= env.requests
      BY <1>2 DEF TypeInv, Counted
    <2> QED BY <2>1, Numbers, ApiAssumption
  <1>5. New \in Annotation
    <2>1. (event.incident.state = "resolved") \in BOOLEAN
      OBVIOUS
    <2> QED BY <1>4, <2>1 DEF New, Annotation
  <1>6. /\ annotations' \in {annotations, annotations \cup {New}}
        /\ late' \in {late, late \cup {New}}
    BY DEF Post
  <1>7. annotations' \subseteq Annotation /\ late' \subseteq Annotation
    BY <1>5, <1>6 DEF TypeInv, TypeOK
  <1>8. ApiTypeOK'
    BY <1>1, <1>3, FaultyType DEF TypeInv, TypeOK, ApiTypeOK
  <1>9. made' \in 0..MaxRequests
    BY <1>2, <1>4
  <1>10. TypeOK'
    BY <1>1, <1>2, <1>7, <1>8, <1>9 DEF TypeInv, TypeOK
  <1>11. Busy' = Busy /\ Writing' = Writing /\ Writers'
    BY <1>1, HandlersStay DEF TypeInv
  <1>12. env'.requests = env.requests
    BY <1>3, FaultyType
  <1>13. IsFiniteSet(late') /\ Cardinality(late') \in Nat /\ Cardinality(late') <= Cardinality(late) + 1
    <2>1. CASE late' = late
      BY <2>1, Numbers
    <2>2. CASE late' = late \cup {New}
      BY <2>2, Numbers, OneMore
    <2> QED BY <1>6, <2>1, <2>2
  <1>14. Counted'
    <2>1. UNCHANGED <<arrived, version, chan>>
      BY <1>1
    <2>2. made + 1 + Len(chan) + Cardinality(Busy) <= env.requests
      BY <1>2 DEF TypeInv, Counted
    <2>3. made' + (IF pc' = "idle" THEN 0 ELSE 1) + Len(chan') + Cardinality(Busy') <= env'.requests
      BY <1>2, <1>11, <1>12, <2>1, <2>2, Numbers
    <2>4. arrived' + Cardinality(late') <= made'
      <3>1. arrived + Cardinality(late) <= made
        BY DEF TypeInv, Counted
      <3> QED BY <1>2, <1>13, <2>1, <3>1, Numbers
    <2> QED BY <1>11, <1>12, <1>13, <2>1, <2>3, <2>4 DEF TypeInv, Counted
  <1> QED BY <1>10, <1>11, <1>14 DEF TypeInv

\* A creation arrives once.
LEMMA ArriveType == TypeInv /\ Arrive => TypeInv'
  <1> SUFFICES ASSUME TypeInv, Arrive PROVE TypeInv'
    OBVIOUS
  <1>1. PICK a \in late : annotations' = annotations \cup {a} /\ late' = late \ {a}
    BY DEF Arrive
  <1>2. arrived' = arrived + 1 /\ UNCHANGED <<pc, event, found, made, shown>>
    BY DEF Arrive
  <1>3. UNCHANGED <<kind, stored, version, call, chan, env, promised, raced>>
    BY DEF Arrive, apiVars
  <1>4. /\ IsFiniteSet(late') /\ Cardinality(late') \in Nat
        /\ Cardinality(late') = Cardinality(late) - 1
    BY <1>1, Numbers, OneLess
  <1>5. arrived' \in 0..MaxRequests
    <2>1. arrived + Cardinality(late) <= made /\ made \in 0..MaxRequests
      BY DEF TypeInv, Counted, TypeOK
    <2> QED BY <1>2, <1>4, <2>1, Numbers, ApiAssumption
  <1>6. annotations' \subseteq Annotation /\ late' \subseteq Annotation
    BY <1>1 DEF TypeInv, TypeOK
  <1>7. ApiTypeOK'
    BY <1>3 DEF TypeInv, TypeOK, ApiTypeOK
  <1>8. TypeOK'
    BY <1>2, <1>5, <1>6, <1>7 DEF TypeInv, TypeOK
  <1>9. Busy' = Busy /\ Writing' = Writing /\ Writers'
    BY <1>3, HandlersStay DEF TypeInv
  <1>10. Counted'
    BY <1>2, <1>3, <1>4, <1>9, Numbers DEF TypeInv, Counted
  <1> QED BY <1>8, <1>9, <1>10 DEF TypeInv

\* A restart leaves nobody at work.
LEMMA CrashType == TypeInv /\ Crash => TypeInv'
  <1> SUFFICES ASSUME TypeInv, Crash PROVE TypeInv'
    OBVIOUS
  <1>1. /\ call' = [h \in Handlers |-> AtRest] /\ chan' = <<>>
        /\ env' = [env EXCEPT !.crashes = env.crashes + 1] /\ env.crashes < MaxCrashes
        /\ UNCHANGED <<kind, stored, version, promised, raced>>
    BY DEF Crash, Restart
  <1>2. pc' = "idle" /\ event' = None /\ found' = None /\ UNCHANGED <<annotations, late, made, arrived, shown>>
    BY DEF Crash, Return
  <1>3. AtRest \in Call
    <2>1. 0 \in 0..MaxRequests
      BY ApiAssumption
    <2> QED BY <2>1 DEF AtRest, Call
  <1>4. Busy' = {} /\ Writing' = {}
    BY <1>1 DEF Busy, Writing, AtRest
  <1>5. /\ env' \in [requests : 0..MaxRequests, faults : 0..MaxFaults, crashes : 0..MaxCrashes]
        /\ env'.requests = env.requests
    <2>1. env \in [requests : 0..MaxRequests, faults : 0..MaxFaults, crashes : 0..MaxCrashes]
      BY DEF TypeInv, TypeOK, ApiTypeOK
    <2>2. env.crashes + 1 \in 0..MaxCrashes
      BY <1>1, <2>1, ApiAssumption
    <2> QED BY <1>1, <2>1, <2>2
  <1>6. ApiTypeOK'
    <2>1. chan' \in Seq(Event) /\ Len(chan') <= Cap
      BY <1>1, ApiAssumption, EmptySeq
    <2>2. call' \in [Handlers -> Call] /\ \A h \in Handlers : call'[h].pc = "idle"
      BY <1>1, <1>3 DEF AtRest
    <2> QED BY <1>1, <1>5, <2>1, <2>2 DEF TypeInv, TypeOK, ApiTypeOK
  <1>7. TypeOK'
    BY <1>2, <1>6 DEF TypeInv, TypeOK
  <1>8. Counted'
    <2>1. IsFiniteSet({}) /\ Cardinality({}) = 0 /\ Len(chan') = 0
      BY <1>1, FS_EmptySet, EmptySeq
    <2>2. version + Cardinality(Writing) <= env.requests /\ version' = version
      BY <1>1 DEF TypeInv, Counted
    <2>3. version' + Cardinality(Writing') <= env'.requests
      BY <1>4, <1>5, <2>1, <2>2, Numbers
    <2>4. made + (IF pc = "idle" THEN 0 ELSE 1) + Len(chan) + Cardinality(Busy) <= env.requests
      BY DEF TypeInv, Counted
    <2>5. made' = made /\ pc' = "idle" /\ Len(chan') + Cardinality(Busy') = 0
      BY <1>2, <1>4, <2>1
    <2>6. made' + (IF pc' = "idle" THEN 0 ELSE 1) + Len(chan') + Cardinality(Busy') <= env'.requests
      <3>1. /\ made \in Nat /\ Len(chan) \in Nat /\ Cardinality(Busy) \in Nat
            /\ env.requests \in Nat /\ env'.requests = env.requests
        BY <1>5, ApiAssumption, Numbers
      <3>2. made <= env.requests
        BY <2>4, <3>1
      <3>3. (IF pc' = "idle" THEN 0 ELSE 1) = 0 /\ Len(chan') = 0 /\ Cardinality(Busy') = 0
        BY <1>4, <2>1, <2>5
      <3> QED BY <2>5, <3>1, <3>2, <3>3
    <2>7. IsFiniteSet(late') /\ arrived' + Cardinality(late') <= made'
      BY <1>2 DEF TypeInv, Counted
    <2> QED BY <1>4, <2>1, <2>3, <2>6, <2>7 DEF Counted
  <1>9. Writers'
    BY <1>4 DEF Writers
  <1> QED BY <1>7, <1>8, <1>9 DEF TypeInv

\* Every step keeps the types and the inequalities.
LEMMA TypeStep == TypeInv /\ [Next]_vars => TypeInv'
  <1> SUFFICES ASSUME TypeInv, [Next]_vars PROVE TypeInv'
    OBVIOUS
  <1>1. CASE \E h \in Handlers : Handle(h) /\ UNCHANGED grafanaVars
    BY <1>1, CreateType, BeginType, FailType, WriteType, EmitType DEF Handle
  <1>2. CASE UNCHANGED vars
    <2>1. UNCHANGED <<kind, stored, version, call, chan, env, promised, raced>>
      BY <1>2 DEF vars, apiVars
    <2>2. UNCHANGED <<pc, event, found, annotations, late, made, arrived, shown>>
      BY <1>2 DEF vars, grafanaVars
    <2>3. ApiTypeOK'
      BY <2>1 DEF TypeInv, TypeOK, ApiTypeOK
    <2>4. TypeOK'
      BY <2>2, <2>3 DEF TypeInv, TypeOK
    <2>5. Busy' = Busy /\ Writing' = Writing /\ Writers'
      BY <2>1, HandlersStay DEF TypeInv
    <2> QED BY <2>1, <2>2, <2>4, <2>5 DEF TypeInv, Counted
  <1> QED BY <1>1, <1>2, DispatchType, FindDeleteType, PostType, ArriveType, CrashType DEF Next

\* Every variable of the handlers and of the notifier keeps its type.
THEOREM TypeCorrect == Spec => []TypeOK
  <1>1. TypeInv => TypeOK
    BY DEF TypeInv
  <1> QED BY <1>1, TypeInit, TypeStep, PTL DEF Spec

-----------------------------------------------------------------------------
(* What the store holds is what was promised *)

\* A copy of the version the store is at is what the request promises of it.
Faithful ==
    /\ stored # None => stored.state \in States
    /\ \A h \in Writing :
         /\ call[h].seen <= version
         /\ call[h].req.op # "delete" => call[h].copy.state \in States
         /\ call[h].seen = version => stored # None
         /\ call[h].seen = version /\ ~raced /\ call[h].req.op # "delete"
              => PromiseOf(call[h].copy) = Promise(promised, call[h].req)

AtomicInv == TypeInv /\ AtomicUnlessRaced /\ Faithful

\* The first state holds nothing, and promises nothing.
LEMMA AtomicInit == Init => AtomicInv
  <1> SUFFICES ASSUME Init PROVE AtomicInv
    OBVIOUS
  <1>1. Writing = {}
    BY DEF Init, ApiInit, Writing, AtRest
  <1>2. AtomicUnlessRaced /\ Faithful
    BY <1>1 DEF Init, ApiInit, AtomicUnlessRaced, Faithful, PromiseOf
  <1> QED BY <1>2, TypeInit DEF AtomicInv

\* A step that neither writes nor reads the store keeps the copies faithful.
LEMMA Bystander ==
    ASSUME AtomicInv, UNCHANGED <<stored, version, promised, raced>>,
           \A x \in Writing' : x \in Writing /\ call'[x] = call[x]
    PROVE  AtomicUnlessRaced' /\ Faithful'
  BY DEF AtomicInv, AtomicUnlessRaced, Faithful

\* Every step keeps the store what was promised, and the copies faithful.
LEMMA AtomicStep == AtomicInv /\ [Next]_vars => AtomicInv'
  <1> SUFFICES ASSUME AtomicInv, [Next]_vars PROVE AtomicUnlessRaced' /\ Faithful'
    BY TypeStep DEF AtomicInv
  <1>a. /\ TypeInv /\ call \in [Handlers -> Call] /\ version \in Nat
        /\ stored \in Incident \cup {None} /\ raced \in BOOLEAN
        /\ Writers /\ (stored # None => stored.state \in States)
    BY Numbers DEF AtomicInv, TypeInv, TypeOK, ApiTypeOK, Faithful
  <1>1. ASSUME NEW h \in Handlers, Create(h) PROVE AtomicUnlessRaced' /\ Faithful'
    <2>1. PICK s \in States :
            /\ stored' = [state |-> s, messages |-> <<Fresh(1)>>]
            /\ promised' = PromiseOf(stored')
            /\ call' = [call EXCEPT ![h] = [pc |-> "emit", req |-> Creation, copy |-> stored', seen |-> 1]]
      BY <1>1 DEF Create
    <2>2. Writing = {}
      BY <1>1, <1>a, Unused DEF Create
    <2>3. Writing' = {}
      BY <1>a, <2>1, <2>2 DEF Writing
    <2>4. stored'.state \in States
      BY <2>1
    <2> QED BY <2>1, <2>3, <2>4 DEF AtomicUnlessRaced, Faithful
  <1>2. ASSUME NEW h \in Handlers, Begin(h) PROVE AtomicUnlessRaced' /\ Faithful'
    <2>1. PICK r \in RequestsOf(env.requests + 1), inc \in AsRead(stored) :
            call' = [call EXCEPT ![h] = [pc |-> IF r.op = "notify" THEN "emit" ELSE "write", req |-> r,
                                         copy |-> Effect(inc, r), seen |-> version]]
      BY <1>2 DEF Begin
    <2>2. stored # None /\ UNCHANGED <<kind, stored, version, promised, raced>>
      BY <1>2 DEF Begin
    <2>3. r \in Requests
      <3>1. env.requests + 1 \in 1..MaxRequests
        BY <1>2, ApiAssumption DEF Begin
      <3> QED BY <2>1, <3>1 DEF Requests
    <2>4. stored \in Incident /\ stored.state \in States
      BY <1>a, <2>2
    <2>5. inc \in Incident /\ inc.state = stored.state /\ ToSet(inc.messages) = ToSet(stored.messages)
      BY <2>1, <2>4, AsReadIs
    <2>6. PromiseOf(inc) = PromiseOf(stored)
      BY <2>2, <2>4, <2>5, NoneAssumption DEF PromiseOf
    <2>7. r.op # "delete" => Effect(inc, r).state \in States
      BY <2>3, <2>4, <2>5, EffectType
    <2>8. r.op \notin {"notify", "delete"} /\ ~raced => PromiseOf(Effect(inc, r)) = Promise(promised, r)
      BY <2>3, <2>4, <2>5, <2>6, EffectPromise DEF AtomicInv, AtomicUnlessRaced
    <2>9. AtomicUnlessRaced'
      BY <2>2 DEF AtomicInv, AtomicUnlessRaced, PromiseOf
    <2> DEFINE new == [pc |-> IF r.op = "notify" THEN "emit" ELSE "write", req |-> r,
                       copy |-> Effect(inc, r), seen |-> version]
    <2>10. /\ call' = [call EXCEPT ![h] = new]
           /\ new.req = r /\ new.copy = Effect(inc, r) /\ new.seen = version
           /\ new.pc = "write" => r.op # "notify"
      BY <2>1
    <2> HIDE DEF new
    <2>11. ASSUME NEW x \in Writing'
           PROVE  /\ call'[x].seen <= version
                  /\ call'[x].req.op # "delete" => call'[x].copy.state \in States
                  /\ call'[x].seen = version => stored # None
                  /\ call'[x].seen = version /\ ~raced /\ call'[x].req.op # "delete"
                       => PromiseOf(call'[x].copy) = Promise(promised, call'[x].req)
      <3>1. CASE x = h
        <4>1. call'[x] = new /\ new.pc = "write"
          BY <1>a, <2>10, <3>1 DEF Writing
        <4> QED BY <1>a, <2>2, <2>7, <2>8, <2>10, <4>1
      <3>2. CASE x # h
        <4>1. x \in Writing /\ call'[x] = call[x]
          BY <1>a, <2>10, <3>2 DEF Writing
        <4> QED BY <4>1 DEF AtomicInv, Faithful
      <3> QED BY <3>1, <3>2
    <2>12. Faithful'
      <3>1. stored' # None => stored'.state \in States
        BY <2>2, <2>4
      <3> QED BY <2>2, <2>11, <3>1 DEF Faithful, PromiseOf
    <2> QED BY <2>9, <2>12
  <1>3. ASSUME NEW h \in Handlers, Fail(h) \/ NotFound(h) \/ Emit(h) PROVE AtomicUnlessRaced' /\ Faithful'
    <2>1. /\ call' = [call EXCEPT ![h] = AtRest]
          /\ UNCHANGED <<stored, version, promised, raced>>
      BY <1>3 DEF Fail, NotFound, Emit
    <2>2. \A x \in Writing' : x \in Writing /\ call'[x] = call[x]
      BY <1>a, <2>1 DEF Writing, AtRest
    <2> QED BY <2>1, <2>2, Bystander
  <1>4. ASSUME NEW h \in Handlers, Write(h) PROVE AtomicUnlessRaced' /\ Faithful'
    <2> DEFINE r == call[h].req
               copy == call[h].copy
    <2>1. h \in Writing /\ r \in Requests /\ r.op # "notify" /\ copy \in Incident
      BY <1>4, <1>a DEF Write, Writing, Writers, Call, TypeInv, TypeOK, ApiTypeOK
    <2>2. /\ stored' = Accepted(r, copy) /\ version' = version + 1
          /\ promised' = Promise(promised, r)
          /\ raced' = (raced \/ (r.op # "delete" /\ call[h].seen # version))
      BY <1>4 DEF Write
    <2>3. \A x \in Writing' : x \in Writing /\ call'[x] = call[x]
      BY <1>4, <1>a DEF Write, Writing, AtRest
    <2>4. /\ call[h].seen <= version
          /\ r.op # "delete" => copy.state \in States
          /\ call[h].seen = version => stored # None
          /\ call[h].seen = version /\ ~raced /\ r.op # "delete" => PromiseOf(copy) = Promise(promised, r)
      BY <2>1 DEF AtomicInv, Faithful
    <2> HIDE DEF r, copy
    <2>5. stored' # None => stored'.state \in States
      BY <2>2, <2>4 DEF Accepted
    <2>6. AtomicUnlessRaced'
      <3>1. SUFFICES ASSUME ~raced' PROVE PromiseOf(stored') = promised'
        BY DEF AtomicUnlessRaced, PromiseOf
      <3>2. CASE r.op = "delete"
        BY <2>2, <3>2 DEF Accepted, Promise, PromiseOf
      <3>3. CASE r.op # "delete"
        <4>1. ~raced /\ call[h].seen = version
          BY <1>a, <2>2, <3>1, <3>3
        <4>2. stored' = copy
          BY <2>2, <2>4, <3>3, <4>1 DEF Accepted
        <4> QED BY <2>2, <2>4, <3>3, <4>1, <4>2
      <3> QED BY <3>2, <3>3
    <2>7. \A x \in Writing' : call'[x].seen <= version /\ (call'[x].req.op # "delete" => call'[x].copy.state \in States)
      BY <2>3 DEF AtomicInv, Faithful
    <2>8. \A x \in Writing' : call'[x].seen <= version' /\ call'[x].seen # version'
      <3> SUFFICES ASSUME NEW x \in Writing' PROVE call'[x].seen <= version' /\ call'[x].seen # version'
        OBVIOUS
      <3>1. call'[x].seen \in Nat
        BY <1>a, <2>3, ApiAssumption DEF Call, Writing
      <3>2. call'[x].seen <= version
        BY <2>7
      <3> QED BY <1>a, <2>2, <3>1, <3>2
    <2>9. Faithful'
      BY <2>5, <2>7, <2>8 DEF Faithful
    <2> QED BY <2>6, <2>9
  <1>5. CASE Dispatch \/ Find \/ Delete \/ Post \/ Arrive \/ UNCHANGED vars
    <2>1. UNCHANGED <<stored, version, promised, raced, call>>
      BY <1>5 DEF Dispatch, Find, Delete, Post, Arrive, apiVars, vars
    <2>2. \A x \in Writing' : x \in Writing /\ call'[x] = call[x]
      BY <2>1, HandlersStay
    <2> QED BY <2>1, <2>2, Bystander
  <1>6. CASE Crash
    <2>1. UNCHANGED <<stored, version, promised, raced>> /\ Writing' = {}
      BY <1>6 DEF Crash, Restart, Writing, AtRest
    <2> QED BY <2>1, Bystander
  <1> QED BY <1>1, <1>2, <1>3, <1>4, <1>5, <1>6 DEF Next, Handle

\* Until a copy is written over a version it was not made from, the store holds
\* what the accepted requests promise, for any number of handlers, requests,
\* failures and restarts.
THEOREM AtomicUnlessRacedHolds == Spec => []AtomicUnlessRaced
  <1>1. AtomicInv => AtomicUnlessRaced
    BY DEF AtomicInv
  <1> QED BY <1>1, AtomicInit, AtomicStep, PTL DEF Spec

-----------------------------------------------------------------------------
(* A deletion is final in a DB store *)

\* No step brings back what a DB store deleted: an update finds no row.
LEMMA GoneStep == TypeInv /\ DeletedStaysDeleted /\ [Next]_vars => DeletedStaysDeleted'
  <1> SUFFICES ASSUME TypeInv, DeletedStaysDeleted, [Next]_vars PROVE DeletedStaysDeleted'
    OBVIOUS
  <1>1. ASSUME NEW h \in Handlers, Create(h) PROVE DeletedStaysDeleted'
    <2>1. PICK s \in States : /\ stored' = [state |-> s, messages |-> <<Fresh(1)>>]
                              /\ promised' = PromiseOf(stored')
      BY <1>1 DEF Create
    <2>2. Fresh(1) \in Message
      BY <1>1, ApiAssumption DEF Create, Fresh, Message
    <2>3. ToSet(<<Fresh(1)>>) \in SUBSET Message
      BY <2>2 DEF ToSet
    <2>4. stored' # None => promised' \in Known
      BY <2>1, <2>3 DEF PromiseOf, Known
    <2> QED BY <2>4, NoneAssumption DEF DeletedStaysDeleted
  <1>2. ASSUME NEW h \in Handlers, Write(h) PROVE DeletedStaysDeleted'
    <2> DEFINE r == call[h].req
    <2>1. r \in Requests /\ r.op # "notify" /\ promised \in Known \cup {None}
      BY <1>2 DEF Write, Writing, Writers, TypeInv, TypeOK, ApiTypeOK
    <2>2. promised' = Promise(promised, r) /\ stored' = Accepted(r, call[h].copy) /\ kind' = kind
      BY <1>2 DEF Write
    <2> HIDE DEF r
    <2>3. CASE promised = None \/ r.op = "delete"
      BY <2>2, <2>3 DEF Accepted, DeletedStaysDeleted
    <2>4. CASE promised # None /\ r.op # "delete"
      BY <2>1, <2>2, <2>4, PromiseType, NoneAssumption DEF DeletedStaysDeleted
    <2> QED BY <2>3, <2>4
  <1>3. CASE UNCHANGED <<kind, stored, promised>>
    BY <1>3 DEF DeletedStaysDeleted
  <1>4. ASSUME NEW h \in Handlers, Begin(h) \/ Fail(h) \/ NotFound(h) \/ Emit(h)
        PROVE  UNCHANGED <<kind, stored, promised>>
    BY <1>4 DEF Begin, Fail, NotFound, Emit
  <1>5. Dispatch \/ Find \/ Delete \/ Post \/ Arrive \/ Crash \/ UNCHANGED vars
          => UNCHANGED <<kind, stored, promised>>
    BY DEF Dispatch, Find, Delete, Post, Arrive, Crash, Restart, apiVars, vars
  <1> QED BY <1>1, <1>2, <1>3, <1>4, <1>5 DEF Next, Handle

\* In a DB store a deleted incident stays deleted, whatever copies of it the
\* handlers still hold.
THEOREM DeletedStaysDeletedHolds == Spec => []DeletedStaysDeleted
  <1>1. Init => DeletedStaysDeleted
    BY DEF Init, ApiInit, DeletedStaysDeleted
  <1> QED BY <1>1, GoneStep, TypeInit, TypeStep, PTL DEF Spec

-----------------------------------------------------------------------------
(* A resolved incident has a closed annotation *)

\* The incident shows version rev: if that is the last one, v, it has the state
\* of what is stored.
Shows(inc, rev, v, held) ==
    /\ rev \in Nat /\ rev <= v
    /\ rev = v /\ held # None => inc.state = held.state

\* What was emitted, or will be, shows the version it says.
Current ==
    /\ \A h \in Handlers : call[h].pc = "emit" => Shows(call[h].copy, call[h].seen, version, stored)
    /\ \A i \in 1..Len(chan) : Shows(chan[i].incident, chan[i].rev, version, stored)
    /\ pc # "idle" => event.rev = shown /\ Shows(event.incident, event.rev, version, stored)
    /\ shown <= version

\* As long as nothing failed, Notify leaves the annotation of what it was shown.
Closed ==
    env.faults = 0 /\ env.crashes = 0 =>
        /\ late = {} /\ arrived = 0
        /\ pc = "idle" /\ shown = version /\ stored # None /\ stored.state = "resolved"
              => \E a \in annotations : annotations = {a} /\ a.closed

ClosedInv == TypeInv /\ CountInv /\ Current /\ Closed

\* Before the first step nothing is stored or shown.
LEMMA ClosedInit == Init => ClosedInv
  <1> SUFFICES ASSUME Init PROVE ClosedInv
    OBVIOUS
  <1>1. Current
    BY DEF Init, ApiInit, AtRest, Current
  <1>2. Closed
    BY DEF Init, ApiInit, Closed
  <1> QED BY <1>1, <1>2, TypeInit, CountInit DEF ClosedInv

\* What shows its version still does when there is a newer one, or no other.
LEMMA StillShows ==
    ASSUME version \in Nat, UNCHANGED <<stored, version>> \/ version' = version + 1,
           NEW inc, NEW rev, Shows(inc, rev, version, stored)
    PROVE  Shows(inc, rev, version', stored')
  <1>1. CASE UNCHANGED <<stored, version>>
    BY <1>1 DEF Shows
  <1>2. CASE version' = version + 1
    BY <1>2 DEF Shows
  <1> QED BY <1>1, <1>2

\* A handler's step leaves what was emitted, and Notify, as they are.
LEMMA HandlerStep ==
    ASSUME NEW h \in Handlers, ClosedInv, Handle(h), UNCHANGED grafanaVars
    PROVE  Current' /\ Closed'
  <1>a. /\ TypeInv /\ call \in [Handlers -> Call] /\ version \in Nat /\ shown \in Nat /\ Len(chan) \in Nat
        /\ chan \in Seq(Event) /\ stored \in Incident \cup {None}
        /\ env \in [requests : 0..MaxRequests, faults : 0..MaxFaults, crashes : 0..MaxCrashes]
    BY Numbers, ApiAssumption DEF ClosedInv, TypeInv, TypeOK, ApiTypeOK
  <1>b. UNCHANGED <<pc, event, late, arrived, annotations, shown>>
    BY DEF grafanaVars
  <1>c. /\ \A x \in Handlers : call[x].pc = "emit" => Shows(call[x].copy, call[x].seen, version, stored)
        /\ \A i \in 1..Len(chan) : Shows(chan[i].incident, chan[i].rev, version, stored)
        /\ pc # "idle" => event.rev = shown /\ Shows(event.incident, event.rev, version, stored)
        /\ shown <= version
    BY DEF ClosedInv, Current
  <1>1. UNCHANGED <<stored, version>> \/ version' = version + 1
    <2>1. Create(h) => version = 0 /\ version' = 1
      BY <1>a, Unused DEF Create
    <2> QED BY <1>a, <2>1 DEF Handle, Begin, Fail, NotFound, Write, Emit
  <1>2. \A x \in Handlers : call'[x].pc = "emit" =>
            \/ call[x].pc = "emit" /\ call'[x] = call[x]
            \/ x = h /\ (Create(h) \/ Begin(h) \/ Write(h))
    BY <1>a DEF Handle, Create, Begin, Fail, NotFound, Write, Emit, AtRest
  <1>3. ASSUME Create(h) \/ Begin(h) \/ Write(h), call'[h].pc = "emit"
        PROVE  /\ call'[h].seen = version'
               /\ stored' # None => call'[h].copy.state = stored'.state
    <2>1. CASE Create(h)
      BY <1>a, <2>1 DEF Create
    <2>2. CASE Begin(h)
      <3>1. PICK r \in RequestsOf(env.requests + 1), inc \in AsRead(stored) :
              call' = [call EXCEPT ![h] = [pc |-> IF r.op = "notify" THEN "emit" ELSE "write", req |-> r,
                                           copy |-> Effect(inc, r), seen |-> version]]
        BY <2>2 DEF Begin
      <3>2. /\ call'[h].seen = version /\ call'[h].copy = Effect(inc, r)
            /\ r.op = "notify"
        BY <1>3, <1>a, <3>1
      <3>3. stored # None /\ UNCHANGED <<stored, version>>
        BY <2>2 DEF Begin
      <3>4. inc.state = stored.state
        BY <1>a, <3>1, <3>3, AsReadIs
      <3>5. Effect(inc, r) = inc
        BY <3>2 DEF Effect
      <3> QED BY <3>2, <3>3, <3>4, <3>5
    <2>3. CASE Write(h)
      <3>1. call'[h] = [call[h] EXCEPT !.pc = "emit", !.seen = version']
        BY <1>3, <1>a, <2>3 DEF Write, AtRest
      <3>2. call[h] \in Call
        BY <1>a
      <3>3. call'[h].seen = version' /\ call'[h].copy = call[h].copy
        BY <3>1, <3>2 DEF Call
      <3>4. stored' = None \/ stored' = call[h].copy
        BY <2>3 DEF Write, Accepted
      <3> QED BY <3>3, <3>4
    <2> QED BY <1>3, <2>1, <2>2, <2>3
  <1>4. version' \in Nat
    BY <1>1, <1>a
  <1>5. \A x \in Handlers : call'[x].pc = "emit" => Shows(call'[x].copy, call'[x].seen, version', stored')
    <2> SUFFICES ASSUME NEW x \in Handlers, call'[x].pc = "emit"
                 PROVE  Shows(call'[x].copy, call'[x].seen, version', stored')
      OBVIOUS
    <2>1. CASE call[x].pc = "emit" /\ call'[x] = call[x]
      BY <1>1, <1>a, <1>c, <2>1, StillShows DEF Shows
    <2>2. CASE x = h /\ (Create(h) \/ Begin(h) \/ Write(h))
      BY <1>3, <1>4, <2>2 DEF Shows
    <2> QED BY <1>2, <2>1, <2>2
  <1>6. \A i \in 1..Len(chan') : Shows(chan'[i].incident, chan'[i].rev, version', stored')
    <2>1. CASE chan' = chan
      BY <1>1, <1>a, <1>c, <2>1, StillShows DEF Shows
    <2>2. CASE Emit(h)
      <3> DEFINE e == [incident |-> call[h].copy, rev |-> call[h].seen, byUser |-> call[h].req.op \in {"notify", "delete"}]
      <3>1. /\ chan' = Append(chan, e) /\ UNCHANGED <<stored, version>>
            /\ Shows(e.incident, e.rev, version, stored)
        BY <1>c, <2>2 DEF Emit
      <3>2. e \in Event
        BY <1>a, <2>2 DEF Emit, Event, Call, TypeInv, TypeOK, ApiTypeOK
      <3> HIDE DEF e
      <3>3. /\ Len(chan') = Len(chan) + 1
            /\ \A i \in 1..Len(chan) : chan'[i] = chan[i]
            /\ chan'[Len(chan) + 1] = e
        BY <1>a, <3>1, <3>2, AppendProperties
      <3>4. \A i \in 1..Len(chan') : i \in 1..Len(chan) \/ i = Len(chan) + 1
        BY <1>a, <3>3
      <3> QED BY <1>a, <1>c, <3>1, <3>3, <3>4, StillShows DEF Shows
    <2> QED BY <2>1, <2>2 DEF Handle, Create, Begin, Fail, NotFound, Write
  <1>7. pc' # "idle" => event'.rev = shown' /\ Shows(event'.incident, event'.rev, version', stored')
    BY <1>1, <1>a, <1>b, <1>c, StillShows DEF Shows
  <1>8. shown' <= version' /\ (version' # version => shown' # version')
    BY <1>1, <1>a, <1>b, <1>c
  <1>9. Current'
    BY <1>5, <1>6, <1>7, <1>8 DEF Current
  <1>10. Closed'
    <2>1. SUFFICES ASSUME env'.faults = 0, env'.crashes = 0
                   PROVE  /\ late' = {} /\ arrived' = 0
                          /\ pc' = "idle" /\ shown' = version' /\ stored' # None /\ stored'.state = "resolved"
                                => \E a \in annotations' : annotations' = {a} /\ a.closed
      BY DEF Closed
    <2>2. env.faults = 0 /\ env.crashes = 0
      BY <1>a, <2>1, ApiAssumption DEF Handle, Create, Begin, Fail, NotFound, Write, Emit
    <2>3. version' = version => stored' = stored
      BY <1>1, <1>a
    <2> QED BY <1>8, <1>b, <2>2, <2>3 DEF ClosedInv, Closed
  <1> QED BY <1>9, <1>10

\* Notify's steps read what was emitted, in its order, and keep the count.
LEMMA NotifyStep ==
    ASSUME ClosedInv, Dispatch \/ Find \/ Delete \/ Post \/ Arrive
    PROVE  Current' /\ Closed'
  <1>a. /\ version \in Nat /\ shown \in Nat /\ Len(chan) \in Nat /\ chan \in Seq(Event)
        /\ env \in [requests : 0..MaxRequests, faults : 0..MaxFaults, crashes : 0..MaxCrashes]
    BY Numbers, ApiAssumption DEF ClosedInv, TypeInv, TypeOK, ApiTypeOK
  <1>b. UNCHANGED <<stored, version, call>>
    BY DEF Dispatch, Find, Delete, Post, Arrive, apiVars
  <1>c. /\ \A x \in Handlers : call[x].pc = "emit" => Shows(call[x].copy, call[x].seen, version, stored)
        /\ \A i \in 1..Len(chan) : Shows(chan[i].incident, chan[i].rev, version, stored)
        /\ pc # "idle" => event.rev = shown /\ Shows(event.incident, event.rev, version, stored)
        /\ shown <= version
    BY DEF ClosedInv, Current
  <1>d. env'.faults = 0 /\ env'.crashes = 0 =>
            /\ UNCHANGED env /\ ~Faulty
            /\ late = {} /\ arrived = 0
            /\ pc = "idle" /\ shown = version /\ stored # None /\ stored.state = "resolved"
                  => \E a \in annotations : annotations = {a} /\ a.closed
    <2>1. Faulty \/ UNCHANGED env
      BY DEF Dispatch, Find, Delete, Post, Arrive, apiVars
    <2>2. Faulty => env'.faults # 0
      BY <1>a, ApiAssumption DEF Faulty
    <2> QED BY <2>1, <2>2 DEF ClosedInv, Closed
  <1>1. CASE Dispatch
    <2>1. /\ chan # <<>> /\ chan' = Tail(chan) /\ shown' = Head(chan).rev /\ pc = "idle"
          /\ UNCHANGED <<late, arrived, annotations>>
      BY <1>1 DEF Dispatch
    <2>2. /\ Len(chan') = Len(chan) - 1 /\ \A i \in 1..Len(chan') : chan'[i] = chan[i + 1]
          /\ Len(chan) # 0
      BY <1>a, <2>1, HeadTailProperties, EmptySeq
    <2>3. Head(chan) = chan[1] /\ 1 \in 1..Len(chan)
      BY <1>a, <2>1, <2>2
    <2>4. Shows(Head(chan).incident, Head(chan).rev, version, stored)
      BY <1>c, <2>3
    <2>5. \A i \in 1..Len(chan') : Shows(chan'[i].incident, chan'[i].rev, version', stored')
      <3> SUFFICES ASSUME NEW i \in 1..Len(chan') PROVE Shows(chan'[i].incident, chan'[i].rev, version', stored')
        OBVIOUS
      <3>1. i + 1 \in 1..Len(chan)
        BY <1>a, <2>2
      <3> QED BY <1>b, <1>c, <2>2, <3>1
    <2>6. pc' # "idle" => event' = Head(chan)
      BY <1>1, <2>1 DEF Dispatch
    <2>7. pc' = "idle" => Skips(Head(chan).incident)
      BY <1>1 DEF Dispatch
    <2>8. shown' <= version'
      BY <1>b, <2>1, <2>4 DEF Shows
    <2>9. Current'
      BY <1>b, <1>c, <2>1, <2>4, <2>5, <2>6, <2>8 DEF Current
    <2>10. ~(pc' = "idle" /\ shown' = version' /\ stored' # None /\ stored'.state = "resolved")
      BY <1>b, <2>1, <2>4, <2>7 DEF Shows, Skips
    <2> QED BY <1>d, <2>1, <2>9, <2>10 DEF Closed
  <1>2. CASE Find \/ Delete
    <2>1. UNCHANGED <<chan, shown, late, arrived>>
      BY <1>2 DEF Find, Delete
    <2>2. pc # "idle"
      BY <1>2 DEF Find, Delete
    <2>3. (pc' # "idle" /\ UNCHANGED event) \/ (pc' = "idle" /\ Faulty)
      BY <1>2 DEF Find, Delete, Return
    <2>4. Current'
      BY <1>b, <1>c, <2>1, <2>2, <2>3 DEF Current
    <2> QED BY <1>d, <2>1, <2>3, <2>4 DEF Closed
  <1>3. CASE Post
    <2>1. /\ UNCHANGED <<chan, shown, arrived>> /\ pc = "create" /\ pc' = "idle"
          /\ (annotations' = annotations \cup {New} /\ late' = late) \/ Faulty
      BY <1>3 DEF Post, Return
    <2>2. Current'
      BY <1>b, <1>c, <2>1 DEF Current
    <2>3. SUFFICES ASSUME env'.faults = 0, env'.crashes = 0
                   PROVE  /\ late' = {} /\ arrived' = 0
                          /\ shown' = version' /\ stored' # None /\ stored'.state = "resolved"
                                => \E a \in annotations' : annotations' = {a} /\ a.closed
      BY <2>2 DEF Closed
    <2>4. late' = {} /\ arrived' = 0 /\ annotations' = annotations \cup {New}
      BY <1>d, <2>1, <2>3
    <2>5. annotations = {}
      <3>1. Cardinality(annotations) <= 0 /\ IsFiniteSet(annotations)
        BY <1>d, <2>1, <2>3 DEF ClosedInv, CountInv
      <3> QED BY <3>1, FS_CardinalityType, FS_EmptySet
    <2>6. shown = version /\ stored # None /\ stored.state = "resolved" => New.closed
      BY <1>c, <2>1 DEF New, Shows
    <2> QED BY <1>b, <2>1, <2>4, <2>5, <2>6
  <1>4. CASE Arrive
    <2>1. UNCHANGED <<chan, pc, event, shown>> /\ late # {} /\ UNCHANGED env
      BY <1>4 DEF Arrive, apiVars
    <2>2. Current'
      BY <1>b, <1>c, <2>1 DEF Current
    <2> QED BY <1>d, <2>1, <2>2 DEF Closed
  <1> QED BY <1>1, <1>2, <1>3, <1>4

\* Every step keeps what was emitted current and the last annotation right.
LEMMA ClosedStep == ClosedInv /\ [Next]_vars => ClosedInv'
  <1> SUFFICES ASSUME ClosedInv, [Next]_vars PROVE Current' /\ Closed'
    BY TypeStep, CountStep DEF ClosedInv
  <1>1. CASE \E h \in Handlers : Handle(h) /\ UNCHANGED grafanaVars
    BY <1>1, HandlerStep
  <1>2. CASE Dispatch \/ Find \/ Delete \/ Post \/ Arrive
    BY <1>2, NotifyStep
  <1>3. CASE Crash
    <2>1. /\ call' = [h \in Handlers |-> AtRest] /\ chan' = <<>> /\ pc' = "idle"
          /\ env' = [env EXCEPT !.crashes = env.crashes + 1]
          /\ UNCHANGED <<stored, version, shown>>
      BY <1>3 DEF Crash, Restart, Return
    <2>2. env'.crashes # 0
      BY <2>1, ApiAssumption DEF ClosedInv, TypeInv, TypeOK, ApiTypeOK
    <2>3. Len(chan') = 0 /\ \A h \in Handlers : call'[h].pc = "idle"
      BY <2>1 DEF AtRest
    <2>4. Current'
      BY <2>1, <2>3 DEF ClosedInv, Current
    <2> QED BY <2>2, <2>4 DEF Closed
  <1>4. CASE UNCHANGED vars
    <2>1. UNCHANGED <<stored, version, call, chan, env, pc, event, annotations, late, arrived, shown>>
      BY <1>4 DEF vars, apiVars, grafanaVars
    <2> QED BY <2>1 DEF ClosedInv, Current, Closed
  <1> QED BY <1>1, <1>2, <1>3, <1>4 DEF Next

\* Without a failure or a restart, once everything is handled a resolved
\* incident has one annotation, and it is closed, for any number of handlers
\* and requests.
THEOREM ResolvedIsClosedHolds == Spec => []ResolvedIsClosed
  <1>1. ClosedInv => ResolvedIsClosed
    BY DEF ClosedInv, Closed, ResolvedIsClosed, Settled
  <1> QED BY <1>1, ClosedInit, ClosedStep, PTL DEF Spec
=============================================================================
