------------------------------- MODULE Stores -------------------------------
(***************************************************************************)
(* The stores, one of them per behaviour.  With one caller each implements  *)
(* what Backends says of its kind.  With several, calls that overlap on a   *)
(* list or on an incident are what loses an incident, and nothing else.     *)
(***************************************************************************)
EXTENDS LocalStore, S3Store, DBStore

CONSTANT StoreKinds     \* the kinds of store of this instance

ASSUME StoresAssumption == StoreKinds \subseteq Kinds

VARIABLE kind

\* History: two calls overlapped where that matters.
VARIABLE raced

storeVars == <<vars, listed, messages, pending, kind, raced>>

StoresInit == /\ kind \in StoreKinds
              /\ raced = FALSE
              /\ Init /\ S3Init /\ DBInit

-----------------------------------------------------------------------------
(* Overlaps *)

\* The incident c's call is about, if it is about one.
Subject(c) == IF client[c].op = None \/ client[c].op.act \in {"subscribe", "unsubscribe"}
              THEN {} ELSE {Target(client[c].op)}

\* The list c has read and not yet written, if any.
Holds(c) == IF client[c].pc \in {"lock", "open", "write"} THEN {ListOf(client[c].stage)} ELSE {}

\* c is about to read a list another has emptied to write it.
MeetsEmpty(c) == client[c].pc = "read" /\ lists[ListOf(client[c].stage)] = Truncated

Overlap ==
    \/ \E c \in Clients : \E d \in Clients \ {c} :
           Subject(c) \cap Subject(d) # {} \/ Holds(c) \cap Holds(d) # {}
    \/ \E c \in Clients : MeetsEmpty(c)

StoresNext ==
    /\ \/ kind = "local" /\ Next /\ UNCHANGED <<listed, messages, pending>>
       \/ kind = "s3" /\ S3Next /\ UNCHANGED <<linked, mutex, messages, pending>>
       \/ kind = "db" /\ DBNext /\ UNCHANGED <<linked, mutex, listed>>
    /\ raced' = (raced \/ Overlap')
    /\ UNCHANGED kind

StoresSpec == StoresInit /\ [][StoresNext]_storeVars

-----------------------------------------------------------------------------
(* Properties *)

\* Two callers lose an acknowledged incident nobody deletes only by overlapping
\* between the reading of a list and its writing back, or on the incident
\* itself, or by meeting a Local list while it is empty.  Calls that overlap
\* elsewhere lose nothing.
KeptUnlessRaced == ~raced /\ env.faults = 0 /\ env.crashes = 0 => Retrievable

Caller == CHOOSE c \in Clients : TRUE

AtRest == client[Caller].pc = "idle"

Kept == CASE kind = "local" -> Decoded
          [] kind = "s3"    -> S3Content
          [] kind = "db"    -> DBContent

Atomic == INSTANCE AtomicStore WITH
    StoreKind <- kind,
    content   <- IF AtRest THEN Kept ELSE start[Caller].content,
    busy      <- client[Caller].op,
    reply     <- reply[Caller],
    faults    <- IF AtRest THEN env.faults ELSE start[Caller].faults

\* With one caller a store of any kind holds, at the end of a call, what
\* Backends says of an undisturbed call, or of a disturbed one if a system
\* call, a request or a statement failed; and answers what Backends says.
ImplementsBackends == Atomic!ASpec
=============================================================================
