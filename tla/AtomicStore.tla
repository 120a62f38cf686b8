----------------------------- MODULE AtomicStore -----------------------------
(***************************************************************************)
(* What one store promises to one caller: a call takes effect at once, with *)
(* a result that Backends allows, and in between the content is what the    *)
(* last call left.  The detailed models of the stores are to implement this.*)
(***************************************************************************)
EXTENDS Backends, Integers

VARIABLES
    StoreKind, \* "local", "s3" or "db"
    content,   \* the data the store holds
    busy,      \* the call in progress
    reply,     \* the answer to the last call
    faults     \* operations underneath that failed so far

avars == <<StoreKind, content, busy, reply, faults>>

AInit ==
    /\ StoreKind \in Kinds
    /\ content = Empty
    /\ busy = None
    /\ reply = "nil"
    /\ faults = 0

Invoke(op) ==
    /\ busy = None
    /\ busy' = op
    /\ UNCHANGED <<StoreKind, content, reply, faults>>

Answer(res) ==
    /\ content' = res.content
    /\ reply' = res.err
    /\ busy' = None

Perform ==
    /\ busy # None
    /\ UNCHANGED StoreKind
    /\ \/ Answer(Outcome(StoreKind, busy, content)) /\ faults' >= faults
       \/ \E res \in Disturbed(StoreKind, busy, content) : Answer(res) /\ faults' > faults

ANext == (\E op \in StoreOp : Invoke(op)) \/ Perform

ASpec == AInit /\ [][ANext]_avars
=============================================================================
