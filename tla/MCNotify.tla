------------------------------ MODULE MCNotify ------------------------------
(* Instances of Notify for TLC. *)
EXTENDS Notify

CONSTANTS N1, N2, T1, T2

\* N1 is for every incident, N2 for some.
MCMatch == [n \in Notifiers |-> IF n = N1 THEN Topics ELSE {T1}]
=============================================================================
