----------------------------- MODULE MCAnnounce ----------------------------
(* Instances of Announce for TLC. *)
EXTENDS Announce, TLC

\* A handler is only a name.
HandlerSymmetry == Permutations(Handlers)
============================================================================
