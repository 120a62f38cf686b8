------------------------------ MODULE MCStores ------------------------------
(* Instances of Stores for TLC. *)
EXTENDS Stores, TLC

\* Clients and guids are only names.
NameSymmetry == Permutations(Clients) \cup Permutations(Guids)
=============================================================================
