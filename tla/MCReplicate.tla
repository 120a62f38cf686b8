---------------------------- MODULE MCReplicate ----------------------------
(* Instances of Replicate for TLC. *)
EXTENDS Replicate, TLC

CONSTANTS A, B, C   \* the stores of the instances

AllS3    == [s \in Stores |-> "s3"]
OneEach  == [s \in Stores |-> IF s = A THEN "local" ELSE IF s = B THEN "s3" ELSE "db"]
LocalDB  == [s \in Stores |-> IF s = A THEN "local" ELSE "db"]

\* A writer is only a name.
WriterSymmetry == Permutations(Writers)
============================================================================
