------------------------------ MODULE MCFileStore ------------------------------
(* A small instance of FileStore for TLC. *)
EXTENDS FileStore, TLC

CONSTANTS r1, r2

RequestSymmetry == Permutations(Requests)

\* At most one file suffers from a crash, from the storage or from two requests
\* that remove it.
Bounded == Cardinality(interrupted \cup contested) <= 1
================================================================================
