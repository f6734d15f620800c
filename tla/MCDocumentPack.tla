----------------------------- MODULE MCDocumentPack -----------------------------
(* A small instance of DocumentPack for TLC. *)
EXTENDS DocumentPack, TLC

CONSTANTS a1, c1, c2

ClerkSymmetry == Permutations(Clerks)

\* What follows a lost update of the timeline is not explored any further.
Bounded == ~overwritten
=================================================================================
