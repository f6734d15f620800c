----------------------------- MODULE MCIdempotency -----------------------------
(* A small instance of Idempotency for TLC. *)
EXTENDS Idempotency, TLC

CONSTANTS k1, k2, d1, d2, r1, r2, r3

Symmetry == Permutations(Keys) \cup Permutations(Data) \cup Permutations(Requests)
================================================================================
