----------------------------- MODULE MCAgentLedger -----------------------------
(* Small instances of AgentLedger for TLC. *)
EXTENDS AgentLedger, TLC

CONSTANTS a1, a2, roof, c1, s1, s2

RoofOfFirst == roof :> a1
\* A commission for a project, and a later debit.
MCEntries ==
    {[date |-> 1, kind |-> "commission", debit |-> 0, credit |-> 2, project |-> roof],
     [date |-> 2, kind |-> "other", debit |-> 1, credit |-> 0, project |-> None]}
SessionSymmetry == Permutations(Sessions)
================================================================================
