------------------------ MODULE MCCustomerWorkflow ------------------------
(* Small instances of CustomerWorkflow for TLC. *)
EXTENDS CustomerDirectory, TLC

CONSTANTS s1, s2

OneSession == {s1}
TwoSessions == {s1, s2}
SessionSymmetry == Permutations(TwoSessions)
FreeAndPriced == {0, 1}
TwoPrices == {1, 2}
PutOnHold == {"on_hold"}
EditedStatuses == {"active", "on_hold"}
===========================================================================
