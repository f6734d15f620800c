---------------------------- MODULE MCInventory ----------------------------
(* Small instances of Inventory for TLC. *)
EXTENDS Inventory

CONSTANTS panel, yard, site, s1, s2

MCItems == {panel}
MCLocations == {yard, site}
MCQuantities == {1, 2}
TwoSessions == {s1, s2}

L(kind, from, to, qty) == [kind |-> kind, item |-> panel, from |-> from, to |-> to, qty |-> qty]

\* Opposite transfers, a return; delivery notes of two lines
\* that create rows or run out of stock; a count.
MixedBatches ==
    { <<L("transfer", yard, site, 1)>>, <<L("transfer", site, yard, 1)>>,
      <<L("project_return", None, site, 2)>>,
      <<L("inward", None, yard, 1), L("inward", yard, site, 1)>>,
      <<L("outward", site, None, 1), L("outward", yard, None, 1)>>,
      <<L("adjustment", yard, None, 1)>> }
============================================================================
