---------------------------- MODULE StockEffects ----------------------------
(***************************************************************************)
(* Inventory movements and what they do to the balances they name, after   *)
(* _post_movement_row, _apply_inventory_effect and                         *)
(* _copy_inventory_movement of backend/app/services/operations_service.py. *)
(* Quantities are whole units; reserved_quantity is never written by the   *)
(* program and stays 0.                                                    *)
(***************************************************************************)
EXTENDS Integers, Sequences

CONSTANTS Items, Locations,
          Batches       \* the line lists that requests may post

None == "none"
Absent == -1     \* no such balance, or not one that was looked up

\* One balance for each item and location.
Slots == Items \X Locations

Kinds == {"inward", "outward", "transfer", "adjustment",
          "project_dispatch", "project_return", "supplier_return"}
ReversibleKinds == Kinds \ {"adjustment"}

Line == [kind: Kinds \cup {"reversal"}, item: Items, from: Locations \cup {None},
         to: Locations \cup {None}, qty: Nat \ {0}]

TakesStock(kind) == kind \in {"outward", "project_dispatch", "supplier_return", "transfer"}
GivesStock(kind) == kind \in {"inward", "project_return", "transfer"}

\* CreateInventoryMovementRequest accepts this line, and
\* CreateInventoryMovementBatchRequest lets it stand among others.
Acceptable(line) ==
    /\ line.kind # "reversal"
    /\ TakesStock(line.kind) => line.from # None
    /\ GivesStock(line.kind) => line.to # None
    /\ line.kind = "transfer" => line.from # line.to
    /\ line.kind = "adjustment" => line.from # None \/ line.to # None

ASSUME BatchesAcceptable ==
    \A lines \in Batches :
        /\ lines \in Seq(Line) /\ lines # <<>>
        /\ \A k \in DOMAIN lines : Acceptable(lines[k])
        /\ Len(lines) > 1 => \E kind \in {"inward", "outward"} :
                                 \A k \in DOMAIN lines : lines[k].kind = kind

Source(line) == IF line.from = None THEN {} ELSE {<<line.item, line.from>>}
Destination(line) == IF line.to = None THEN {} ELSE {<<line.item, line.to>>}

Taken(line) == IF TakesStock(line.kind) THEN Source(line) ELSE {}
Given(line) == IF GivesStock(line.kind) THEN Destination(line) ELSE {}

----------------------------------------------------------------------------
(* An effect takes qty from some slots, adds it to some and sets others. *)

Effect == [out: SUBSET Slots, in: SUBSET Slots, set: SUBSET Slots, qty: Nat]

Posting(line) == [out |-> Taken(line), in |-> Given(line), set |-> {}, qty |-> line.qty]
Setting(line, slots) == [out |-> {}, in |-> {}, set |-> slots, qty |-> line.qty]

SourceForgotten(line) == [out |-> Given(line), in |-> {}, set |-> {}, qty |-> line.qty]
Undoing(line) == [out |-> Given(line), in |-> Taken(line), set |-> {}, qty |-> line.qty]

Unguarded(view, e) == \A x \in e.out \cup e.in \cup e.set : view[x] # Absent
Allowed(view, e) ==
    /\ e.out \cup e.in \cup e.set # {}
    /\ \A x \in e.out \cup e.in \cup e.set : view[x] # Absent
    /\ \A x \in e.out : view[x] >= e.qty

Applied(view, e) ==
    [x \in DOMAIN view |->
        IF x \in e.set THEN e.qty
        ELSE IF x \in e.in THEN view[x] + e.qty
        ELSE IF x \in e.out THEN view[x] - e.qty
        ELSE view[x]]

----------------------------------------------------------------------------
(* Movements are numbered in the order in which they are committed. *)

Row == [line: Line, status: {"completed", "reversed", "corrected"},
        reverses: Nat, corrects: Nat]

Posted(line) == [line |-> line, status |-> "completed", reverses |-> 0, corrects |-> 0]

Reversible(rows, m) ==
    /\ rows[m].status = "completed"
    /\ rows[m].line.kind \in ReversibleKinds
    /\ \A r \in DOMAIN rows : rows[r].reverses # m

Reversal(rows, m) ==
    [line |-> [rows[m].line EXCEPT !.kind = "reversal"], status |-> "completed",
     reverses |-> m, corrects |-> 0]
Correction(rows, m, qty) ==
    [line |-> [rows[m].line EXCEPT !.qty = qty], status |-> "completed",
     reverses |-> 0, corrects |-> m]
Marked(rows, m, status) == [rows EXCEPT ![m].status = status]
============================================================================
