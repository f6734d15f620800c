----------------------------- MODULE StockBook -----------------------------
(***************************************************************************)
(* What the inventory promises: requests that move stock take effect one   *)
(* at a time, whole or not at all, and never take more than there is.      *)
(***************************************************************************)
EXTENDS StockEffects

CONSTANTS Quantities

VARIABLES stock,      \* on hand in every slot; 0 where nothing was ever kept
          movement,   \* the movements posted so far
          item        \* the items that exist

vars == <<stock, movement, item>>

Init == /\ stock = [x \in Slots |-> 0]
        /\ movement = <<>>
        /\ item = {}

\* The balances before the effects es, and after each of them.
Levels(es) ==
    LET level[k \in 0..Len(es)] == IF k = 0 THEN stock ELSE Applied(level[k - 1], es[k])
    IN level

Performed(es) ==
    /\ \A k \in DOMAIN es : Allowed(Levels(es)[k - 1], es[k])
    /\ stock' = Levels(es)[Len(es)]

\* An adjustment sets one of the slots it names.
Effects(line) ==
    IF line.kind = "adjustment"
    THEN {Setting(line, {slot}) : slot \in Source(line) \cup Destination(line)}
    ELSE {Posting(line)}

CreateItem(i, l, opening) ==
    /\ i \notin item
    /\ item' = item \cup {i}
    /\ stock' = [stock EXCEPT ![<<i, l>>] = opening]
    /\ movement' = IF opening = 0 THEN movement
                   ELSE Append(movement, Posted([kind |-> "inward", item |-> i, from |-> None,
                                                 to |-> l, qty |-> opening]))

PostMovements(lines) ==
    /\ \A k \in DOMAIN lines : lines[k].item \in item
    /\ \E es \in [DOMAIN lines -> UNION {Effects(lines[k]) : k \in DOMAIN lines}] :
         /\ \A k \in DOMAIN lines : es[k] \in Effects(lines[k])
         /\ Performed(es)
    /\ movement' = movement \o [k \in DOMAIN lines |-> Posted(lines[k])]
    /\ UNCHANGED item

ReverseMovement(m) ==
    /\ Reversible(movement, m)
    /\ Performed(<<Undoing(movement[m].line)>>)
    /\ movement' = Marked(movement, m, "reversed") \o <<Reversal(movement, m)>>
    /\ UNCHANGED item

CorrectMovement(m, qty) ==
    /\ Reversible(movement, m)
    /\ qty # movement[m].line.qty
    /\ Performed(<<Undoing(movement[m].line), Posting([movement[m].line EXCEPT !.qty = qty])>>)
    /\ movement' = Marked(movement, m, "corrected")
                       \o <<Reversal(movement, m), Correction(movement, m, qty)>>
    /\ UNCHANGED item

Next == \/ \E i \in Items, l \in Locations, q \in Quantities \cup {0} : CreateItem(i, l, q)
        \/ \E lines \in Batches : PostMovements(lines)
        \/ \E m \in DOMAIN movement : ReverseMovement(m)
        \/ \E m \in DOMAIN movement, q \in Quantities : CorrectMovement(m, q)

Spec == Init /\ [][Next]_vars
============================================================================
