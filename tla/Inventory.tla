----------------------------- MODULE Inventory -----------------------------
(***************************************************************************)
(* Stock movements of backend/app/services/operations_service.py: items    *)
(* with opening stock, single movements and delivery notes of several      *)
(* lines, reversals and corrections.                                       *)
(*                                                                         *)
(* A request works on its own view of the balances it has locked (_balance *)
(* reads FOR UPDATE, source first, then destination) and writes it back    *)
(* when it commits.  A balance row that does not exist cannot be locked:   *)
(* two requests may both try to insert it, and the unique constraint ends  *)
(* the second one.  Customers and projects named by a movement, the texts  *)
(* copied from row to row and the deactivation of items and locations are  *)
(* left out.                                                               *)
(***************************************************************************)
EXTENDS StockEffects, FiniteSets, FiniteSetsExt

CONSTANTS Quantities,     \* quantities of openings and corrections
          Sessions,       \* concurrent requests
          MaxMovements    \* bound: rows of inventory_movements

ASSUME InventoryAssumption == /\ Quantities \subseteq Nat \ {0}
                              /\ MaxMovements \in Nat
                              /\ None \notin Locations

VARIABLES balance,    \* inventory_balances; Absent where there is no row
          movement,   \* inventory_movements
          item,       \* inventory_items
          req         \* what every session is doing

vars == <<balance, movement, item, req>>

Idle == [op |-> "idle"]

\* What a request still has to apply: an undo of a movement, or a posting.
Task == [undo: BOOLEAN, line: Line]

\* The balances a request has locked, with what it has made of them.
View == [Slots -> Nat \cup {Absent}]
Nothing == [x \in Slots |-> Absent]

Request == [op: {"post", "reverse", "correct"}, mv: Nat, qty: Nat, lines: Seq(Line),
            todo: Seq(Task), view: View,
            phase: {"movement", "source", "destination", "insert", "apply"}]

TypeOK ==
    /\ balance \in [Slots -> Nat \cup {Absent}]
    /\ movement \in Seq(Row)
    /\ item \in SUBSET Items
    /\ req \in [Sessions -> Request \cup {Idle}]

Init == /\ balance = [x \in Slots |-> Absent]
        /\ movement = <<>>
        /\ item = {}
        /\ req = [s \in Sessions |-> Idle]

Active(s) == req[s].op # "idle"
Holds(s, slot) == Active(s) /\ req[s].view[slot] # Absent
HoldsMovement(s, m) == Active(s) /\ req[s].mv = m /\ req[s].phase # "movement"

Become(s, r) == req' = [req EXCEPT ![s] = r]
Continue(s, phase) == req' = [req EXCEPT ![s].phase = phase]

----------------------------------------------------------------------------
(* Requests arrive. *)

RowsOf(r) == CASE r.op = "post" -> Len(r.lines) [] r.op = "reverse" -> 1
               [] r.op = "correct" -> 2 [] OTHER -> 0
\* Bound: requests whose rows fit.
Room(k) == Len(movement) + MapThenSumSet(LAMBDA s : RowsOf(req[s]), Sessions) + k
               <= MaxMovements

CreateItem(s, i, l, opening) ==
    /\ ~Active(s) /\ Room(1)
    /\ i \notin item
    /\ item' = item \cup {i}
    /\ balance' = [balance EXCEPT ![<<i, l>>] = opening]
    /\ movement' = IF opening = 0 THEN movement
                   ELSE Append(movement, Posted([kind |-> "inward", item |-> i, from |-> None,
                                                 to |-> l, qty |-> opening]))
    /\ UNCHANGED req

StartPost(s, lines) ==
    /\ ~Active(s) /\ Room(Len(lines))
    /\ \A k \in DOMAIN lines : lines[k].item \in item
    /\ Become(s, [op |-> "post", mv |-> 0, qty |-> 0, lines |-> lines,
                  todo |-> [k \in DOMAIN lines |-> [undo |-> FALSE, line |-> lines[k]]],
                  view |-> Nothing, phase |-> "source"])
    /\ UNCHANGED <<balance, movement, item>>

StartReverse(s, m) ==
    /\ ~Active(s) /\ Room(1)
    /\ Become(s, [op |-> "reverse", mv |-> m, qty |-> 0, lines |-> <<>>,
                  todo |-> <<[undo |-> TRUE, line |-> movement[m].line]>>,
                  view |-> Nothing, phase |-> "movement"])
    /\ UNCHANGED <<balance, movement, item>>

StartCorrect(s, m, qty) ==
    /\ ~Active(s) /\ Room(2)
    /\ Become(s, [op |-> "correct", mv |-> m, qty |-> qty, lines |-> <<>>,
                  todo |-> <<[undo |-> TRUE, line |-> movement[m].line],
                             [undo |-> FALSE, line |-> [movement[m].line EXCEPT !.qty = qty]]>>,
                  view |-> Nothing, phase |-> "movement"])
    /\ UNCHANGED <<balance, movement, item>>

----------------------------------------------------------------------------
(* A request locks what it needs, row by row. *)

Rollback(s) == Active(s) /\ Become(s, Idle) /\ UNCHANGED <<balance, movement, item>>

\* _load_movement_for_update, _assert_movement_reversible and the comparison
\* of the corrected quantity
Sensible(r) == /\ Reversible(movement, r.mv)
               /\ r.op = "correct" => r.qty # movement[r.mv].line.qty

LockMovement(s) ==
    /\ Active(s) /\ req[s].phase = "movement"
    /\ \A u \in Sessions \ {s} : ~HoldsMovement(u, req[s].mv)
    /\ Sensible(req[s])
    /\ Continue(s, "source")
    /\ UNCHANGED <<balance, movement, item>>
RefuseMovement(s) ==
    /\ Active(s) /\ req[s].phase = "movement"
    /\ \A u \in Sessions \ {s} : ~HoldsMovement(u, req[s].mv)
    /\ ~Sensible(req[s])
    /\ Rollback(s)

Current(s) == req[s].todo[1]
Working(s, phase) == Active(s) /\ req[s].phase = phase /\ req[s].todo # <<>>
Phase(s) == req[s].phase

\* The balance that the lookup in progress asks for.
Sought(s) == IF Phase(s) = "source" THEN Source(Current(s).line)
             ELSE Destination(Current(s).line)
NextPhase(s) == IF Phase(s) = "source" THEN "destination" ELSE "apply"
Creates(s) == Phase(s) = "destination" /\ ~Current(s).undo
LookingUp(s) == Working(s, "source") \/ Working(s, "destination")

\* No location is named, the balance is locked already, or there is none.
SkipBalance(s) ==
    /\ LookingUp(s)
    /\ \A slot \in Sought(s) : \/ Holds(s, slot)
                               \/ balance[slot] = Absent /\ ~Creates(s)
    /\ Continue(s, NextPhase(s))
    /\ UNCHANGED <<balance, movement, item>>

ReadBalance(s, slot) ==
    req' = [req EXCEPT ![s].view[slot] = balance[slot], ![s].phase = NextPhase(s)]
ReadUnlocked(s) ==
    /\ LookingUp(s)
    /\ \E slot \in Sought(s) :
         /\ ~Holds(s, slot) /\ balance[slot] # Absent
         /\ ReadBalance(s, slot)
    /\ UNCHANGED <<balance, movement, item>>
LockBalance(s) ==
    /\ LookingUp(s)
    /\ \E slot \in Sought(s) :
         /\ ~Holds(s, slot) /\ balance[slot] # Absent
         /\ \A u \in Sessions \ {s} : ~Holds(u, slot)
         /\ ReadBalance(s, slot)
    /\ UNCHANGED <<balance, movement, item>>

MissBalance(s) ==
    /\ LookingUp(s) /\ Creates(s)
    /\ \E slot \in Sought(s) : ~Holds(s, slot) /\ balance[slot] = Absent
    /\ Continue(s, "insert")
    /\ UNCHANGED <<balance, movement, item>>

OverwriteBalance(s) ==
    /\ Working(s, "insert")
    /\ \E slot \in Sought(s) :
         /\ \A u \in Sessions \ {s} : ~Holds(u, slot)
         /\ req' = [req EXCEPT ![s].view[slot] = 0, ![s].phase = "apply"]
    /\ UNCHANGED <<balance, movement, item>>

\* The insert waits for another uncommitted one of the same row, and fails if
\* that is committed.
InsertBalance(s) ==
    /\ Working(s, "insert")
    /\ \E slot \in Sought(s) :
         /\ balance[slot] = Absent
         /\ \A u \in Sessions \ {s} : ~Holds(u, slot)
         /\ req' = [req EXCEPT ![s].view[slot] = 0, ![s].phase = "apply"]
    /\ UNCHANGED <<balance, movement, item>>
DuplicateBalance(s) ==
    /\ Working(s, "insert")
    /\ \E slot \in Sought(s) : balance[slot] # Absent
    /\ Rollback(s)

----------------------------------------------------------------------------
(* Effects, and their commit. *)

\* What the task does, given the balances that were found.
EffectOf(task, view) ==
    IF task.undo THEN Undoing(task.line)
    ELSE IF task.line.kind # "adjustment" THEN Posting(task.line)
    ELSE Setting(task.line, IF \E slot \in Source(task.line) : view[slot] # Absent
                            THEN Source(task.line) ELSE Destination(task.line))

Apply(s) ==
    LET e == EffectOf(Current(s), req[s].view) IN
    /\ Working(s, "apply")
    /\ Allowed(req[s].view, e)
    /\ req' = [req EXCEPT ![s].view = Applied(@, e), ![s].todo = Tail(@),
                          ![s].phase = "source"]
    /\ UNCHANGED <<balance, movement, item>>

LeaveOpen(s) ==
    /\ Working(s, "apply")
    /\ ~Allowed(req[s].view, EffectOf(Current(s), req[s].view))
    /\ UNCHANGED vars
RefuseEffect(s) ==
    /\ Working(s, "apply")
    /\ ~Allowed(req[s].view, EffectOf(Current(s), req[s].view))
    /\ Rollback(s)

Corrected(rows, m, qty) ==
    Marked(rows, m, "corrected") \o <<Reversal(rows, m), Correction(rows, m, qty)>>

Commit(s) ==
    LET r == req[s] IN
    /\ Active(s) /\ r.phase = "source" /\ r.todo = <<>>
    /\ balance' = [x \in Slots |-> IF r.view[x] # Absent THEN r.view[x] ELSE balance[x]]
    /\ movement' = CASE r.op = "post" -> movement \o [k \in DOMAIN r.lines |-> Posted(r.lines[k])]
                     [] r.op = "reverse" -> Marked(movement, r.mv, "reversed")
                                                \o <<Reversal(movement, r.mv)>>
                     [] r.op = "correct" -> Corrected(movement, r.mv, r.qty)
    /\ Become(s, Idle)
    /\ UNCHANGED item

----------------------------------------------------------------------------
(* PostgreSQL breaks wait cycles. *)

WaitsFor(s) ==
    CASE Active(s) /\ Phase(s) = "movement" ->
             {u \in Sessions \ {s} : HoldsMovement(u, req[s].mv)}
      [] LookingUp(s) ->
             {u \in Sessions \ {s} : \E slot \in Sought(s) :
                                        /\ ~Holds(s, slot) /\ balance[slot] # Absent
                                        /\ Holds(u, slot)}
      [] Working(s, "insert") ->
             {u \in Sessions \ {s} : \E slot \in Sought(s) :
                                        balance[slot] = Absent /\ Holds(u, slot)}
      [] OTHER -> {}

WaitCycle(D) == D # {} /\ \A s \in D : WaitsFor(s) \cap D # {}
Deadlocked(s) == \E D \in SUBSET Sessions :
                     /\ s \in D /\ WaitCycle(D)
                     /\ \A E \in SUBSET D : WaitCycle(E) => E = D
BreakDeadlock(s) == Deadlocked(s) /\ Rollback(s)

----------------------------------------------------------------------------

Advance(s) == \/ LockMovement(s) \/ RefuseMovement(s)
              \/ SkipBalance(s) \/ LockBalance(s) \/ MissBalance(s)
              \/ InsertBalance(s) \/ DuplicateBalance(s)
              \/ Apply(s) \/ RefuseEffect(s) \/ Commit(s)

Start(s) == \/ \E i \in Items, l \in Locations, q \in Quantities \cup {0} : CreateItem(s, i, l, q)
            \/ \E lines \in Batches : StartPost(s, lines)
            \/ \E m \in DOMAIN movement : StartReverse(s, m)
            \/ \E m \in DOMAIN movement, q \in Quantities : StartCorrect(s, m, q)

Next == \E s \in Sessions : Start(s) \/ Advance(s) \/ Rollback(s)

Spec == Init /\ [][Next]_vars

\* Requests run on the thread pool; lock waiters are served in their order of
\* arrival (strong fairness).
LiveSpec == Spec /\ \A s \in Sessions : SF_vars(Advance(s)) /\ WF_vars(BreakDeadlock(s))

----------------------------------------------------------------------------

OnHand(slot) == IF balance[slot] = Absent THEN 0 ELSE balance[slot]
Adjusted(slot) == \E m \in DOMAIN movement :
                      /\ movement[m].line.kind = "adjustment"
                      /\ slot \in Source(movement[m].line) \cup Destination(movement[m].line)
InForce(m) == movement[m].status = "completed" /\ movement[m].line.kind # "reversal"
Change(m, slot) == (IF slot \in Given(movement[m].line) THEN movement[m].line.qty ELSE 0)
                   - (IF slot \in Taken(movement[m].line) THEN movement[m].line.qty ELSE 0)

\* The quantity on hand is what the movements in force add up to, unless a
\* count has replaced it: no interleaving loses or repeats an effect.
StockMatchesMovements ==
    \A slot \in Slots : ~Adjusted(slot) =>
        OnHand(slot) = MapThenSumSet(LAMBDA m : Change(m, slot),
                                     {m \in DOMAIN movement : InForce(m)})

\* Requests that interleave have the effect of requests one after another.
Book == INSTANCE StockBook WITH stock <- [x \in Slots |-> OnHand(x)]
Serializable == Book!Spec

\* Every request is answered, whatever balances the others hold.
EveryRequestEnds == \A s \in Sessions : Active(s) ~> ~Active(s)
============================================================================
