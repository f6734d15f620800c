-------------------------- MODULE InventoryProofs --------------------------
(* Theorems about Inventory, for every set of items, locations and sessions, *)
(* all delivery notes that may be posted, every quantity and every number of *)
(* movements.                                                                *)
EXTENDS Inventory, SequenceTheorems, FiniteSetTheorems, WellFoundedInduction, TLAPS

Rows == Seq(Row)
Stocks == [Slots -> Nat]
Stock == [x \in Slots |-> OnHand(x)]
Tasks == Seq(Task)

----------------------------------------------------------------------------
(* Lines and effects. *)

LEMMA SlotsOfLine ==
    ASSUME NEW line \in Line
    PROVE  /\ Source(line) \in SUBSET Slots /\ Destination(line) \in SUBSET Slots
           /\ \A x, y \in Source(line) : x = y
           /\ \A x, y \in Destination(line) : x = y
           /\ \A x \in Source(line) \cup Destination(line) : x[1] = line.item
           /\ Taken(line) \in SUBSET Slots /\ Given(line) \in SUBSET Slots
  <1>1. line.item \in Items /\ line.from \in Locations \cup {None}
        /\ line.to \in Locations \cup {None}
    BY DEF Line
  <1>2. /\ Source(line) \in SUBSET Slots /\ Destination(line) \in SUBSET Slots
        /\ \A x, y \in Source(line) : x = y
        /\ \A x, y \in Destination(line) : x = y
        /\ \A x \in Source(line) \cup Destination(line) : x[1] = line.item
    BY <1>1 DEF Source, Destination, Slots
  <1> QED
    BY <1>2 DEF Taken, Given

LEMMA EffectsOfLine ==
    ASSUME NEW line \in Line
    PROVE  /\ Undoing(line) \in Effect /\ Posting(line) \in Effect
           /\ \A S \in SUBSET Slots : Setting(line, S) \in Effect
  <1>1. line.qty \in Nat
    BY DEF Line
  <1>2. Taken(line) \in SUBSET Slots /\ Given(line) \in SUBSET Slots
    BY SlotsOfLine
  <1> QED
    BY <1>1, <1>2 DEF Undoing, Posting, Setting, Effect

LEMMA AppliedView ==
    ASSUME NEW view \in View, NEW e \in Effect, Allowed(view, e)
    PROVE  /\ Applied(view, e) \in View
           /\ \A x \in Slots : Applied(view, e)[x] = Absent <=> view[x] = Absent
           /\ \A x \in e.out \cup e.in \cup e.set : x \in Slots /\ view[x] # Absent
  <1>1. /\ e.out \in SUBSET Slots /\ e.in \in SUBSET Slots /\ e.set \in SUBSET Slots
        /\ e.qty \in Nat
    BY DEF Effect
  <1>2. /\ \A x \in e.out \cup e.in \cup e.set : view[x] # Absent
        /\ \A x \in e.out : view[x] >= e.qty
    BY DEF Allowed
  <1>3. ASSUME NEW x \in Slots
        PROVE  /\ Applied(view, e)[x] \in Nat \cup {Absent}
               /\ Applied(view, e)[x] = Absent <=> view[x] = Absent
    <2>1. Applied(view, e)[x] = IF x \in e.set THEN e.qty
                                ELSE IF x \in e.in THEN view[x] + e.qty
                                ELSE IF x \in e.out THEN view[x] - e.qty
                                ELSE view[x]
      BY DEF Applied, View
    <2>2. view[x] \in Nat \cup {Absent}
      BY DEF View
    <2> QED
      BY <1>1, <1>2, <2>1, <2>2 DEF Absent
  <1>4. DOMAIN Applied(view, e) = Slots
    BY DEF Applied, View
  <1>5. Applied(view, e) \in View
    BY <1>3, <1>4 DEF Applied, View
  <1> QED
    BY <1>1, <1>2, <1>3, <1>5

\* On stocks that agree with what a request holds, an effect that its view
\* allows has the same result.
LEMMA AppliedStock ==
    ASSUME NEW view \in View, NEW e \in Effect, Allowed(view, e), NEW b \in Stocks,
           \A x \in Slots : view[x] # Absent => b[x] = view[x]
    PROVE  /\ Allowed(b, e) /\ Applied(b, e) \in Stocks
           /\ \A x \in Slots : Applied(b, e)[x] = IF view[x] # Absent THEN Applied(view, e)[x]
                                                  ELSE b[x]
  <1>1. /\ e.out \in SUBSET Slots /\ e.in \in SUBSET Slots /\ e.set \in SUBSET Slots
        /\ e.qty \in Nat
    BY DEF Effect
  <1>2. /\ e.out \cup e.in \cup e.set # {}
        /\ \A x \in e.out \cup e.in \cup e.set : view[x] # Absent
        /\ \A x \in e.out : view[x] >= e.qty
    BY DEF Allowed
  <1>3. \A x \in Slots : b[x] \in Nat /\ b[x] # Absent
    BY DEF Stocks, Absent
  <1>4. Allowed(b, e)
    BY <1>1, <1>2, <1>3 DEF Allowed
  <1>5. ASSUME NEW x \in Slots
        PROVE  /\ Applied(b, e)[x] = IF view[x] # Absent THEN Applied(view, e)[x] ELSE b[x]
               /\ Applied(b, e)[x] \in Nat
    <2>1. /\ Applied(view, e)[x] = IF x \in e.set THEN e.qty
                                   ELSE IF x \in e.in THEN view[x] + e.qty
                                   ELSE IF x \in e.out THEN view[x] - e.qty
                                   ELSE view[x]
          /\ Applied(b, e)[x] = IF x \in e.set THEN e.qty
                                ELSE IF x \in e.in THEN b[x] + e.qty
                                ELSE IF x \in e.out THEN b[x] - e.qty
                                ELSE b[x]
      BY DEF Applied, View, Stocks
    <2>2. view[x] # Absent => b[x] = view[x]
      OBVIOUS
    <2>3. view[x] = Absent => x \notin e.set \cup e.in \cup e.out
      BY <1>2
    <2> QED
      BY <1>1, <1>2, <1>3, <2>1, <2>2, <2>3
  <1>6. Applied(b, e) \in Stocks
    <2>1. Applied(b, e) = [x \in Slots |-> Applied(b, e)[x]]
      BY DEF Applied, Stocks
    <2> QED
      BY <1>5, <2>1 DEF Stocks
  <1> QED
    BY <1>4, <1>5, <1>6

\* The abstract specification means the same by a line.
LEMMA SameWords ==
    /\ \A line : /\ Book!Source(line) = Source(line)
                 /\ Book!Destination(line) = Destination(line)
                 /\ Book!Posting(line) = Posting(line) /\ Book!Undoing(line) = Undoing(line)
    /\ \A line, S : Book!Setting(line, S) = Setting(line, S)
  <1>1. Book!None = None
    BY DEF Book!None, None
  <1>2. \A line : /\ Book!Source(line) = Source(line)
                 /\ Book!Destination(line) = Destination(line)
    BY <1>1 DEF Book!Source, Source, Book!Destination, Destination
  <1>3. \A line : Book!Taken(line) = Taken(line) /\ Book!Given(line) = Given(line)
    BY <1>2 DEF Book!Taken, Taken, Book!Given, Given, Book!TakesStock, TakesStock,
                Book!GivesStock, GivesStock
  <1> QED
    BY <1>2, <1>3 DEF Book!Posting, Posting, Book!Undoing, Undoing, Book!Setting, Setting

\* An effect that does what a task asks for.
Does(e, task) == IF task.undo THEN e = Undoing(task.line) ELSE e \in Book!Effects(task.line)

LEMMA EffectDoes ==
    ASSUME NEW task \in Task, NEW view \in View, Allowed(view, EffectOf(task, view))
    PROVE  EffectOf(task, view) \in Effect /\ Does(EffectOf(task, view), task)
  <1> DEFINE line == task.line
             S == IF \E slot \in Source(line) : view[slot] # Absent
                  THEN Source(line) ELSE Destination(line)
  <1>1. line \in Line
    BY DEF Task
  <1>2. /\ S \in SUBSET Slots /\ \A x, y \in S : x = y
        /\ S \subseteq Source(line) \cup Destination(line)
    BY <1>1, SlotsOfLine
  <1>3. CASE task.undo \/ line.kind # "adjustment"
    BY <1>1, <1>3, EffectsOfLine, SameWords DEF EffectOf, Does, Book!Effects
  <1>4. CASE ~task.undo /\ line.kind = "adjustment"
    <2>1. EffectOf(task, view) = Setting(line, S)
      BY <1>4 DEF EffectOf
    <2>2. S # {}
      BY <2>1 DEF Allowed, Setting
    <2>3. PICK x \in S : S = {x}
      BY <1>2, <2>2
    <2>4. Setting(line, {x}) \in Book!Effects(line)
      BY <1>2, <1>4, <2>3, SameWords DEF Book!Effects
    <2> QED
      BY <1>1, <1>2, <1>4, <2>1, <2>3, <2>4, EffectsOfLine DEF Does
  <1> QED
    BY <1>3, <1>4

----------------------------------------------------------------------------
(* The invariant.  What a request has done so far is a sequence of effects   *)
(* that would lead from the stock of this moment to what it has in its view, *)
(* whatever lies in the balances it has not locked.                          *)

Resized(line, qty) == [line EXCEPT !.qty = qty]
ToUndo(line) == [undo |-> TRUE, line |-> line]
ToPost(line) == [undo |-> FALSE, line |-> line]
Plan(rows, r) ==
    IF r.op = "post" THEN [k \in DOMAIN r.lines |-> ToPost(r.lines[k])]
    ELSE LET line == rows[r.mv].line
         IN IF r.op = "reverse" THEN <<ToUndo(line)>>
            ELSE <<ToUndo(line), ToPost(Resized(line, r.qty))>>

Fits(rows, r) == /\ Reversible(rows, r.mv)
                 /\ r.op = "correct" => r.qty # rows[r.mv].line.qty
Held(r) == {x \in Slots : r.view[x] # Absent}

Meant(rows, items, r) ==
    /\ r.op = "post" => /\ r.lines \in Batches /\ r.phase # "movement" /\ r.mv = 0
                        /\ \A k \in DOMAIN r.lines : r.lines[k].item \in items
    /\ r.op # "post" => /\ r.mv \in DOMAIN rows
                        /\ r.phase # "movement" => Fits(rows, r)
    /\ r.op = "correct" => r.qty \in Quantities
    /\ Len(r.todo) <= Len(Plan(rows, r))
    /\ \A k \in DOMAIN r.todo :
           r.todo[k] = Plan(rows, r)[Len(Plan(rows, r)) - Len(r.todo) + k]
    /\ \A x \in Held(r) : x[1] \in items

\* The stocks through which the effects es lead from b.
Run(b, es, h) ==
    /\ h \in [0..Len(es) -> Stocks] /\ h[0] = b
    /\ \A k \in DOMAIN es : Allowed(h[k - 1], es[k]) /\ h[k] = Applied(h[k - 1], es[k])

Trail(rows, stock, r, es) ==
    /\ Len(es) + Len(r.todo) = Len(Plan(rows, r))
    /\ \A k \in DOMAIN es : Does(es[k], Plan(rows, r)[k])
    /\ \A b \in Stocks : (\A x \in Held(r) : b[x] = stock[x]) =>
          \E h : /\ Run(b, es, h)
                 /\ \A x \in Slots : h[Len(es)][x] = IF x \in Held(r) THEN r.view[x] ELSE b[x]

Sound(rows, items, stock, r) ==
    /\ r \in Request /\ Meant(rows, items, r)
    /\ \E es \in Seq(Effect) : Trail(rows, stock, r, es)

RequestsSound == \A s \in Sessions : Active(s) => Sound(movement, item, Stock, req[s])

KnownItems == /\ \A x \in Slots : balance[x] # Absent => x[1] \in item
              /\ \A m \in DOMAIN movement : movement[m].line.item \in item

Apart(r, q) == /\ Held(r) \cap Held(q) = {}
               /\ r.mv = q.mv /\ r.mv # 0 => "movement" \in {r.phase, q.phase}
Exclusive == \A s, u \in Sessions : s # u /\ Active(s) /\ Active(u) => Apart(req[s], req[u])

\* What a request is about to insert it does not have yet.
Missing(r) == r.phase = "insert" => \A x \in Destination(r.todo[1].line) : x \notin Held(r)
Inserting == \A s \in Sessions : Active(s) => Missing(req[s])

Inductive == TypeOK /\ RequestsSound /\ KnownItems /\ Exclusive /\ Inserting

----------------------------------------------------------------------------
(* One request. *)

LEMMA BatchLines ==
    ASSUME NEW lines \in Batches
    PROVE  /\ lines \in Seq(Line) /\ Len(lines) \in Nat /\ DOMAIN lines = 1..Len(lines)
           /\ Len(lines) > 0 /\ \A k \in DOMAIN lines : lines[k] \in Line
  <1>1. lines \in Seq(Line) /\ lines # <<>>
    BY BatchesAcceptable
  <1> QED
    BY <1>1

LEMMA PlanOfPost ==
    ASSUME NEW lines \in Batches, NEW rows, NEW r, r.op = "post", r.lines = lines
    PROVE  /\ Plan(rows, r) \in Tasks /\ Len(Plan(rows, r)) = Len(lines)
           /\ DOMAIN Plan(rows, r) = DOMAIN lines
           /\ \A k \in DOMAIN lines : Plan(rows, r)[k] = ToPost(lines[k])
  <1>1. PICK n \in Nat : n = Len(lines) /\ DOMAIN lines = 1..n
    BY BatchLines
  <1>2. PICK p : p = Plan(rows, r)
    OBVIOUS
  <1>3. p = [k \in 1..n |-> ToPost(lines[k])]
    BY <1>1, <1>2 DEF Plan
  <1>4. \A k \in 1..n : ToPost(lines[k]) \in Task
    BY <1>1, BatchLines DEF Task, ToPost
  <1>5. p \in [1..n -> Task]
    BY <1>3, <1>4
  <1>6. p \in Seq(Task)
    BY <1>1, <1>5, SeqDef
  <1>7. DOMAIN p = 1..n /\ Len(p) = n
    BY <1>1, <1>5, <1>6, LenProperties
  <1> QED
    BY <1>1, <1>2, <1>3, <1>6, <1>7 DEF Tasks

LEMMA PlanOfUndo ==
    ASSUME NEW rows \in Rows, NEW r, r.op \in {"reverse", "correct"}, r.mv \in DOMAIN rows,
           r.op = "correct" => r.qty \in Quantities,
           NEW line, line = rows[r.mv].line
    PROVE  /\ line \in Line /\ Plan(rows, r) \in Tasks
           /\ Plan(rows, r)[1] = ToUndo(line)
           /\ r.op = "reverse" => Len(Plan(rows, r)) = 1
           /\ r.op = "correct" =>
                 /\ Len(Plan(rows, r)) = 2
                 /\ Plan(rows, r)[2] = ToPost(Resized(line, r.qty))
                 /\ Resized(line, r.qty) \in Line
  <1>0. rows[r.mv] \in Row
    BY DEF Rows
  <1>1. line \in Line
    BY <1>0 DEF Row
  <1>2. r.op = "correct" => Resized(line, r.qty) \in Line
    BY <1>1, InventoryAssumption DEF Line, Resized
  <1>3. ToUndo(line) \in Task
    BY <1>1 DEF Task, ToUndo
  <1>4. r.op = "correct" => ToPost(Resized(line, r.qty)) \in Task
    BY <1>2 DEF Task, ToPost
  <1> QED
    BY <1>1, <1>2, <1>3, <1>4 DEF Plan, Tasks

LEMMA PlanOfRequest ==
    ASSUME NEW rows \in Rows, NEW items, NEW r \in Request, Meant(rows, items, r)
    PROVE  Plan(rows, r) \in Tasks
  <1>1. CASE r.op = "post"
    BY <1>1, PlanOfPost DEF Meant
  <1>2. CASE r.op \in {"reverse", "correct"}
    <2>1. r.op = "correct" => r.qty \in Quantities
      BY DEF Meant
    <2>2. r.mv \in DOMAIN rows
      BY <1>2 DEF Meant
    <2>3. PICK line : line = rows[r.mv].line
      OBVIOUS
    <2> QED
      BY <1>2, <2>1, <2>2, <2>3, PlanOfUndo
  <1> QED
    BY <1>1, <1>2 DEF Request

\* A request that has only just begun has done nothing.
LEMMA BegunIsSound ==
    ASSUME NEW rows \in Rows, NEW items, NEW stock, NEW r \in Request, Meant(rows, items, r),
           r.todo = Plan(rows, r), Held(r) = {}
    PROVE  Sound(rows, items, stock, r)
  <1> DEFINE es == <<>>
  <1>1. es \in Seq(Effect) /\ Len(es) = 0 /\ DOMAIN es = {}
    OBVIOUS
  <1>2. Len(es) + Len(r.todo) = Len(Plan(rows, r))
    BY PlanOfRequest DEF Tasks
  <1>3. ASSUME NEW b \in Stocks
        PROVE  \E h : /\ Run(b, es, h)
                      /\ \A x \in Slots : h[Len(es)][x] = IF x \in Held(r) THEN r.view[x] ELSE b[x]
    <2> DEFINE h == [k \in 0..0 |-> b]
    <2>1. Run(b, es, h) /\ h[0] = b
      BY <1>1 DEF Run
    <2> QED
      BY <1>1, <2>1
  <1> QED
    BY <1>1, <1>2, <1>3 DEF Sound, Trail

\* A request that looks up balances goes on with the work it has begun.
SameWork(r, q) == /\ q.op = r.op /\ q.mv = r.mv /\ q.qty = r.qty /\ q.lines = r.lines
                  /\ q.todo = r.todo

LEMMA LookingIsSound ==
    ASSUME NEW rows, NEW items, NEW stock, NEW r, Sound(rows, items, stock, r),
           NEW q \in Request, SameWork(r, q), q.op = "post" => q.phase # "movement",
           q.op # "post" /\ q.phase # "movement" => Fits(rows, q),
           \A x \in Held(r) : x \in Held(q) /\ q.view[x] = r.view[x],
           \A x \in Held(q) : x \notin Held(r) => q.view[x] = stock[x] /\ x[1] \in items
    PROVE  Sound(rows, items, stock, q)
  <1>1. PICK es \in Seq(Effect) : Trail(rows, stock, r, es)
    BY DEF Sound
  <1>2. Plan(rows, q) = Plan(rows, r)
    BY DEF Plan, SameWork
  <1>3. Meant(rows, items, q)
    <2>1. Meant(rows, items, r)
      BY DEF Sound
    <2>2. \A x \in Held(q) : x[1] \in items
      BY <2>1 DEF Meant
    <2> QED
      BY <1>2, <2>1, <2>2 DEF Meant, SameWork
  <1>4. ASSUME NEW b \in Stocks, \A x \in Held(q) : b[x] = stock[x]
        PROVE  \E h : /\ Run(b, es, h)
                      /\ \A x \in Slots : h[Len(es)][x] = IF x \in Held(q) THEN q.view[x] ELSE b[x]
    <2>1. \A x \in Held(r) : b[x] = stock[x]
      BY <1>4
    <2>2. PICK h : /\ Run(b, es, h)
                   /\ \A x \in Slots : h[Len(es)][x] = IF x \in Held(r) THEN r.view[x] ELSE b[x]
      BY <1>1, <2>1 DEF Trail
    <2>3. \A x \in Slots : h[Len(es)][x] = IF x \in Held(q) THEN q.view[x] ELSE b[x]
      BY <1>4, <2>2
    <2> QED
      BY <2>2, <2>3
  <1>5. Trail(rows, stock, q, es)
    BY <1>1, <1>2, <1>4 DEF Trail, SameWork
  <1> QED
    BY <1>1, <1>3, <1>5 DEF Sound

\* A run that goes one effect further.
LEMMA LongerRun ==
    ASSUME NEW b, NEW es \in Seq(Effect), NEW h, Run(b, es, h), NEW e \in Effect, NEW c \in Stocks,
           Allowed(h[Len(es)], e), c = Applied(h[Len(es)], e)
    PROVE  \E g : Run(b, Append(es, e), g) /\ g[Len(es) + 1] = c
  <1>1. PICK n \in Nat : n = Len(es) /\ DOMAIN es = 1..n /\ h \in [0..n -> Stocks] /\ h[0] = b
    BY DEF Run
  <1> DEFINE g == [k \in 0..(n + 1) |-> IF k = n + 1 THEN c ELSE h[k]]
  <1>2. /\ Append(es, e) \in Seq(Effect) /\ Len(Append(es, e)) = n + 1
        /\ DOMAIN Append(es, e) = 1..(n + 1)
        /\ Append(es, e)[n + 1] = e /\ \A k \in 1..n : Append(es, e)[k] = es[k]
    BY <1>1
  <1>3. g \in [0..(n + 1) -> Stocks] /\ g[0] = b /\ g[n + 1] = c
    BY <1>1
  <1>4. ASSUME NEW k \in 1..(n + 1)
        PROVE  /\ Allowed(g[k - 1], Append(es, e)[k])
               /\ g[k] = Applied(g[k - 1], Append(es, e)[k])
    <2>1. CASE k = n + 1
      <3>1. g[n] = h[n] /\ (n + 1) - 1 = n
        BY <1>1
      <3>2. g[n + 1] = Applied(h[n], e) /\ Allowed(h[n], e)
        BY <1>1, <1>3
      <3> QED
        BY <1>2, <2>1, <3>1, <3>2
    <2>2. CASE k # n + 1
      <3>1. k \in 1..n /\ k - 1 \in 0..n /\ k - 1 # n + 1 /\ k - 1 \in 0..(n + 1)
        BY <1>1, <2>2
      <3>2. g[k] = h[k] /\ g[k - 1] = h[k - 1]
        BY <2>2, <3>1
      <3>3. Allowed(h[k - 1], es[k]) /\ h[k] = Applied(h[k - 1], es[k])
        BY <1>1, <3>1 DEF Run
      <3> QED
        BY <1>2, <3>1, <3>2, <3>3
    <2> QED
      BY <2>1, <2>2
  <1>5. Run(b, Append(es, e), g)
    BY <1>2, <1>3, <1>4 DEF Run
  <1> QED
    BY <1>1, <1>3, <1>5

\* A request applies the next of its effects.
LEMMA AppliedIsSound ==
    ASSUME NEW rows \in Rows, NEW items, NEW stock, NEW r, Sound(rows, items, stock, r),
           r.phase # "movement",
           NEW task, task = r.todo[1], r.todo # <<>>, NEW e, e = EffectOf(task, r.view),
           Allowed(r.view, e), NEW q \in Request,
           q.op = r.op, q.mv = r.mv, q.qty = r.qty, q.lines = r.lines, q.phase = "source",
           q.todo = Tail(r.todo), q.view = Applied(r.view, e)
    PROVE  Sound(rows, items, stock, q)
  <1>1. PICK es \in Seq(Effect) : Trail(rows, stock, r, es)
    BY DEF Sound
  <1>2. r \in Request /\ Meant(rows, items, r)
    BY DEF Sound
  <1>3. PICK p \in Tasks : p = Plan(rows, r) /\ p = Plan(rows, q)
    BY <1>2, PlanOfRequest DEF Plan
  <1>4. /\ r.todo \in Seq(Task) /\ r.view \in View /\ task \in Task
        /\ Len(q.todo) = Len(r.todo) - 1 /\ DOMAIN q.todo = 1..(Len(r.todo) - 1)
        /\ Len(r.todo) \in Nat /\ Len(r.todo) > 0
        /\ \A k \in DOMAIN q.todo : q.todo[k] = r.todo[k + 1]
    BY <1>2 DEF Request
  <1>5. e \in Effect /\ Does(e, task)
    BY <1>4, EffectDoes
  <1>6. /\ q.view \in View
        /\ \A x \in Slots : q.view[x] = Absent <=> r.view[x] = Absent
    BY <1>4, <1>5, AppliedView
  <1>7. Held(q) = Held(r)
    BY <1>6 DEF Held
  <1>8. PICK m \in Nat, n \in Nat, t \in Nat :
           /\ m = Len(p) /\ n = Len(es) /\ t = Len(r.todo) /\ n + t = m
           /\ t > 0 /\ Len(q.todo) = t - 1 /\ DOMAIN q.todo = 1..(t - 1)
           /\ \A k \in 1..t : r.todo[k] = p[n + k]
    <2>1. PICK m \in Nat, n \in Nat, t \in Nat :
             m = Len(p) /\ n = Len(es) /\ t = Len(r.todo) /\ DOMAIN r.todo = 1..t
      BY <1>4 DEF Tasks
    <2>2. n + t = m
      BY <1>1, <1>3, <2>1 DEF Trail
    <2>3. \A k \in 1..t : r.todo[k] = p[m - t + k]
      BY <1>2, <1>3, <2>1 DEF Meant
    <2>4. \A k \in 1..t : m - t + k = n + k
      BY <2>2
    <2>5. \A k \in 1..t : r.todo[k] = p[n + k]
      BY <2>3, <2>4
    <2>6. t > 0 /\ Len(q.todo) = t - 1 /\ DOMAIN q.todo = 1..(t - 1)
      BY <1>4, <2>1
    <2> QED
      BY <2>1, <2>2, <2>5, <2>6
  <1>16. task = p[n + 1]
    BY <1>8
  <1>9. Meant(rows, items, q)
    <2>1. \A k \in DOMAIN q.todo : q.todo[k] = p[m - Len(q.todo) + k]
      <3>1. ASSUME NEW k \in 1..(t - 1)
            PROVE  q.todo[k] = p[m - (t - 1) + k]
        <4>1. k + 1 \in 1..t /\ q.todo[k] = r.todo[k + 1]
          BY <1>4, <1>8
        <4>2. r.todo[k + 1] = p[n + (k + 1)]
          BY <1>8, <4>1
        <4>3. n + (k + 1) = m - (t - 1) + k
          <5>1. k \in Int /\ n \in Int /\ t \in Int /\ m = n + t
            BY <1>8
          <5> QED
            BY <5>1
        <4> QED
          BY <4>1, <4>2, <4>3
      <3> QED
        BY <1>8, <3>1
    <2>2. Len(q.todo) <= m
      BY <1>8
    <2>3. r.op # "post" => Fits(rows, q)
      BY <1>2 DEF Meant, Fits
    <2> QED
      BY <1>2, <1>3, <1>7, <1>8, <2>1, <2>2, <2>3 DEF Meant
  <1>10. /\ Append(es, e) \in Seq(Effect) /\ Len(Append(es, e)) = n + 1
         /\ DOMAIN Append(es, e) = 1..(n + 1)
         /\ Append(es, e)[n + 1] = e /\ \A k \in 1..n : Append(es, e)[k] = es[k]
         /\ DOMAIN es = 1..n
    BY <1>5, <1>8
  <1>11. \A k \in 1..(n + 1) : Does(Append(es, e)[k], p[k])
    <2>1. \A k \in 1..n : Does(es[k], p[k])
      BY <1>1, <1>3, <1>10 DEF Trail
    <2> QED
      BY <1>5, <1>16, <1>10, <2>1
  <1>12. ASSUME NEW b \in Stocks, \A x \in Held(q) : b[x] = stock[x]
         PROVE  \E g : /\ Run(b, Append(es, e), g)
                       /\ \A x \in Slots : g[n + 1][x] = IF x \in Held(q) THEN q.view[x] ELSE b[x]
    <2>1. PICK h : /\ Run(b, es, h)
                   /\ \A x \in Slots : h[n][x] = IF x \in Held(r) THEN r.view[x] ELSE b[x]
      BY <1>1, <1>7, <1>8, <1>12 DEF Trail
    <2>2. PICK c : c = h[n]
      OBVIOUS
    <2>3. c \in Stocks
      BY <1>8, <2>1, <2>2 DEF Run
    <2>4. \A x \in Slots : r.view[x] # Absent => c[x] = r.view[x]
      BY <2>1, <2>2 DEF Held
    <2>5. PICK d \in Stocks :
             /\ d = Applied(c, e) /\ Allowed(c, e)
             /\ \A x \in Slots : d[x] = IF r.view[x] # Absent THEN q.view[x] ELSE c[x]
      BY <1>4, <1>5, <2>3, <2>4, AppliedStock
    <2>6. PICK g : Run(b, Append(es, e), g) /\ g[n + 1] = d
      <3>1. c = h[Len(es)]
        BY <1>8, <2>2
      <3>2. \E g : Run(b, Append(es, e), g) /\ g[Len(es) + 1] = d
        BY <1>5, <2>1, <2>5, <3>1, LongerRun
      <3> QED
        BY <1>8, <3>2
    <2>7. \A x \in Slots : g[n + 1][x] = IF x \in Held(q) THEN q.view[x] ELSE b[x]
      BY <1>7, <2>1, <2>2, <2>5, <2>6 DEF Held
    <2> QED
      BY <2>6, <2>7
  <1>13. Len(Append(es, e)) + Len(q.todo) = Len(Plan(rows, q))
    <2>1. Len(Append(es, e)) = n + 1 /\ Len(q.todo) = t - 1 /\ Len(Plan(rows, q)) = m
      BY <1>3, <1>8, <1>10
    <2>2. \A i, j, k \in Nat : i + j = k => (i + 1) + (j - 1) = k
      OBVIOUS
    <2>3. (n + 1) + (t - 1) = m
      BY <1>8, <2>2
    <2> QED
      BY <2>1, <2>3
  <1>14. Trail(rows, stock, q, Append(es, e))
    <2>1. \A k \in DOMAIN Append(es, e) : Does(Append(es, e)[k], Plan(rows, q)[k])
      BY <1>3, <1>10, <1>11
    <2>2. ASSUME NEW b \in Stocks, \A x \in Held(q) : b[x] = stock[x]
          PROVE  \E h : /\ Run(b, Append(es, e), h)
                        /\ \A x \in Slots : h[Len(Append(es, e))][x] =
                                              IF x \in Held(q) THEN q.view[x] ELSE b[x]
      BY <1>10, <1>12, <2>2
    <2> QED
      BY <1>13, <2>1, <2>2 DEF Trail
  <1> QED
    BY <1>9, <1>10, <1>14 DEF Sound

\* What other requests commit does not disturb a request.
LEMMA OthersKeepSound ==
    ASSUME NEW rows, NEW items, NEW stock, NEW r, Sound(rows, items, stock, r),
           NEW rows2, NEW items2, NEW stock2,
           \A m \in DOMAIN rows : m \in DOMAIN rows2 /\ rows2[m].line = rows[m].line,
           items \subseteq items2, \A x \in Held(r) : stock2[x] = stock[x],
           r.op # "post" /\ r.phase # "movement" /\ Fits(rows, r) => Fits(rows2, r)
    PROVE  Sound(rows2, items2, stock2, r)
  <1>1. PICK es \in Seq(Effect) : Trail(rows, stock, r, es)
    BY DEF Sound
  <1>2. r \in Request /\ Meant(rows, items, r)
    BY DEF Sound
  <1>3. Plan(rows2, r) = Plan(rows, r)
    <2>1. CASE r.op = "post"
      BY <2>1 DEF Plan
    <2>2. CASE r.op # "post"
      <3>1. rows2[r.mv].line = rows[r.mv].line
        BY <1>2, <2>2 DEF Meant
      <3> QED
        BY <2>2, <3>1 DEF Plan
    <2> QED
      BY <2>1, <2>2
  <1>4. Meant(rows2, items2, r)
    BY <1>2, <1>3 DEF Meant
  <1>5. Trail(rows2, stock2, r, es)
    BY <1>1, <1>3 DEF Trail
  <1> QED
    BY <1>1, <1>2, <1>4, <1>5 DEF Sound

----------------------------------------------------------------------------
(* The steps of a request, and its end. *)

LEMMA RequestOf ==
    ASSUME Inductive, NEW s \in Sessions, Active(s)
    PROVE  /\ req[s] \in Request /\ Sound(movement, item, Stock, req[s])
           /\ Meant(movement, item, req[s]) /\ Missing(req[s])
  <1>1. Sound(movement, item, Stock, req[s]) /\ Missing(req[s])
    BY DEF Inductive, RequestsSound, Inserting
  <1> QED
    BY <1>1 DEF Sound

LEMMA RowOfMovement ==
    ASSUME TypeOK, NEW m \in DOMAIN movement
    PROVE  m \in Nat \ {0} /\ movement[m] \in Row /\ movement[m].line \in Line
  <1>1. m \in Nat \ {0} /\ movement[m] \in Row
    BY DEF TypeOK
  <1> QED
    BY <1>1 DEF Row

LEMMA StockIsStock ==
    ASSUME TypeOK
    PROVE  Stock \in Stocks
  <1>1. \A x \in Slots : OnHand(x) \in Nat
    BY DEF TypeOK, OnHand, Absent
  <1> QED
    BY <1>1 DEF Stock, Stocks

\* Only the request of one session changes.
LEMMA RequestStep ==
    ASSUME Inductive, NEW s \in Sessions, NEW q \in Request, req' = [req EXCEPT ![s] = q],
           UNCHANGED <<balance, movement, item>>,
           Sound(movement, item, Stock, q), Missing(q),
           \A u \in Sessions \ {s} : Active(u) => Apart(q, req[u])
    PROVE  Inductive'
  <1>1. /\ req \in [Sessions -> Request \cup {Idle}]
        /\ \A u \in Sessions : req'[u] = IF u = s THEN q ELSE req[u]
    BY DEF Inductive, TypeOK
  <1>2. TypeOK'
    BY <1>1 DEF Inductive, TypeOK
  <1>3. KnownItems'
    BY DEF Inductive, KnownItems
  <1>4. Stock' = Stock
    BY DEF Stock, OnHand
  <1>5. RequestsSound'
    BY <1>1, <1>4 DEF Inductive, RequestsSound, Active
  <1>6. Inserting'
    BY <1>1 DEF Inductive, Inserting, Active
  <1>7. \A u \in Sessions \ {s} : Active(u) => Apart(req[u], q)
    BY DEF Apart
  <1>8. Exclusive'
    BY <1>1, <1>7 DEF Inductive, Exclusive, Active
  <1> QED
    BY <1>2, <1>3, <1>5, <1>6, <1>8 DEF Inductive

LEMMA EndStep ==
    ASSUME Inductive, NEW s \in Sessions, Become(s, Idle), UNCHANGED <<balance, movement, item>>
    PROVE  Inductive'
  <1>1. /\ req \in [Sessions -> Request \cup {Idle}]
        /\ \A u \in Sessions : req'[u] = IF u = s THEN Idle ELSE req[u]
        /\ req' \in [Sessions -> Request \cup {Idle}]
    BY DEF Inductive, TypeOK, Become
  <1>2. Idle.op = "idle"
    BY DEF Idle
  <1>3. TypeOK' /\ KnownItems'
    BY <1>1 DEF Inductive, TypeOK, KnownItems
  <1>4. Stock' = Stock
    BY DEF Stock, OnHand
  <1>5. RequestsSound' /\ Inserting' /\ Exclusive'
    BY <1>1, <1>2, <1>4 DEF Inductive, RequestsSound, Inserting, Exclusive, Active
  <1> QED
    BY <1>3, <1>5 DEF Inductive

\* A request arrives.
LEMMA BeginStep ==
    ASSUME Inductive, NEW s \in Sessions, NEW q \in Request, req' = [req EXCEPT ![s] = q],
           UNCHANGED <<balance, movement, item>>,
           Meant(movement, item, q), q.todo = Plan(movement, q), q.view = Nothing,
           q.phase # "insert", q.mv = 0 \/ q.phase = "movement"
    PROVE  Inductive'
  <1>1. Held(q) = {}
    BY DEF Held, Nothing
  <1>2. movement \in Rows
    BY DEF Inductive, TypeOK, Rows
  <1>3. Sound(movement, item, Stock, q)
    BY <1>1, <1>2, BegunIsSound
  <1>4. \A u \in Sessions : Apart(q, req[u])
    BY <1>1 DEF Apart
  <1> QED
    BY <1>3, <1>4, RequestStep DEF Missing

LEMMA NothingIsAView ==
    Nothing \in View
  BY DEF Nothing, View

LEMMA NothingDone ==
    ASSUME NEW p \in Tasks
    PROVE  Len(p) <= Len(p) /\ \A k \in DOMAIN p : p[k] = p[Len(p) - Len(p) + k]
  <1>1. PICK n \in Nat : n = Len(p) /\ DOMAIN p = 1..n
    BY DEF Tasks
  <1> QED
    BY <1>1

LEMMA StartPostKeeps ==
    ASSUME Inductive, NEW s \in Sessions, NEW lines \in Batches, StartPost(s, lines)
    PROVE  Inductive'
  <1> DEFINE q == [op |-> "post", mv |-> 0, qty |-> 0, lines |-> lines,
                   todo |-> [k \in DOMAIN lines |-> [undo |-> FALSE, line |-> lines[k]]],
                   view |-> Nothing, phase |-> "source"]
  <1>1. /\ q.op = "post" /\ q.mv = 0 /\ q.qty = 0 /\ q.lines = lines /\ q.view = Nothing
        /\ q.phase = "source"
        /\ q.todo = [k \in DOMAIN lines |-> [undo |-> FALSE, line |-> lines[k]]]
    OBVIOUS
  <1>2. q.todo = Plan(movement, q)
    BY <1>1 DEF Plan, ToPost
  <1>3. q.todo \in Seq(Task) /\ Plan(movement, q) \in Tasks
    BY <1>1, <1>2, PlanOfPost DEF Tasks
  <1>4. q \in Request
    <2>1. lines \in Seq(Line)
      BY BatchLines
    <2> QED
      BY <1>3, <2>1, NothingIsAView DEF Request
  <1>5. Meant(movement, item, q)
    <2>1. \A k \in DOMAIN lines : lines[k].item \in item
      BY DEF StartPost
    <2>2. /\ Len(q.todo) <= Len(Plan(movement, q))
          /\ \A k \in DOMAIN q.todo :
                 q.todo[k] = Plan(movement, q)[Len(Plan(movement, q)) - Len(q.todo) + k]
      BY <1>2, <1>3, NothingDone
    <2>3. Held(q) = {}
      BY <1>1 DEF Held, Nothing
    <2> HIDE DEF q
    <2> QED
      BY <1>1, <2>1, <2>2, <2>3 DEF Meant
  <1> HIDE DEF q
  <1>6. req' = [req EXCEPT ![s] = q] /\ UNCHANGED <<balance, movement, item>>
    BY DEF StartPost, Become, q
  <1> QED
    BY <1>1, <1>2, <1>4, <1>5, <1>6, BeginStep

LEMMA StartUndoKeeps ==
    ASSUME Inductive, NEW s \in Sessions, NEW m \in DOMAIN movement, NEW q \in Request,
           q.op \in {"reverse", "correct"}, q.mv = m,
           q.op = "correct" => q.qty \in Quantities,
           q.todo = Plan(movement, q), q.view = Nothing, q.phase = "movement",
           req' = [req EXCEPT ![s] = q], UNCHANGED <<balance, movement, item>>
    PROVE  Inductive'
  <1>1. movement \in Rows /\ m \in Nat
    BY DEF Inductive, TypeOK, Rows
  <1>2. PICK p \in Tasks : p = q.todo /\ p = Plan(movement, q)
    BY DEF Request, Tasks
  <1>4. Meant(movement, item, q)
    <2>1. Len(p) <= Len(p) /\ \A k \in DOMAIN p : p[k] = p[Len(p) - Len(p) + k]
      BY NothingDone
    <2>2. Held(q) = {}
      BY DEF Held, Nothing
    <2> QED
      BY <1>2, <2>1, <2>2 DEF Meant
  <1> QED
    BY <1>4, BeginStep

LEMMA StartReverseKeeps ==
    ASSUME Inductive, NEW s \in Sessions, NEW m \in DOMAIN movement, StartReverse(s, m)
    PROVE  Inductive'
  <1> DEFINE q == [op |-> "reverse", mv |-> m, qty |-> 0, lines |-> <<>>,
                   todo |-> <<[undo |-> TRUE, line |-> movement[m].line]>>,
                   view |-> Nothing, phase |-> "movement"]
  <1>1. /\ q.op = "reverse" /\ q.mv = m /\ q.qty = 0 /\ q.lines = <<>>
        /\ q.view = Nothing /\ q.phase = "movement"
        /\ q.todo = <<[undo |-> TRUE, line |-> movement[m].line]>>
    OBVIOUS
  <1>2. q.todo = Plan(movement, q)
    BY <1>1 DEF Plan, ToUndo
  <1>3. q \in Request
    <2>1. movement[m].line \in Line /\ m \in Nat
      BY RowOfMovement DEF Inductive
    <2>2. [undo |-> TRUE, line |-> movement[m].line] \in Task
      BY <2>1 DEF Task
    <2>3. <<>> \in Seq(Line)
      OBVIOUS
    <2> QED
      BY <2>1, <2>2, <2>3, NothingIsAView DEF Request
  <1>4. req' = [req EXCEPT ![s] = q] /\ UNCHANGED <<balance, movement, item>>
    BY DEF StartReverse, Become
  <1> HIDE DEF q
  <1> QED
    BY <1>1, <1>2, <1>3, <1>4, StartUndoKeeps

LEMMA StartCorrectKeeps ==
    ASSUME Inductive, NEW s \in Sessions, NEW m \in DOMAIN movement, NEW qty \in Quantities,
           StartCorrect(s, m, qty)
    PROVE  Inductive'
  <1> DEFINE q == [op |-> "correct", mv |-> m, qty |-> qty, lines |-> <<>>,
                   todo |-> <<[undo |-> TRUE, line |-> movement[m].line],
                              [undo |-> FALSE, line |-> [movement[m].line EXCEPT !.qty = qty]]>>,
                   view |-> Nothing, phase |-> "movement"]
  <1>1. /\ q.op = "correct" /\ q.mv = m /\ q.qty = qty /\ q.lines = <<>>
        /\ q.view = Nothing /\ q.phase = "movement"
        /\ q.todo = <<ToUndo(movement[m].line), ToPost(Resized(movement[m].line, qty))>>
    BY DEF ToUndo, ToPost, Resized
  <1>2. q.todo = Plan(movement, q)
    BY <1>1 DEF Plan
  <1>3. q \in Request
    <2>1. movement[m].line \in Line /\ m \in Nat
      BY RowOfMovement DEF Inductive
    <2>2. qty \in Nat \ {0}
      BY InventoryAssumption
    <2>3. [movement[m].line EXCEPT !.qty = qty] \in Line
      BY <2>1, <2>2 DEF Line
    <2>4. /\ [undo |-> TRUE, line |-> movement[m].line] \in Task
          /\ [undo |-> FALSE, line |-> [movement[m].line EXCEPT !.qty = qty]] \in Task
      BY <2>1, <2>3 DEF Task
    <2>5. q.todo \in Seq(Task) /\ <<>> \in Seq(Line)
      BY <2>4
    <2> QED
      BY <2>1, <2>2, <2>5, NothingIsAView DEF Request
  <1>4. req' = [req EXCEPT ![s] = q] /\ UNCHANGED <<balance, movement, item>>
    BY DEF StartCorrect, Become
  <1> HIDE DEF q
  <1> QED
    BY <1>1, <1>2, <1>3, <1>4, StartUndoKeeps

\* What a request works on are known items.
LEMMA CurrentLine ==
    ASSUME Inductive, NEW s \in Sessions, Active(s), req[s].phase # "movement",
           req[s].todo # <<>>
    PROVE  /\ Current(s) \in Task /\ Current(s).line \in Line /\ Current(s).line.item \in item
           /\ Sought(s) \in SUBSET Slots /\ \A x \in Sought(s) : x[1] \in item
  <1> DEFINE r == req[s]
  <1>1. r \in Request /\ Meant(movement, item, r) /\ movement \in Rows
    BY RequestOf DEF Inductive, TypeOK, Rows
  <1>2. PICK p \in Tasks : p = Plan(movement, r)
    BY <1>1, PlanOfRequest
  <1>3. PICK n \in Nat, t \in Nat : /\ n = Len(p) /\ t = Len(r.todo) /\ t > 0 /\ t <= n
                                    /\ DOMAIN r.todo = 1..t /\ DOMAIN p = 1..n
                                    /\ r.todo[1] = p[n - t + 1] /\ r.todo[1] \in Task
    <2>1. r.todo \in Seq(Task)
      BY <1>1 DEF Request
    <2>2. PICK n \in Nat, t \in Nat : /\ n = Len(p) /\ t = Len(r.todo) /\ t > 0
                                      /\ DOMAIN r.todo = 1..t /\ DOMAIN p = 1..n
                                      /\ 1 \in DOMAIN r.todo /\ r.todo[1] \in Task
      BY <2>1 DEF Tasks
    <2>3. t <= n /\ r.todo[1] = p[n - t + 1]
      BY <1>1, <1>2, <2>2 DEF Meant
    <2> QED
      BY <2>2, <2>3
  <1>4. n - t + 1 \in 1..n
    BY <1>3
  <1>5. \A k \in 1..n : p[k].line.item \in item
    <2>1. CASE r.op = "post"
      <3>1. r.lines \in Batches /\ \A k \in DOMAIN r.lines : r.lines[k].item \in item
        BY <1>1, <2>1 DEF Meant
      <3>2. \A k \in DOMAIN r.lines : p[k] = ToPost(r.lines[k])
        BY <1>2, <2>1, <3>1, PlanOfPost
      <3>3. DOMAIN r.lines = DOMAIN p
        BY <1>2, <2>1, <3>1, PlanOfPost
      <3>4. \A x : ToPost(x).line = x
        BY DEF ToPost
      <3>5. ASSUME NEW k \in 1..n
            PROVE  p[k].line.item \in item
        <4>1. k \in DOMAIN r.lines
          BY <1>3, <3>3
        <4>2. p[k].line = r.lines[k]
          BY <3>2, <3>4, <4>1
        <4> QED
          BY <3>1, <4>1, <4>2
      <3> QED
        BY <3>5
    <2>2. CASE r.op # "post"
      <3>1. PICK line : line = movement[r.mv].line
        OBVIOUS
      <3>2. r.mv \in DOMAIN movement /\ r.op \in {"reverse", "correct"}
            /\ (r.op = "correct" => r.qty \in Quantities)
        BY <1>1, <2>2 DEF Meant, Request
      <3>3. line.item \in item
        BY <3>1, <3>2 DEF Inductive, KnownItems
      <3>4. line \in Line
        BY <3>1, <3>2, RowOfMovement DEF Inductive
      <3>5. /\ r.op = "reverse" => n = 1
            /\ r.op = "correct" => n = 2 /\ p[2] = ToPost(Resized(line, r.qty))
            /\ p[1] = ToUndo(line)
        BY <1>1, <1>2, <1>3, <3>1, <3>2, PlanOfUndo
      <3>6. ToUndo(line).line.item \in item /\ ToPost(Resized(line, r.qty)).line.item \in item
        BY <3>3, <3>4 DEF ToUndo, ToPost, Resized, Line
      <3>7. ASSUME NEW k \in 1..n
            PROVE  k = 1 \/ (k = 2 /\ r.op = "correct")
        <4>1. CASE r.op = "reverse"
          <5>1. n = 1
            BY <3>5, <4>1
          <5> QED
            BY <5>1
        <4>2. CASE r.op = "correct"
          BY <3>5, <4>2
        <4> QED
          BY <3>2, <4>1, <4>2
      <3> QED
        BY <3>5, <3>6, <3>7
    <2> QED
      BY <2>1, <2>2
  <1>6. Current(s) \in Task /\ Current(s).line.item \in item
    BY <1>3, <1>4, <1>5 DEF Current
  <1>7. Current(s).line \in Line
    BY <1>6 DEF Task
  <1> QED
    BY <1>6, <1>7, SlotsOfLine DEF Sought

LEMMA LockMovementKeeps ==
    ASSUME Inductive, NEW s \in Sessions, LockMovement(s)
    PROVE  Inductive'
  <1>1. PICK r : r = req[s]
    OBVIOUS
  <1>2. r \in Request /\ Sound(movement, item, Stock, r)
    BY <1>1, RequestOf DEF LockMovement
  <1>3. PICK q : q = [r EXCEPT !.phase = "source"]
    OBVIOUS
  <1>4. q \in Request /\ SameWork(r, q) /\ q.phase = "source" /\ q.view = r.view
    BY <1>2, <1>3 DEF Request, SameWork
  <1>5. req' = [req EXCEPT ![s] = q] /\ UNCHANGED <<balance, movement, item>>
    BY <1>1, <1>3 DEF LockMovement, Continue
  <1>6. Fits(movement, q)
    BY <1>1, <1>4 DEF LockMovement, Sensible, Fits, SameWork
  <1>7. Sound(movement, item, Stock, q)
    BY <1>2, <1>4, <1>6, LookingIsSound DEF Held
  <1>8. \A u \in Sessions \ {s} : Active(u) => Apart(q, req[u])
    <2>1. \A u \in Sessions \ {s} : Active(u) /\ req[u].mv = r.mv => req[u].phase = "movement"
      BY <1>1 DEF LockMovement, HoldsMovement
    <2>2. \A u \in Sessions \ {s} : Active(u) => Apart(r, req[u])
      BY <1>1 DEF Inductive, Exclusive, LockMovement
    <2> QED
      BY <1>4, <2>1, <2>2 DEF Apart, Held, SameWork
  <1> QED
    BY <1>4, <1>5, <1>7, <1>8, RequestStep DEF Missing

\* A request whose lookups go on without a new lock.
LEMMA GoesOn ==
    ASSUME Inductive, NEW s \in Sessions, Active(s), req[s].phase # "movement",
           NEW phase \in {"source", "destination", "insert", "apply"}, Continue(s, phase),
           UNCHANGED <<balance, movement, item>>,
           phase = "insert" =>
               \A x \in Destination(req[s].todo[1].line) : req[s].view[x] = Absent
    PROVE  Inductive'
  <1>1. PICK r : r = req[s]
    OBVIOUS
  <1>2. r \in Request /\ Sound(movement, item, Stock, r) /\ Meant(movement, item, r)
    BY <1>1, RequestOf
  <1>3. PICK q : q = [r EXCEPT !.phase = phase]
    OBVIOUS
  <1>4. q \in Request /\ SameWork(r, q) /\ q.phase = phase /\ q.view = r.view
    BY <1>2, <1>3 DEF Request, SameWork
  <1>5. req' = [req EXCEPT ![s] = q]
    BY <1>1, <1>3 DEF Continue
  <1>6. q.op # "post" => Fits(movement, q)
    BY <1>1, <1>2, <1>4 DEF Meant, Fits, SameWork
  <1>7. Sound(movement, item, Stock, q)
    BY <1>2, <1>4, <1>6, LookingIsSound DEF Held
  <1>8. \A u \in Sessions \ {s} : Active(u) => Apart(q, req[u])
    <2>1. \A u \in Sessions \ {s} : Active(u) => Apart(r, req[u])
      BY <1>1 DEF Inductive, Exclusive
    <2> QED
      BY <1>1, <1>4, <2>1 DEF Apart, Held, SameWork
  <1>9. Missing(q)
    BY <1>1, <1>4 DEF Missing, Held, SameWork
  <1> QED
    BY <1>4, <1>5, <1>7, <1>8, <1>9, RequestStep

LEMMA SkipBalanceKeeps ==
    ASSUME Inductive, NEW s \in Sessions, SkipBalance(s)
    PROVE  Inductive'
  <1>1. Active(s) /\ req[s].phase \in {"source", "destination"}
    BY DEF SkipBalance, LookingUp, Working
  <1>2. NextPhase(s) \in {"destination", "apply"}
    BY DEF NextPhase
  <1> QED
    BY <1>1, <1>2, GoesOn DEF SkipBalance

LEMMA MissBalanceKeeps ==
    ASSUME Inductive, NEW s \in Sessions, MissBalance(s)
    PROVE  Inductive'
  <1>1. Active(s) /\ req[s].phase = "destination" /\ req[s].todo # <<>>
    BY DEF MissBalance, LookingUp, Working, Creates, Phase
  <1>2. Sought(s) = Destination(Current(s).line) /\ Current(s).line \in Line
    BY <1>1, CurrentLine DEF Sought, Phase
  <1>3. \A x \in Destination(req[s].todo[1].line) : req[s].view[x] = Absent
    BY <1>1, <1>2, SlotsOfLine DEF MissBalance, Current, Holds
  <1> QED
    BY <1>1, <1>3, GoesOn DEF MissBalance

\* A request that adds to what it holds a balance that no other one holds.
LEMMA Finds ==
    ASSUME Inductive, NEW s \in Sessions, Active(s), req[s].phase # "movement",
           NEW phase \in {"destination", "apply"}, NEW slot \in Slots, slot[1] \in item,
           req[s].view[slot] = Absent, \A u \in Sessions \ {s} : ~Holds(u, slot),
           req' = [req EXCEPT ![s].view[slot] = OnHand(slot), ![s].phase = phase],
           UNCHANGED <<balance, movement, item>>
    PROVE  Inductive'
  <1>1. PICK r : r = req[s]
    OBVIOUS
  <1>2. r \in Request /\ Sound(movement, item, Stock, r) /\ Meant(movement, item, r)
    BY <1>1, RequestOf
  <1>3. r.view \in View /\ OnHand(slot) \in Nat
    BY <1>2 DEF Request, OnHand, Inductive, TypeOK, Absent
  <1>4. PICK v : v = [r.view EXCEPT ![slot] = OnHand(slot)]
    OBVIOUS
  <1>5. v \in View /\ \A x \in Slots : v[x] = IF x = slot THEN OnHand(slot) ELSE r.view[x]
    BY <1>3, <1>4 DEF View
  <1>6. PICK q : q = [r EXCEPT !.view = v, !.phase = phase]
    OBVIOUS
  <1>7. q \in Request /\ SameWork(r, q) /\ q.phase = phase /\ q.view = v
    BY <1>2, <1>5, <1>6 DEF Request, SameWork
  <1>8. req' = [req EXCEPT ![s] = q]
    <2>1. req' = [req EXCEPT ![s] = [[r EXCEPT !.view = [r.view EXCEPT ![slot] = OnHand(slot)]]
                                        EXCEPT !.phase = phase]]
      BY <1>1
    <2>2. [[r EXCEPT !.view = v] EXCEPT !.phase = phase] = q
      BY <1>6
    <2> QED
      BY <1>4, <2>1, <2>2
  <1>9. q.op # "post" => Fits(movement, q)
    BY <1>1, <1>2, <1>7 DEF Meant, Fits, SameWork
  <1>10. Held(q) = Held(r) \cup {slot} /\ slot \notin Held(r)
    BY <1>1, <1>3, <1>5, <1>7 DEF Held, Absent
  <1>11. Sound(movement, item, Stock, q)
    <2>1. \A x \in Held(r) : x \in Held(q) /\ q.view[x] = r.view[x]
      BY <1>5, <1>7, <1>10 DEF Held
    <2>2. \A x \in Held(q) : x \notin Held(r) => q.view[x] = Stock[x] /\ x[1] \in item
      BY <1>5, <1>7, <1>10 DEF Stock
    <2> QED
      BY <1>2, <1>7, <1>9, <2>1, <2>2, LookingIsSound
  <1>12. \A u \in Sessions \ {s} : Active(u) => Apart(q, req[u])
    <2>1. \A u \in Sessions \ {s} : Active(u) => Apart(r, req[u])
      BY <1>1 DEF Inductive, Exclusive
    <2>2. \A u \in Sessions \ {s} : Active(u) => slot \notin Held(req[u])
      BY DEF Held, Holds
    <2> QED
      BY <1>1, <1>7, <1>10, <2>1, <2>2 DEF Apart, SameWork
  <1> QED
    BY <1>7, <1>8, <1>11, <1>12, RequestStep DEF Missing

LEMMA LockBalanceKeeps ==
    ASSUME Inductive, NEW s \in Sessions, LockBalance(s)
    PROVE  Inductive'
  <1>1. /\ Active(s) /\ req[s].phase \in {"source", "destination"} /\ req[s].todo # <<>>
        /\ UNCHANGED <<balance, movement, item>>
    BY DEF LockBalance, LookingUp, Working
  <1>2. PICK slot \in Sought(s) : /\ ~Holds(s, slot) /\ balance[slot] # Absent
                                  /\ \A u \in Sessions \ {s} : ~Holds(u, slot)
                                  /\ ReadBalance(s, slot)
    BY DEF LockBalance
  <1>3. slot \in Slots /\ slot[1] \in item
    BY <1>1, CurrentLine
  <1>4. balance[slot] = OnHand(slot)
    BY <1>2 DEF OnHand
  <1>5. NextPhase(s) \in {"destination", "apply"}
    BY DEF NextPhase
  <1>6. req' = [req EXCEPT ![s].view[slot] = OnHand(slot), ![s].phase = NextPhase(s)]
    BY <1>2, <1>4 DEF ReadBalance
  <1>7. req[s].view[slot] = Absent
    BY <1>1, <1>2 DEF Holds
  <1> QED
    BY <1>1, <1>2, <1>3, <1>5, <1>6, <1>7, Finds

LEMMA InsertBalanceKeeps ==
    ASSUME Inductive, NEW s \in Sessions, InsertBalance(s)
    PROVE  Inductive'
  <1>1. /\ Active(s) /\ req[s].phase = "insert" /\ req[s].todo # <<>>
        /\ UNCHANGED <<balance, movement, item>>
    BY DEF InsertBalance, Working
  <1>2. PICK slot \in Sought(s) :
           /\ balance[slot] = Absent /\ \A u \in Sessions \ {s} : ~Holds(u, slot)
           /\ req' = [req EXCEPT ![s].view[slot] = 0, ![s].phase = "apply"]
    BY DEF InsertBalance
  <1>3. slot \in Slots /\ slot[1] \in item
    BY <1>1, CurrentLine
  <1>4. OnHand(slot) = 0
    BY <1>2 DEF OnHand
  <1>5. req[s].view[slot] = Absent
    <2>1. slot \in Destination(req[s].todo[1].line)
      BY <1>1 DEF Sought, Phase, Current
    <2> QED
      BY <1>1, <1>3, <2>1, RequestOf DEF Missing, Held
  <1> QED
    BY <1>1, <1>2, <1>3, <1>4, <1>5, Finds

LEMMA ApplyKeeps ==
    ASSUME Inductive, NEW s \in Sessions, Apply(s)
    PROVE  Inductive'
  <1>1. PICK r : r = req[s]
    OBVIOUS
  <1>2. PICK task, e : task = r.todo[1] /\ e = EffectOf(task, r.view)
    OBVIOUS
  <1>3. /\ Active(s) /\ r.phase = "apply" /\ r.todo # <<>> /\ Allowed(r.view, e)
        /\ UNCHANGED <<balance, movement, item>>
    BY <1>1, <1>2 DEF Apply, Working, Current
  <1>4. r \in Request /\ Sound(movement, item, Stock, r) /\ movement \in Rows
    BY <1>1, <1>3, RequestOf DEF Inductive, TypeOK, Rows
  <1>5. task = Current(s) /\ task \in Task
    BY <1>1, <1>2, <1>3, CurrentLine DEF Current
  <1>6. PICK v, todo : v = Applied(r.view, e) /\ todo = Tail(r.todo)
    OBVIOUS
  <1>7. v \in View /\ todo \in Seq(Task) /\ \A x \in Slots : v[x] = Absent <=> r.view[x] = Absent
    <2>1. r.view \in View /\ r.todo \in Seq(Task)
      BY <1>4 DEF Request
    <2>2. e \in Effect
      BY <1>2, <1>3, <1>5, <2>1, EffectDoes
    <2>3. todo \in Seq(Task)
      BY <1>3, <1>6, <2>1
    <2> QED
      BY <1>3, <1>6, <2>1, <2>2, <2>3, AppliedView
  <1>8. PICK q : q = [r EXCEPT !.view = v, !.todo = todo, !.phase = "source"]
    OBVIOUS
  <1>9. /\ q \in Request /\ q.op = r.op /\ q.mv = r.mv /\ q.qty = r.qty /\ q.lines = r.lines
        /\ q.phase = "source" /\ q.todo = Tail(r.todo) /\ q.view = Applied(r.view, e)
    BY <1>4, <1>6, <1>7, <1>8 DEF Request
  <1>10. req' = [req EXCEPT ![s] = q]
    <2>1. req' = [req EXCEPT ![s].view = Applied(@, e), ![s].todo = Tail(@), ![s].phase = "source"]
      BY <1>1, <1>2 DEF Apply, Current
    <2>2. req' = [req EXCEPT ![s] = [[[r EXCEPT !.view = v] EXCEPT !.todo = todo]
                                        EXCEPT !.phase = "source"]]
      BY <1>1, <1>4, <1>6, <2>1 DEF Request
    <2> QED
      BY <1>8, <2>2
  <1>11. Sound(movement, item, Stock, q)
    BY <1>2, <1>3, <1>4, <1>9, AppliedIsSound
  <1>12. \A u \in Sessions \ {s} : Active(u) => Apart(q, req[u])
    <2>1. \A u \in Sessions \ {s} : Active(u) => Apart(r, req[u])
      BY <1>1, <1>3 DEF Inductive, Exclusive
    <2>2. Held(q) = Held(r)
      BY <1>6, <1>7, <1>9 DEF Held
    <2> QED
      BY <1>3, <1>9, <2>1, <2>2 DEF Apart
  <1> QED
    BY <1>3, <1>9, <1>10, <1>11, <1>12, RequestStep DEF Missing

----------------------------------------------------------------------------
(* What a commit leaves in inventory_movements. *)

LEMMA AppendOne ==
    ASSUME NEW S, NEW rows \in Seq(S), NEW row \in S
    PROVE  /\ rows \o <<row>> \in Seq(S) /\ Len(rows \o <<row>>) = Len(rows) + 1
           /\ DOMAIN (rows \o <<row>>) = 1..(Len(rows) + 1)
           /\ \A k \in DOMAIN rows : (rows \o <<row>>)[k] = rows[k]
           /\ (rows \o <<row>>)[Len(rows) + 1] = row
  OBVIOUS

LEMMA AppendTwo ==
    ASSUME NEW S, NEW rows \in Seq(S), NEW row \in S, NEW row2 \in S
    PROVE  /\ rows \o <<row, row2>> \in Seq(S) /\ Len(rows \o <<row, row2>>) = Len(rows) + 2
           /\ DOMAIN (rows \o <<row, row2>>) = 1..(Len(rows) + 2)
           /\ \A k \in DOMAIN rows : (rows \o <<row, row2>>)[k] = rows[k]
           /\ (rows \o <<row, row2>>)[Len(rows) + 1] = row
           /\ (rows \o <<row, row2>>)[Len(rows) + 2] = row2
  OBVIOUS

LEMMA PostedRow ==
    ASSUME NEW line \in Line
    PROVE  /\ Posted(line) \in Row /\ Posted(line).line = line /\ Posted(line).reverses = 0
           /\ Posted(line).status = "completed" /\ Posted(line).corrects = 0
  BY DEF Posted, Row

LEMMA MarkedRows ==
    ASSUME NEW rows \in Rows, NEW m \in DOMAIN rows, NEW status \in {"reversed", "corrected"}
    PROVE  /\ Marked(rows, m, status) \in Rows /\ Len(Marked(rows, m, status)) = Len(rows)
           /\ DOMAIN Marked(rows, m, status) = DOMAIN rows
           /\ Marked(rows, m, status)[m].status = status
  <1>1. rows \in Seq(Row) /\ rows[m] \in Row
    BY DEF Rows
  <1>2. PICK row : row = [rows[m] EXCEPT !.status = status]
    OBVIOUS
  <1>3. row \in Row /\ row.line = rows[m].line /\ row.status = status
    BY <1>1, <1>2 DEF Row
  <1>4. Marked(rows, m, status) = [rows EXCEPT ![m] = row]
    BY <1>2 DEF Marked
  <1> QED
    BY <1>1, <1>3, <1>4 DEF Rows

LEMMA MarkedRow ==
    ASSUME NEW rows \in Rows, NEW m \in DOMAIN rows, NEW status, NEW k \in DOMAIN rows
    PROVE  /\ k # m => Marked(rows, m, status)[k] = rows[k]
           /\ Marked(rows, m, status)[k].line = rows[k].line
           /\ Marked(rows, m, status)[k].reverses = rows[k].reverses
  <1>1. rows[k] \in Row
    BY DEF Rows
  <1>2. PICK row : row = [rows[m] EXCEPT !.status = status]
    OBVIOUS
  <1>3. row.line = rows[m].line /\ row.reverses = rows[m].reverses
    BY <1>1, <1>2 DEF Row, Rows
  <1>4. Marked(rows, m, status) = [rows EXCEPT ![m] = row]
    BY <1>2 DEF Marked
  <1> QED
    BY <1>1, <1>3, <1>4 DEF Rows

LEMMA ReversalRow ==
    ASSUME NEW rows \in Rows, NEW m \in DOMAIN rows
    PROVE  /\ Reversal(rows, m) \in Row /\ Reversal(rows, m).line.kind = "reversal"
           /\ Reversal(rows, m).line.item = rows[m].line.item
           /\ Reversal(rows, m).reverses = m
  <1>1. rows[m] \in Row /\ m \in Nat
    BY DEF Rows
  <1>2. rows[m].line \in Line
    BY <1>1 DEF Row
  <1>3. PICK line : line = [rows[m].line EXCEPT !.kind = "reversal"]
    OBVIOUS
  <1>4. line \in Line /\ line.kind = "reversal" /\ line.item = rows[m].line.item
    BY <1>2, <1>3 DEF Line
  <1> QED
    BY <1>1, <1>3, <1>4 DEF Reversal, Row

LEMMA CorrectionRow ==
    ASSUME NEW rows \in Rows, NEW m \in DOMAIN rows, NEW qty \in Quantities
    PROVE  /\ Correction(rows, m, qty) \in Row
           /\ Correction(rows, m, qty).line = Resized(rows[m].line, qty)
           /\ Resized(rows[m].line, qty) \in Line
           /\ Resized(rows[m].line, qty).item = rows[m].line.item
           /\ Resized(rows[m].line, qty).qty = qty
           /\ Resized(rows[m].line, qty).kind = rows[m].line.kind
           /\ Resized(rows[m].line, qty).from = rows[m].line.from
           /\ Resized(rows[m].line, qty).to = rows[m].line.to
           /\ Correction(rows, m, qty).status = "completed"
           /\ Correction(rows, m, qty).reverses = 0
  <1>1. rows[m] \in Row /\ m \in Nat
    BY DEF Rows
  <1>2. rows[m].line \in Line /\ qty \in Nat \ {0}
    BY <1>1, InventoryAssumption DEF Row
  <1>3. PICK line : line = Resized(rows[m].line, qty)
    OBVIOUS
  <1>4. /\ line \in Line /\ line.item = rows[m].line.item /\ line.qty = qty
        /\ line.kind = rows[m].line.kind /\ line.from = rows[m].line.from
        /\ line.to = rows[m].line.to
    BY <1>2, <1>3 DEF Line, Resized
  <1>5. Correction(rows, m, qty) = [line |-> line, status |-> "completed", reverses |-> 0,
                                    corrects |-> m]
    BY <1>3 DEF Correction, Resized
  <1> QED
    BY <1>1, <1>3, <1>4, <1>5 DEF Row

\* The rows of a request are at the end, and of the others only the one that it
\* undoes has another status.
Grown(rows, rows2, m) ==
    /\ rows2 \in Rows
    /\ \A k \in DOMAIN rows : /\ k \in DOMAIN rows2 /\ rows2[k].line = rows[k].line
                              /\ rows2[k].reverses = rows[k].reverses
                              /\ k # m => rows2[k] = rows[k]

NewRows(rows, rows2, items, m) ==
    \A k \in DOMAIN rows2 \ DOMAIN rows : /\ rows2[k].line.item \in items
                                          /\ rows2[k].reverses \in {0, m}

AfterPost(rows, lines) == rows \o [k \in DOMAIN lines |-> Posted(lines[k])]
AfterReverse(rows, m) == Marked(rows, m, "reversed") \o <<Reversal(rows, m)>>

LEMMA PostGrows ==
    ASSUME NEW rows \in Rows, NEW lines \in Batches
    PROVE  /\ Grown(rows, AfterPost(rows, lines), 0)
           /\ Len(AfterPost(rows, lines)) = Len(rows) + Len(lines)
           /\ \A k \in 1..Len(lines) : AfterPost(rows, lines)[Len(rows) + k] = Posted(lines[k])
           /\ \A items : (\A k \in DOMAIN lines : lines[k].item \in items)
                            => NewRows(rows, AfterPost(rows, lines), items, 0)
  <1>1. PICK n \in Nat : n = Len(lines) /\ DOMAIN lines = 1..n
    BY BatchLines
  <1>2. PICK add : add = [k \in 1..n |-> Posted(lines[k])]
    OBVIOUS
  <1>3. \A k \in 1..n : lines[k] \in Line
    BY <1>1, BatchLines
  <1>4. add \in [1..n -> Row] /\ \A k \in 1..n : add[k] = Posted(lines[k])
    BY <1>2, <1>3, PostedRow
  <1>5. add \in Seq(Row) /\ Len(add) = n
    BY <1>4, SeqDef, LenProperties
  <1>6. PICK l \in Nat : l = Len(rows) /\ DOMAIN rows = 1..l /\ rows \in Seq(Row)
    BY DEF Rows
  <1>7. PICK all : all = AfterPost(rows, lines) /\ all = rows \o add
    BY <1>1, <1>2 DEF AfterPost
  <1>8. /\ all \in Rows /\ Len(all) = l + n /\ DOMAIN all = 1..(l + n)
        /\ \A k \in 1..l : all[k] = rows[k]
        /\ \A k \in 1..n : all[l + k] = add[k]
    <2>1. all \in Seq(Row) /\ Len(all) = l + n
      BY <1>5, <1>6, <1>7, ConcatProperties
    <2>2. /\ \A k \in 1..l : all[k] = rows[k]
          /\ \A k \in 1..n : all[l + k] = add[k]
      BY <1>5, <1>6, <1>7
    <2> QED
      BY <2>1, <2>2, LenProperties DEF Rows
  <1>9. Grown(rows, all, 0)
    BY <1>6, <1>8 DEF Grown
  <1>10. ASSUME NEW k \in DOMAIN all \ DOMAIN rows
         PROVE  k - l \in 1..n /\ all[k] = Posted(lines[k - l])
    <2>1. k - l \in 1..n /\ l + (k - l) = k
      BY <1>6, <1>8
    <2> QED
      BY <1>4, <1>8, <2>1
  <1>11. ASSUME NEW items, \A k \in DOMAIN lines : lines[k].item \in items
         PROVE  NewRows(rows, all, items, 0)
    BY <1>1, <1>3, <1>10, <1>11, PostedRow DEF NewRows
  <1> QED
    BY <1>1, <1>4, <1>6, <1>7, <1>8, <1>9, <1>11

LEMMA ReverseGrows ==
    ASSUME NEW rows \in Rows, NEW m \in DOMAIN rows
    PROVE  /\ Grown(rows, AfterReverse(rows, m), m)
           /\ Len(AfterReverse(rows, m)) = Len(rows) + 1
           /\ AfterReverse(rows, m)[m].status = "reversed"
           /\ AfterReverse(rows, m)[Len(rows) + 1].line.kind = "reversal"
           /\ \A items : rows[m].line.item \in items
                            => NewRows(rows, AfterReverse(rows, m), items, m)
  <1>1. PICK l \in Nat : l = Len(rows) /\ DOMAIN rows = 1..l /\ m \in 1..l
    BY DEF Rows
  <1>2. PICK marked, row : marked = Marked(rows, m, "reversed") /\ row = Reversal(rows, m)
    OBVIOUS
  <1>3. /\ marked \in Seq(Row) /\ Len(marked) = l /\ DOMAIN marked = 1..l
        /\ \A k \in 1..l : /\ (k # m => marked[k] = rows[k]) /\ marked[k].line = rows[k].line
                           /\ marked[k].reverses = rows[k].reverses
        /\ marked[m].status = "reversed"
    <2>1. marked \in Rows /\ Len(marked) = Len(rows) /\ DOMAIN marked = DOMAIN rows
          /\ marked[m].status = "reversed"
      BY <1>2, MarkedRows
    <2>2. \A k \in DOMAIN rows : (k # m => marked[k] = rows[k]) /\ marked[k].line = rows[k].line
                               /\ marked[k].reverses = rows[k].reverses
      BY <1>2, MarkedRow
    <2> QED
      BY <1>1, <2>1, <2>2 DEF Rows
  <1>4. /\ row \in Row /\ row.line.kind = "reversal" /\ row.line.item = rows[m].line.item
        /\ row.reverses = m
    BY <1>2, ReversalRow
  <1>5. PICK all : all = AfterReverse(rows, m) /\ all = marked \o <<row>>
    BY <1>2 DEF AfterReverse
  <1>6. /\ all \in Seq(Row) /\ Len(all) = l + 1 /\ DOMAIN all = 1..(l + 1)
        /\ \A k \in 1..l : all[k] = marked[k]
        /\ all[l + 1] = row
    BY <1>3, <1>4, <1>5, AppendOne
  <1>7. Grown(rows, all, m)
    BY <1>1, <1>3, <1>6 DEF Grown, Rows
  <1>8. \A k \in DOMAIN all \ DOMAIN rows : all[k] = row
    BY <1>1, <1>6
  <1>9. \A items : rows[m].line.item \in items => NewRows(rows, all, items, m)
    BY <1>4, <1>8 DEF NewRows
  <1> QED
    BY <1>1, <1>3, <1>4, <1>5, <1>6, <1>7, <1>9

LEMMA CorrectGrows ==
    ASSUME NEW rows \in Rows, NEW m \in DOMAIN rows, NEW qty \in Quantities
    PROVE  /\ Grown(rows, Corrected(rows, m, qty), m)
           /\ Len(Corrected(rows, m, qty)) = Len(rows) + 2
           /\ Corrected(rows, m, qty)[m].status = "corrected"
           /\ Corrected(rows, m, qty)[Len(rows) + 1].line.kind = "reversal"
           /\ Corrected(rows, m, qty)[Len(rows) + 2].line = Resized(rows[m].line, qty)
           /\ Corrected(rows, m, qty)[Len(rows) + 2].status = "completed"
           /\ \A items : rows[m].line.item \in items
                            => NewRows(rows, Corrected(rows, m, qty), items, m)
  <1>1. PICK l \in Nat : l = Len(rows) /\ DOMAIN rows = 1..l /\ m \in 1..l
    BY DEF Rows
  <1>2. PICK marked, row, row2 : /\ marked = Marked(rows, m, "corrected")
                                 /\ row = Reversal(rows, m) /\ row2 = Correction(rows, m, qty)
    OBVIOUS
  <1>3. /\ marked \in Seq(Row) /\ Len(marked) = l /\ DOMAIN marked = 1..l
        /\ \A k \in 1..l : /\ (k # m => marked[k] = rows[k]) /\ marked[k].line = rows[k].line
                           /\ marked[k].reverses = rows[k].reverses
        /\ marked[m].status = "corrected"
    <2>1. marked \in Rows /\ Len(marked) = Len(rows) /\ DOMAIN marked = DOMAIN rows
          /\ marked[m].status = "corrected"
      BY <1>2, MarkedRows
    <2>2. \A k \in DOMAIN rows : (k # m => marked[k] = rows[k]) /\ marked[k].line = rows[k].line
                               /\ marked[k].reverses = rows[k].reverses
      BY <1>2, MarkedRow
    <2> QED
      BY <1>1, <2>1, <2>2 DEF Rows
  <1>4. /\ row \in Row /\ row.line.kind = "reversal" /\ row.line.item = rows[m].line.item
        /\ row.reverses = m
    BY <1>2, ReversalRow
  <1>5. /\ row2 \in Row /\ row2.line = Resized(rows[m].line, qty)
        /\ row2.line.item = rows[m].line.item
        /\ row2.reverses = 0 /\ row2.status = "completed"
    BY <1>2, CorrectionRow
  <1>6. PICK all : all = Corrected(rows, m, qty) /\ all = marked \o <<row, row2>>
    BY <1>2 DEF Corrected
  <1>7. /\ all \in Seq(Row) /\ Len(all) = l + 2 /\ DOMAIN all = 1..(l + 2)
        /\ \A k \in 1..l : all[k] = marked[k]
        /\ all[l + 1] = row /\ all[l + 2] = row2
    <2>1. /\ all \in Seq(Row) /\ Len(all) = Len(marked) + 2 /\ DOMAIN all = 1..(Len(marked) + 2)
          /\ \A k \in DOMAIN marked : all[k] = marked[k]
          /\ all[Len(marked) + 1] = row /\ all[Len(marked) + 2] = row2
      <3>1. marked \in Seq(Row) /\ row \in Row /\ row2 \in Row /\ all = marked \o <<row, row2>>
        BY <1>3, <1>4, <1>5, <1>6
      <3> QED
        BY ONLY <3>1, AppendTwo
    <2> QED
      BY <1>3, <2>1
  <1>8. Grown(rows, all, m)
    BY <1>1, <1>3, <1>7 DEF Grown, Rows
  <1>9. \A k \in DOMAIN all \ DOMAIN rows : all[k] = row \/ all[k] = row2
    BY <1>1, <1>7
  <1>10. \A items : rows[m].line.item \in items => NewRows(rows, all, items, m)
    BY <1>4, <1>5, <1>9 DEF NewRows
  <1> QED
    BY <1>1, <1>3, <1>4, <1>5, <1>6, <1>7, <1>8, <1>10

----------------------------------------------------------------------------
(* What a commit means for the other requests. *)

LEMMA Commits ==
    ASSUME Inductive, NEW s \in Sessions, NEW m, NEW D,
           Grown(movement, movement', m), NewRows(movement, movement', item', m),
           item \subseteq item', item' \in SUBSET Items,
           balance' \in [Slots -> Nat \cup {Absent}],
           \A x \in Slots : x \notin D => balance'[x] = balance[x],
           \A x \in Slots : balance'[x] # Absent => x[1] \in item',
           \A u \in Sessions \ {s} : Active(u) =>
               /\ Held(req[u]) \cap D = {}
               /\ req[u].mv = m /\ m # 0 => req[u].phase = "movement",
           req' \in [Sessions -> Request \cup {Idle}],
           \A u \in Sessions : Active(u)' => u # s /\ Active(u) /\ req'[u] = req[u]
    PROVE  Inductive'
  <1>1. TypeOK'
    BY DEF Inductive, TypeOK, Grown, Rows
  <1>2. KnownItems'
    <2>1. ASSUME NEW k \in DOMAIN movement'
          PROVE  movement'[k].line.item \in item'
      <3>1. CASE k \in DOMAIN movement
        BY <3>1 DEF Grown, Inductive, KnownItems
      <3>2. CASE k \notin DOMAIN movement
        BY <3>2 DEF NewRows
      <3> QED
        BY <3>1, <3>2
    <2> QED
      BY <2>1 DEF KnownItems
  <1>3. Exclusive' /\ Inserting'
    BY DEF Inductive, Exclusive, Inserting
  <1>4. ASSUME NEW u \in Sessions, Active(u)'
        PROVE  Sound(movement', item', Stock', req'[u])
    <2>1. PICK r : r = req[u] /\ r = req'[u]
      BY <1>4
    <2>2. u # s /\ Active(u)
      BY <1>4
    <2>3. /\ r \in Request /\ Sound(movement, item, Stock, r) /\ Meant(movement, item, r)
      BY <2>1, <2>2, RequestOf
    <2>4. \A x \in Held(r) : Stock'[x] = Stock[x]
      <3>1. \A x \in Held(r) : x \in Slots /\ balance'[x] = balance[x]
        BY <2>1, <2>2 DEF Held
      <3> QED
        BY <3>1 DEF Stock, OnHand
    <2>5. ASSUME r.op # "post", r.phase # "movement", Fits(movement, r)
          PROVE  Fits(movement', r)
      <3>1. r.mv \in DOMAIN movement /\ r.mv # m /\ r.mv # 0
        <4>1. r.mv \in DOMAIN movement
          BY <2>3, <2>5 DEF Meant
        <4>2. r.mv # 0
          BY <4>1, RowOfMovement DEF Inductive
        <4> QED
          BY <2>1, <2>2, <2>5, <4>1, <4>2
      <3>2. movement'[r.mv] = movement[r.mv]
        BY <3>1 DEF Grown
      <3>3. ASSUME NEW k \in DOMAIN movement'
            PROVE  movement'[k].reverses # r.mv
        <4>1. CASE k \in DOMAIN movement
          BY <2>5, <4>1 DEF Grown, Fits, Reversible
        <4>2. CASE k \notin DOMAIN movement
          BY <3>1, <4>2 DEF NewRows
        <4> QED
          BY <4>1, <4>2
      <3> QED
        BY <2>5, <3>2, <3>3 DEF Fits, Reversible
    <2>6. \A k \in DOMAIN movement : k \in DOMAIN movement' /\ movement'[k].line = movement[k].line
      BY DEF Grown
    <2> QED
      BY <2>1, <2>3, <2>4, <2>5, <2>6, OthersKeepSound
  <1>5. RequestsSound'
    BY <1>4 DEF RequestsSound
  <1> QED
    BY <1>1, <1>2, <1>3, <1>5 DEF Inductive

Opening(i, l, opening) ==
    [kind |-> "inward", item |-> i, from |-> None, to |-> l, qty |-> opening]

LEMMA OpeningLine ==
    ASSUME NEW i \in Items, NEW l \in Locations, NEW q \in Quantities
    PROVE  /\ Opening(i, l, q) \in Line /\ Opening(i, l, q).item = i
           /\ Opening(i, l, q).kind = "inward" /\ Opening(i, l, q).to = l
           /\ Opening(i, l, q).qty = q
  BY InventoryAssumption DEF Opening, Line, Kinds, None

LEMMA CreateItemKeeps ==
    ASSUME Inductive, NEW s \in Sessions, NEW i \in Items, NEW l \in Locations,
           NEW q \in Quantities \cup {0}, CreateItem(s, i, l, q)
    PROVE  Inductive'
  <1> DEFINE slot == <<i, l>>
  <1>1. /\ ~Active(s) /\ i \notin item /\ item' = item \cup {i} /\ req' = req
        /\ balance' = [balance EXCEPT ![slot] = q]
    BY DEF CreateItem
  <1>2. slot \in Slots /\ slot[1] = i /\ q \in Nat
    BY InventoryAssumption DEF Slots
  <1>3. /\ balance' \in [Slots -> Nat \cup {Absent}]
        /\ \A x \in Slots : x # slot => balance'[x] = balance[x]
    BY <1>1, <1>2 DEF Inductive, TypeOK
  <1>4. \A x \in Slots : balance'[x] # Absent => x[1] \in item'
    BY <1>1, <1>2, <1>3 DEF Inductive, KnownItems
  <1>5. movement \in Rows
    BY DEF Inductive, TypeOK, Rows
  <1>6. Grown(movement, movement', 0) /\ NewRows(movement, movement', item', 0)
    <2>1. CASE q = 0
      BY <1>5, <2>1 DEF CreateItem, Grown, NewRows
    <2>2. CASE q # 0
      <3>1. PICK row : row = Posted(Opening(i, l, q)) /\ movement' = Append(movement, row)
        BY <2>2 DEF CreateItem, Opening
      <3>2. row \in Row /\ row.line.item \in item' /\ row.reverses = 0
        BY <1>1, <2>2, <3>1, OpeningLine, PostedRow
      <3>3. PICK n \in Nat : n = Len(movement) /\ DOMAIN movement = 1..n
        BY <1>5 DEF Rows
      <3>4. /\ movement' \in Rows /\ DOMAIN movement' = 1..(n + 1)
            /\ \A k \in 1..n : movement'[k] = movement[k]
            /\ movement'[n + 1] = row
        BY <1>5, <3>1, <3>2, <3>3 DEF Rows
      <3> QED
        BY <3>2, <3>3, <3>4 DEF Grown, NewRows
    <2> QED
      BY <2>1, <2>2
  <1>7. ASSUME NEW u \in Sessions \ {s}, Active(u)
        PROVE  Held(req[u]) \cap {slot} = {}
    <2>1. \A x \in Held(req[u]) : x[1] \in item
      BY <1>7, RequestOf DEF Meant
    <2> QED
      BY <1>1, <1>2, <2>1
  <1>8. item \subseteq item' /\ item' \in SUBSET Items
    BY <1>1 DEF Inductive, TypeOK
  <1>9. /\ req' \in [Sessions -> Request \cup {Idle}]
        /\ \A u \in Sessions : Active(u)' => u # s /\ Active(u) /\ req'[u] = req[u]
    BY <1>1 DEF Inductive, TypeOK, Active
  <1>10. PICK m, D : m = 0 /\ D = {slot}
    OBVIOUS
  <1>11. \A x \in Slots : x \notin D => balance'[x] = balance[x]
    BY <1>3, <1>10
  <1>12. \A u \in Sessions \ {s} : Active(u) =>
               /\ Held(req[u]) \cap D = {}
               /\ req[u].mv = m /\ m # 0 => req[u].phase = "movement"
    BY <1>7, <1>10
  <1> QED
    BY <1>3, <1>4, <1>6, <1>8, <1>9, <1>10, <1>11, <1>12, Commits

\* What a commit does to the movements.
Committed(rows, rows2, r) ==
    CASE r.op = "post" -> rows2 = AfterPost(rows, r.lines)
      [] r.op = "reverse" -> rows2 = AfterReverse(rows, r.mv)
      [] r.op = "correct" -> rows2 = Corrected(rows, r.mv, r.qty)

LEMMA CommitRows ==
    ASSUME Inductive, NEW s \in Sessions, Commit(s)
    PROVE  /\ Committed(movement, movement', req[s])
           /\ Grown(movement, movement', req[s].mv)
           /\ NewRows(movement, movement', item, req[s].mv)
  <1>1. PICK r : r = req[s]
    OBVIOUS
  <1>2. r \in Request /\ Meant(movement, item, r) /\ r.phase = "source" /\ movement \in Rows
    BY <1>1, RequestOf DEF Commit, Inductive, TypeOK, Rows
  <1>3. movement' = CASE r.op = "post" -> movement \o [k \in DOMAIN r.lines |-> Posted(r.lines[k])]
                      [] r.op = "reverse" -> Marked(movement, r.mv, "reversed")
                                                 \o <<Reversal(movement, r.mv)>>
                      [] r.op = "correct" -> Corrected(movement, r.mv, r.qty)
    BY <1>1 DEF Commit
  <1>4. r.op \in {"post", "reverse", "correct"}
    BY <1>2 DEF Request
  <1>5. CASE r.op = "post"
    <2>1. movement' = AfterPost(movement, r.lines)
      BY <1>3, <1>5 DEF AfterPost
    <2>2. r.lines \in Batches /\ r.mv = 0 /\ \A k \in DOMAIN r.lines : r.lines[k].item \in item
      BY <1>2, <1>5 DEF Meant
    <2> QED
      BY <1>1, <1>2, <1>5, <2>1, <2>2, PostGrows DEF Committed
  <1>6. CASE r.op = "reverse"
    <2>1. movement' = AfterReverse(movement, r.mv)
      BY <1>3, <1>6 DEF AfterReverse
    <2>2. r.mv \in DOMAIN movement /\ movement[r.mv].line.item \in item
      BY <1>2, <1>6 DEF Meant, Inductive, KnownItems
    <2> QED
      BY <1>1, <1>2, <1>6, <2>1, <2>2, ReverseGrows DEF Committed
  <1>7. CASE r.op = "correct"
    <2>1. movement' = Corrected(movement, r.mv, r.qty)
      BY <1>3, <1>7
    <2>2. r.mv \in DOMAIN movement /\ movement[r.mv].line.item \in item /\ r.qty \in Quantities
      BY <1>2, <1>7 DEF Meant, Inductive, KnownItems
    <2> QED
      BY <1>1, <1>2, <1>7, <2>1, <2>2, CorrectGrows DEF Committed
  <1> QED
    BY <1>4, <1>5, <1>6, <1>7

LEMMA CommitKeeps ==
    ASSUME Inductive, NEW s \in Sessions, Commit(s)
    PROVE  Inductive'
  <1>1. PICK r : r = req[s]
    OBVIOUS
  <1>2. /\ r \in Request /\ Meant(movement, item, r) /\ r.phase = "source" /\ Active(s)
        /\ item' = item /\ req' = [req EXCEPT ![s] = Idle]
        /\ balance' = [x \in Slots |-> IF r.view[x] # Absent THEN r.view[x] ELSE balance[x]]
    BY <1>1, RequestOf DEF Commit, Become
  <1>3. Grown(movement, movement', r.mv) /\ NewRows(movement, movement', item', r.mv)
    BY <1>1, <1>2, CommitRows
  <1>4. balance' \in [Slots -> Nat \cup {Absent}]
    <2>1. \A x \in Slots : r.view[x] \in Nat \cup {Absent}
      BY <1>2 DEF Request, View
    <2> QED
      BY <1>2, <2>1 DEF Inductive, TypeOK
  <1>5. \A x \in Slots : x \notin Held(r) => balance'[x] = balance[x]
    BY <1>2 DEF Held
  <1>6. \A x \in Slots : balance'[x] # Absent => x[1] \in item'
    <2>1. \A x \in Held(r) : x[1] \in item
      BY <1>2 DEF Meant
    <2> QED
      BY <1>2, <1>5, <2>1 DEF Inductive, KnownItems
  <1>7. \A u \in Sessions \ {s} : Active(u) =>
               /\ Held(req[u]) \cap Held(r) = {}
               /\ req[u].mv = r.mv /\ r.mv # 0 => req[u].phase = "movement"
    BY <1>1, <1>2 DEF Inductive, Exclusive, Apart
  <1>8. /\ req' \in [Sessions -> Request \cup {Idle}]
        /\ \A u \in Sessions : Active(u)' => u # s /\ Active(u) /\ req'[u] = req[u]
    BY <1>2 DEF Inductive, TypeOK, Active, Idle
  <1>9. item \subseteq item' /\ item' \in SUBSET Items
    BY <1>2 DEF Inductive, TypeOK
  <1> QED
    BY <1>3, <1>4, <1>5, <1>6, <1>7, <1>8, <1>9, Commits

----------------------------------------------------------------------------

LEMMA InitInductive ==
    ASSUME Init
    PROVE  Inductive
  <1>1. \A s \in Sessions : ~Active(s)
    BY DEF Init, Active, Idle
  <1>2. TypeOK
    BY DEF Init, TypeOK
  <1>3. KnownItems
    BY DEF Init, KnownItems
  <1> QED
    BY <1>1, <1>2, <1>3 DEF Inductive, RequestsSound, Exclusive, Inserting

LEMMA NextInductive ==
    ASSUME Inductive, [Next]_vars
    PROVE  Inductive'
  <1>1. CASE UNCHANGED vars
    <2>1. Stock' = Stock
      BY <1>1 DEF vars, Stock, OnHand
    <2> QED
      BY <1>1, <2>1 DEF vars, Inductive, TypeOK, RequestsSound, KnownItems, Exclusive, Inserting,
                        Active
  <1>2. ASSUME NEW s \in Sessions, Start(s)
        PROVE  Inductive'
    BY <1>2, CreateItemKeeps, StartPostKeeps, StartReverseKeeps, StartCorrectKeeps DEF Start
  <1>3. ASSUME NEW s \in Sessions, Rollback(s)
        PROVE  Inductive'
    BY <1>3, EndStep DEF Rollback
  <1>4. ASSUME NEW s \in Sessions, Advance(s)
        PROVE  Inductive'
    <2>1. CASE RefuseMovement(s) \/ DuplicateBalance(s) \/ RefuseEffect(s)
      BY <1>3, <2>1 DEF RefuseMovement, DuplicateBalance, RefuseEffect
    <2> QED
      BY <1>4, <2>1, LockMovementKeeps, SkipBalanceKeeps, LockBalanceKeeps, MissBalanceKeeps,
         InsertBalanceKeeps, ApplyKeeps, CommitKeeps DEF Advance
  <1> QED
    BY <1>1, <1>2, <1>3, <1>4 DEF Next

\* Whatever the requests do, each of them knows what it set out to do and what
\* its effects so far would make of the stock, no two of them hold the same
\* balance or undo the same movement (with_for_update in _balance and in
\* _load_movement_for_update), and balances belong to known items.
THEOREM InventoryInvariant == Spec => []Inductive
  <1>1. Init => Inductive
    BY InitInductive
  <1>2. Inductive /\ [Next]_vars => Inductive'
    BY NextInductive
  <1> QED
    BY <1>1, <1>2, PTL DEF Spec

\* Balances never fall below nothing, and rows and requests are what they
\* should be.
THEOREM TypeCorrect == Spec => []TypeOK
  <1>1. Inductive => TypeOK
    BY DEF Inductive
  <1> QED
    BY <1>1, InventoryInvariant, PTL

----------------------------------------------------------------------------
(* The refinement.  A commit performs, at once and on the stock of that      *)
(* moment, the effects that its request has gone through.                    *)

LEMMA LeastNatural ==
    ASSUME NEW T, T \subseteq Nat, T # {}
    PROVE  \E n \in T : \A m \in T : n <= m
  <1>1. IsWellFoundedOn(OpToRel(<, Nat), Nat)
    BY NatLessThanWellFounded
  <1>2. PICK R : R = OpToRel(<, Nat)
    OBVIOUS
  <1>3. PICK n \in T : \A m \in T : <<m, n>> \notin R
    BY <1>1, <1>2, WFMin
  <1>4. \A m \in Nat : m < n => <<m, n>> \in R
    BY <1>2 DEF OpToRel
  <1>5. ASSUME NEW m \in T
        PROVE  n <= m
    <2>1. m \in Nat /\ n \in Nat /\ ~(m < n)
      BY <1>3, <1>4
    <2> QED
      BY <2>1
  <1> QED
    BY <1>5

\* The stocks of a run are the levels that its effects lead through.
LEMMA LevelsOfRun ==
    ASSUME NEW es \in Seq(Effect), NEW h, Run(Stock, es, h)
    PROVE  \A k \in 0..Len(es) : Book!Levels(es)[k] = h[k]
  <1>1. PICK n \in Nat : n = Len(es) /\ DOMAIN es = 1..n
    OBVIOUS
  <1>2. /\ h \in [0..n -> Stocks] /\ h[0] = Stock
        /\ \A k \in 1..n : h[k] = Applied(h[k - 1], es[k])
    BY <1>1 DEF Run
  <1>3. \A b, e : Book!Applied(b, e) = Applied(b, e)
    BY DEF Book!Applied, Applied
  <1>4. PICK L : L = Book!Levels(es)
    OBVIOUS
  <1>5. L = CHOOSE level : level = [k \in 0..n |-> IF k = 0 THEN Stock
                                                   ELSE Applied(level[k - 1], es[k])]
    BY <1>1, <1>3, <1>4 DEF Book!Levels, Stock
  <1>6. h = [k \in 0..n |-> IF k = 0 THEN Stock ELSE Applied(h[k - 1], es[k])]
    BY <1>1, <1>2
  <1>7. L = [k \in 0..n |-> IF k = 0 THEN Stock ELSE Applied(L[k - 1], es[k])]
    BY <1>5, <1>6
  <1>8. SUFFICES ASSUME NEW j \in 0..n, L[j] # h[j]
                 PROVE  FALSE
    BY <1>1, <1>4
  <1>9. PICK k \in 0..n : L[k] # h[k] /\ \A i \in 0..n : L[i] # h[i] => k <= i
    <2> DEFINE T == {i \in 0..n : L[i] # h[i]}
    <2>1. T \subseteq Nat /\ T # {}
      BY <1>8
    <2> QED
      BY <2>1, LeastNatural
  <1>10. k # 0
    BY <1>2, <1>7, <1>9
  <1>11. k - 1 \in 0..n /\ ~(k <= k - 1) /\ k \in 1..n
    BY <1>10
  <1>12. L[k - 1] = h[k - 1]
    BY <1>9, <1>11
  <1> QED
    BY <1>2, <1>7, <1>9, <1>10, <1>11, <1>12

\* The effects of a request that commits, with the stocks that they lead through.
LEMMA CommitRun ==
    ASSUME Inductive, NEW s \in Sessions, Commit(s)
    PROVE  \E es \in Seq(Effect) : \E h :
              /\ Len(es) = Len(Plan(movement, req[s]))
              /\ \A k \in DOMAIN es : Does(es[k], Plan(movement, req[s])[k])
              /\ Run(Stock, es, h) /\ h[Len(es)] = Stock'
  <1>1. PICK r : r = req[s]
    OBVIOUS
  <1>2. /\ r \in Request /\ Sound(movement, item, Stock, r) /\ r.todo = <<>>
        /\ balance' = [x \in Slots |-> IF r.view[x] # Absent THEN r.view[x] ELSE balance[x]]
    BY <1>1, RequestOf DEF Commit
  <1>3. PICK es \in Seq(Effect) : Trail(movement, Stock, r, es)
    BY <1>2 DEF Sound
  <1>4. Stock \in Stocks
    BY StockIsStock DEF Inductive
  <1>5. PICK h : /\ Run(Stock, es, h)
                 /\ \A x \in Slots : h[Len(es)][x] = IF x \in Held(r) THEN r.view[x] ELSE Stock[x]
    BY <1>3, <1>4 DEF Trail
  <1>6. \A x \in Slots : Stock'[x] = IF x \in Held(r) THEN r.view[x] ELSE Stock[x]
    BY <1>2 DEF Stock, OnHand, Held
  <1>7. h[Len(es)] = Stock'
    <2>1. h[Len(es)] \in Stocks
      BY <1>5 DEF Run
    <2>2. Stock' = [x \in Slots |-> Stock'[x]] /\ h[Len(es)] = [x \in Slots |-> h[Len(es)][x]]
      BY <2>1 DEF Stock, Stocks
    <2> QED
      BY <1>5, <1>6, <2>2
  <1>8. Len(es) = Len(Plan(movement, r))
    BY <1>2, <1>3 DEF Trail
  <1>9. \A k \in DOMAIN es : Does(es[k], Plan(movement, r)[k])
    BY <1>3 DEF Trail
  <1> QED
    BY <1>1, <1>5, <1>7, <1>8, <1>9

LEMMA PerformedRun ==
    ASSUME NEW es \in Seq(Effect), NEW h, Run(Stock, es, h), h[Len(es)] = Stock'
    PROVE  Book!Performed(es)
  <1>1. PICK n \in Nat : n = Len(es) /\ DOMAIN es = 1..n
    OBVIOUS
  <1>2. \A k \in 0..n : Book!Levels(es)[k] = h[k]
    BY <1>1, LevelsOfRun
  <1>3. \A b, e : Book!Allowed(b, e) <=> Allowed(b, e)
    BY DEF Book!Allowed, Allowed, Book!Absent, Absent
  <1>4. ASSUME NEW k \in 1..n
        PROVE  Book!Allowed(Book!Levels(es)[k - 1], es[k])
    <2>1. k - 1 \in 0..n
      OBVIOUS
    <2>2. Allowed(h[k - 1], es[k])
      BY <1>1 DEF Run
    <2> QED
      BY <1>2, <1>3, <2>1, <2>2
  <1>5. Stock' = Book!Levels(es)[n]
    BY <1>1, <1>2
  <1> QED
    BY <1>1, <1>4, <1>5 DEF Book!Performed, Stock

LEMMA SameRows ==
    /\ \A line : Book!Posted(line) = Posted(line)
    /\ \A rows, m : /\ Book!Reversible(rows, m) <=> Reversible(rows, m)
                    /\ Book!Reversal(rows, m) = Reversal(rows, m)
    /\ \A rows, m, qty : Book!Correction(rows, m, qty) = Correction(rows, m, qty)
    /\ \A rows, m, status : Book!Marked(rows, m, status) = Marked(rows, m, status)
  BY DEF Book!Posted, Posted, Book!Reversible, Reversible, Book!ReversibleKinds, ReversibleKinds,
         Book!Kinds, Kinds, Book!Reversal, Reversal, Book!Correction, Correction,
         Book!Marked, Marked

LEMMA CommitPost ==
    ASSUME Inductive, NEW s \in Sessions, Commit(s), req[s].op = "post"
    PROVE  Book!PostMovements(req[s].lines)
  <1>1. PICK r : r = req[s]
    OBVIOUS
  <1>2. r \in Request /\ Meant(movement, item, r)
    BY <1>1, RequestOf DEF Commit
  <1>3. PICK lines \in Batches : lines = r.lines /\ \A k \in DOMAIN lines : lines[k].item \in item
    BY <1>1, <1>2 DEF Meant
  <1>4. PICK es, h :
           /\ es \in Seq(Effect) /\ Len(es) = Len(Plan(movement, r))
           /\ \A k \in DOMAIN es : Does(es[k], Plan(movement, r)[k])
           /\ Run(Stock, es, h) /\ h[Len(es)] = Stock'
    BY <1>1, CommitRun
  <1>5. PICK n \in Nat : n = Len(lines) /\ DOMAIN lines = 1..n
    BY BatchLines
  <1>6. Len(es) = n /\ \A k \in 1..n : Plan(movement, r)[k] = ToPost(lines[k])
    BY <1>1, <1>3, <1>4, <1>5, PlanOfPost
  <1>7. DOMAIN es = DOMAIN lines
    BY <1>5, <1>6
  <1>8. \A k \in DOMAIN lines : es[k] \in Book!Effects(lines[k])
    <2>1. \A line : ToPost(line).undo = FALSE /\ ToPost(line).line = line
      BY DEF ToPost
    <2>2. \A k \in DOMAIN lines : Does(es[k], ToPost(lines[k]))
      BY <1>4, <1>5, <1>6, <1>7
    <2> QED
      BY <2>1, <2>2 DEF Does
  <1>9. es \in [DOMAIN lines -> UNION {Book!Effects(lines[k]) : k \in DOMAIN lines}]
    <2>1. es = [k \in DOMAIN lines |-> es[k]]
      BY <1>4, <1>5, <1>6
    <2> QED
      BY <1>8, <2>1
  <1>10. Book!Performed(es)
    BY <1>4, PerformedRun
  <1>11. movement' = movement \o [k \in DOMAIN lines |-> Book!Posted(lines[k])]
    <2>1. movement' = AfterPost(movement, lines)
      BY <1>1, <1>3, CommitRows DEF Committed
    <2> QED
      BY <2>1, SameRows DEF AfterPost
  <1>12. item' = item
    BY DEF Commit
  <1> QED
    BY <1>1, <1>3, <1>8, <1>9, <1>10, <1>11, <1>12 DEF Book!PostMovements

\* A reversal undoes the movement that it names.
LEMMA ReverseRun ==
    ASSUME Inductive, NEW s \in Sessions, Commit(s), req[s].op = "reverse",
           NEW m, m = req[s].mv, NEW line, line = movement[m].line
    PROVE  /\ m \in DOMAIN movement /\ Reversible(movement, m) /\ line \in Line
           /\ movement' = AfterReverse(movement, m)
           /\ \E es \in Seq(Effect) : \E h :
                 /\ Len(es) = 1 /\ es[1] = Undoing(line)
                 /\ Run(Stock, es, h) /\ h[Len(es)] = Stock'
  <1>1. PICK r : r = req[s]
    OBVIOUS
  <1>2. r \in Request /\ Meant(movement, item, r) /\ r.phase = "source" /\ movement \in Rows
    BY <1>1, RequestOf DEF Commit, Inductive, TypeOK, Rows
  <1>3. m \in DOMAIN movement /\ m = r.mv /\ Reversible(movement, m)
    BY <1>1, <1>2 DEF Meant, Fits
  <1>4. PICK es, h :
           /\ es \in Seq(Effect) /\ Len(es) = Len(Plan(movement, r))
           /\ \A k \in DOMAIN es : Does(es[k], Plan(movement, r)[k])
           /\ Run(Stock, es, h) /\ h[Len(es)] = Stock'
    BY <1>1, CommitRun
  <1>5. /\ Len(Plan(movement, r)) = 1 /\ Plan(movement, r)[1] = ToUndo(line)
        /\ line \in Line
    BY <1>1, <1>2, <1>3, PlanOfUndo
  <1>6. Len(es) = 1 /\ es[1] = Undoing(line)
    <2>1. Len(es) = 1 /\ DOMAIN es = {1}
      BY <1>4, <1>5
    <2>2. Does(es[1], ToUndo(line))
      BY <1>4, <1>5, <2>1
    <2> QED
      BY <2>1, <2>2 DEF Does, ToUndo
  <1>7. movement' = AfterReverse(movement, m)
    BY <1>1, <1>3, CommitRows DEF Committed
  <1> QED
    BY <1>3, <1>4, <1>5, <1>6, <1>7

LEMMA CommitReverse ==
    ASSUME Inductive, NEW s \in Sessions, Commit(s), req[s].op = "reverse"
    PROVE  req[s].mv \in DOMAIN movement /\ Book!ReverseMovement(req[s].mv)
  <1>1. PICK m, line : m = req[s].mv /\ line = movement[m].line
    OBVIOUS
  <1>2. /\ m \in DOMAIN movement /\ Reversible(movement, m)
        /\ movement' = AfterReverse(movement, m)
    BY <1>1, ReverseRun
  <1>3. PICK es, h :
           /\ es \in Seq(Effect) /\ Len(es) = 1 /\ es[1] = Undoing(line)
           /\ Run(Stock, es, h) /\ h[Len(es)] = Stock'
    BY <1>1, ReverseRun
  <1>4. es = <<Book!Undoing(movement[m].line)>>
    BY <1>1, <1>3, SameWords
  <1>5. Book!Performed(<<Book!Undoing(movement[m].line)>>)
    BY <1>3, <1>4, PerformedRun
  <1>6. movement' = Book!Marked(movement, m, "reversed") \o <<Book!Reversal(movement, m)>>
    BY <1>2, SameRows DEF AfterReverse
  <1>7. item' = item
    BY DEF Commit
  <1>8. Book!Reversible(movement, m)
    BY <1>2, SameRows
  <1> QED
    BY <1>1, <1>2, <1>5, <1>6, <1>7, <1>8 DEF Book!ReverseMovement

\* A correction undoes the movement that it names and posts it anew.
LEMMA CorrectRun ==
    ASSUME Inductive, NEW s \in Sessions, Commit(s), req[s].op = "correct",
           NEW m, m = req[s].mv, NEW qty, qty = req[s].qty, NEW line, line = movement[m].line,
           NEW line2, line2 = Resized(line, qty)
    PROVE  /\ m \in DOMAIN movement /\ Reversible(movement, m) /\ line \in Line
           /\ qty \in Quantities /\ qty # line.qty
           /\ movement' = Corrected(movement, m, qty)
           /\ \E es \in Seq(Effect) : \E h :
                 /\ Len(es) = 2 /\ es[1] = Undoing(line) /\ es[2] = Posting(line2)
                 /\ Run(Stock, es, h) /\ h[Len(es)] = Stock'
  <1>1. PICK r : r = req[s]
    OBVIOUS
  <1>2. r \in Request /\ Meant(movement, item, r) /\ r.phase = "source" /\ movement \in Rows
    BY <1>1, RequestOf DEF Commit, Inductive, TypeOK, Rows
  <1>3. /\ m \in DOMAIN movement /\ qty \in Quantities
        /\ m = r.mv /\ qty = r.qty /\ Reversible(movement, m) /\ qty # line.qty
    BY <1>1, <1>2 DEF Meant, Fits
  <1>4. PICK es, h :
           /\ es \in Seq(Effect) /\ Len(es) = Len(Plan(movement, r))
           /\ \A k \in DOMAIN es : Does(es[k], Plan(movement, r)[k])
           /\ Run(Stock, es, h) /\ h[Len(es)] = Stock'
    BY <1>1, CommitRun
  <1>5. /\ Len(Plan(movement, r)) = 2 /\ Plan(movement, r)[1] = ToUndo(line)
        /\ Plan(movement, r)[2] = ToPost(line2) /\ line \in Line
    BY <1>1, <1>2, <1>3, PlanOfUndo
  <1>6. line2.kind # "adjustment"
    <2>1. line2.kind = line.kind
      BY <1>2, <1>3, CorrectionRow
    <2> QED
      BY <1>3, <2>1 DEF Reversible, ReversibleKinds
  <1>7. Len(es) = 2 /\ es[1] = Undoing(line) /\ es[2] = Posting(line2)
    <2>1. Len(es) = 2 /\ DOMAIN es = {1, 2}
      BY <1>4, <1>5
    <2>2. Does(es[1], ToUndo(line)) /\ Does(es[2], ToPost(line2))
      BY <1>4, <1>5, <2>1
    <2>3. es[2] \in Book!Effects(line2) /\ es[1] = Undoing(line)
      BY <2>2 DEF Does, ToUndo, ToPost
    <2> QED
      BY <1>6, <2>1, <2>3, SameWords DEF Book!Effects
  <1>8. movement' = Corrected(movement, m, qty)
    BY <1>1, <1>3, CommitRows DEF Committed
  <1> QED
    BY <1>3, <1>4, <1>5, <1>7, <1>8

LEMMA CommitCorrect ==
    ASSUME Inductive, NEW s \in Sessions, Commit(s), req[s].op = "correct"
    PROVE  /\ req[s].mv \in DOMAIN movement /\ req[s].qty \in Quantities
           /\ Book!CorrectMovement(req[s].mv, req[s].qty)
  <1>1. PICK m, qty, line : m = req[s].mv /\ qty = req[s].qty /\ line = movement[m].line
    OBVIOUS
  <1>2. PICK line2 : line2 = Resized(line, qty)
    OBVIOUS
  <1>3. /\ m \in DOMAIN movement /\ Reversible(movement, m)
        /\ qty \in Quantities /\ qty # line.qty
        /\ movement' = Corrected(movement, m, qty)
    BY <1>1, <1>2, CorrectRun
  <1>4. PICK es, h :
           /\ es \in Seq(Effect) /\ Len(es) = 2 /\ es[1] = Undoing(line) /\ es[2] = Posting(line2)
           /\ Run(Stock, es, h) /\ h[Len(es)] = Stock'
    BY <1>1, <1>2, CorrectRun
  <1>5. es = <<Book!Undoing(movement[m].line),
               Book!Posting([movement[m].line EXCEPT !.qty = qty])>>
    <2>1. line2 = [movement[m].line EXCEPT !.qty = qty]
      BY <1>1, <1>2 DEF Resized
    <2>2. Book!Undoing(movement[m].line) = es[1] /\ Book!Posting(line2) = es[2]
      BY <1>1, <1>4, SameWords
    <2>3. es = <<es[1], es[2]>>
      BY <1>4
    <2> QED
      BY <2>1, <2>2, <2>3
  <1>6. Book!Performed(<<Book!Undoing(movement[m].line),
                         Book!Posting([movement[m].line EXCEPT !.qty = qty])>>)
    BY <1>4, <1>5, PerformedRun
  <1>7. movement' = Book!Marked(movement, m, "corrected")
                        \o <<Book!Reversal(movement, m), Book!Correction(movement, m, qty)>>
    BY <1>3, SameRows DEF Corrected
  <1>8. item' = item
    BY DEF Commit
  <1>9. Book!Reversible(movement, m)
    BY <1>3, SameRows
  <1> QED
    BY <1>1, <1>3, <1>6, <1>7, <1>8, <1>9 DEF Book!CorrectMovement

LEMMA CreateItemBooks ==
    ASSUME Inductive, NEW s \in Sessions, NEW i \in Items, NEW l \in Locations,
           NEW q \in Quantities \cup {0}, CreateItem(s, i, l, q)
    PROVE  Book!CreateItem(i, l, q)
  <1>1. Stock' = [Stock EXCEPT ![<<i, l>>] = q]
    <2>1. <<i, l>> \in Slots /\ q \in Nat
      BY InventoryAssumption DEF Slots
    <2>2. balance' = [balance EXCEPT ![<<i, l>>] = q] /\ balance \in [Slots -> Nat \cup {Absent}]
      BY DEF CreateItem, Inductive, TypeOK
    <2>3. \A x \in Slots : balance'[x] = IF x = <<i, l>> THEN q ELSE balance[x]
      BY <2>1, <2>2
    <2>4. \A x \in Slots : OnHand(x)' = IF x = <<i, l>> THEN q ELSE OnHand(x)
      BY <2>1, <2>3 DEF OnHand, Absent
    <2>5. [x \in Slots |-> OnHand(x)'] = [[x \in Slots |-> OnHand(x)] EXCEPT ![<<i, l>>] = q]
      BY <2>1, <2>4
    <2> QED
      BY <2>5 DEF Stock
  <1>2. movement' = IF q = 0 THEN movement
                    ELSE Append(movement, Book!Posted([kind |-> "inward", item |-> i,
                                                       from |-> Book!None, to |-> l, qty |-> q]))
    <2>1. Book!None = None
      BY DEF Book!None, None
    <2> QED
      BY <2>1, SameRows DEF CreateItem
  <1> QED
    BY <1>1, <1>2 DEF Book!CreateItem, CreateItem, Stock

LEMMA StepRefines ==
    ASSUME Inductive, [Next]_vars
    PROVE  Book!Next \/ UNCHANGED Book!vars
  <1>1. ASSUME UNCHANGED <<balance, movement, item>>
        PROVE  UNCHANGED Book!vars
    <2>1. Stock' = Stock
      BY <1>1 DEF Stock, OnHand
    <2> QED
      BY <1>1, <2>1 DEF Book!vars, Stock
  <1>2. CASE UNCHANGED vars
    BY <1>1, <1>2 DEF vars
  <1>3. ASSUME NEW s \in Sessions, Start(s)
        PROVE  Book!Next \/ UNCHANGED Book!vars
    <2>1. CASE \E i \in Items, l \in Locations, q \in Quantities \cup {0} : CreateItem(s, i, l, q)
      BY <2>1, CreateItemBooks DEF Book!Next
    <2>2. CASE \E lines \in Batches : StartPost(s, lines)
      BY <1>1, <2>2 DEF StartPost
    <2>3. CASE \E m \in DOMAIN movement : StartReverse(s, m)
      BY <1>1, <2>3 DEF StartReverse
    <2>4. CASE \E m \in DOMAIN movement, q \in Quantities : StartCorrect(s, m, q)
      BY <1>1, <2>4 DEF StartCorrect
    <2> QED
      BY <1>3, <2>1, <2>2, <2>3, <2>4 DEF Start
  <1>4. ASSUME NEW s \in Sessions, Commit(s)
        PROVE  Book!Next
    <2>1. req[s].op \in {"post", "reverse", "correct"}
      BY <1>4, RequestOf DEF Commit, Request
    <2>2. req[s].op = "post" => req[s].lines \in Batches
      BY <1>4, RequestOf DEF Commit, Meant
    <2> QED
      BY <1>4, <2>1, <2>2, CommitPost, CommitReverse, CommitCorrect DEF Book!Next
  <1>5. ASSUME NEW s \in Sessions, Rollback(s)
        PROVE  UNCHANGED Book!vars
    BY <1>1, <1>5 DEF Rollback
  <1>6. ASSUME NEW s \in Sessions, Advance(s)
        PROVE  Book!Next \/ UNCHANGED Book!vars
    <2>1. CASE RefuseMovement(s) \/ DuplicateBalance(s) \/ RefuseEffect(s)
      BY <1>5, <2>1 DEF RefuseMovement, DuplicateBalance, RefuseEffect
    <2>2. CASE LockMovement(s) \/ SkipBalance(s) \/ LockBalance(s) \/ MissBalance(s)
      BY <1>1, <2>2 DEF LockMovement, SkipBalance, LockBalance, MissBalance
    <2>3. CASE InsertBalance(s) \/ Apply(s)
      BY <1>1, <2>3 DEF InsertBalance, Apply
    <2> QED
      BY <1>4, <1>6, <2>1, <2>2, <2>3 DEF Advance
  <1> QED
    BY <1>2, <1>3, <1>5, <1>6 DEF Next

LEMMA InitRefines ==
    ASSUME Init
    PROVE  Book!Init
  <1>1. Stock = [x \in Slots |-> 0]
    BY DEF Init, Stock, OnHand
  <1> QED
    BY <1>1 DEF Init, Book!Init, Stock, Book!Slots, Slots

\* However requests interleave, whatever they wait for and whichever of them
\* fail, balances and movements change as if every request took effect at once,
\* as a whole and within what is on hand: _post_movement_row,
\* reverse_inventory_movement and correct_inventory_movement lose or repeat
\* nothing.
THEOREM RequestsAreSerializable == Spec => Serializable
  <1>1. Init => Book!Init
    BY InitRefines
  <1>2. Inductive /\ [Next]_vars => [Book!Next]_(Book!vars)
    BY StepRefines
  <1>3. Spec => []Inductive
    BY InventoryInvariant
  <1> QED
    BY <1>1, <1>2, <1>3, PTL DEF Spec, Serializable, Book!Spec

----------------------------------------------------------------------------
(* Sums over finite sets.  A set of subsets of a finite set has a minimal    *)
(* member: every induction below is an argument about the smallest subset    *)
(* for which a claim fails.                                                  *)

LEMMA MinimalSubset ==
    ASSUME NEW S, IsFiniteSet(S), NEW P \in SUBSET SUBSET S, P # {}
    PROVE  \E T \in P : \A U \in P : U \subseteq T => U = T
  <1>1. IsWellFoundedOn(StrictSubsetOrdering(S), FiniteSubsetsOf(S))
    BY FS_StrictSubsetOrderingWellFounded
  <1>2. FiniteSubsetsOf(S) = SUBSET S
    BY FS_FiniteSubsetsOfFinite
  <1>3. PICK T \in P : \A U \in P : <<U, T>> \notin StrictSubsetOrdering(S)
    BY <1>1, <1>2, WFMin
  <1> QED
    BY <1>3 DEF StrictSubsetOrdering

\* The recursion by which MapThenSumSet adds f up over the subsets of S.
First(T) == CHOOSE x \in T : TRUE
Sums(g, f, S) == g = [T \in SUBSET S |-> IF T = {} THEN 0 ELSE f[First(T)] + g[T \ {First(T)}]]

LEMMA FirstIsMember == ASSUME NEW T, T # {} PROVE First(T) \in T
  BY DEF First

\* The sum over T depends only on what is added up over T.
LEMMA SumsAgree ==
    ASSUME NEW S, IsFiniteSet(S), NEW f, NEW g, Sums(g, f, S),
           NEW R, NEW e, NEW h, Sums(h, e, R),
           NEW T \in SUBSET S, T \in SUBSET R, \A x \in T : f[x] = e[x]
    PROVE  g[T] = h[T]
  <1> DEFINE P == {U \in SUBSET S : U \in SUBSET T /\ g[U] # h[U]}
  <1>1. SUFFICES ASSUME P # {}
                 PROVE  FALSE
    OBVIOUS
  <1>2. PICK U \in P : \A V \in P : V \subseteq U => V = U
    <2> HIDE DEF P
    <2>1. P \in SUBSET SUBSET S
      BY DEF P
    <2> QED
      BY <1>1, <2>1, MinimalSubset
  <1>3. g[U] = IF U = {} THEN 0 ELSE f[First(U)] + g[U \ {First(U)}]
    BY DEF Sums
  <1>4. h[U] = IF U = {} THEN 0 ELSE e[First(U)] + h[U \ {First(U)}]
    BY DEF Sums
  <1>5. U # {}
    BY <1>3, <1>4
  <1>6. First(U) \in U
    BY <1>5, FirstIsMember
  <1>7. g[U \ {First(U)}] = h[U \ {First(U)}]
    BY <1>2, <1>6
  <1> QED
    BY <1>2, <1>3, <1>4, <1>7

LEMMA SumsExist ==
    ASSUME NEW S, IsFiniteSet(S), NEW f
    PROVE  \E g : Sums(g, f, S)
  <1> DEFINE G(U) == CHOOSE g : Sums(g, f, U)
             P == {U \in SUBSET S : ~Sums(G(U), f, U)}
  <1>1. SUFFICES P = {}
    OBVIOUS
  <1>2. SUFFICES ASSUME P # {}
                 PROVE  FALSE
    OBVIOUS
  <1>3. PICK T \in P : \A V \in P : V \subseteq T => V = T
    <2> HIDE DEF P
    <2>1. P \in SUBSET SUBSET S
      BY DEF P
    <2> QED
      BY <1>2, <2>1, MinimalSubset
  <1>4. ASSUME NEW V \in SUBSET T, V # T
        PROVE  Sums(G(V), f, V)
    BY <1>3, <1>4
  <1> DEFINE h == [U \in SUBSET T |-> IF U = {} THEN 0 ELSE
                                      f[First(U)] + G(U \ {First(U)})[U \ {First(U)}]]
  <1>5. IsFiniteSet(T)
    BY <1>3, FS_Subset
  <1>6. ASSUME NEW V \in SUBSET T, V # T
        PROVE  h[V] = G(V)[V]
    <2>1. Sums(G(V), f, V) /\ IsFiniteSet(V)
      BY <1>4, <1>5, <1>6, FS_Subset
    <2> DEFINE g == G(V)
               W == V \ {First(V)}
    <2> HIDE DEF g
    <2>2. Sums(g, f, V)
      BY <2>1 DEF g
    <2>3. g[V] = IF V = {} THEN 0 ELSE f[First(V)] + g[W]
      BY <2>2 DEF Sums
    <2>4. h[V] = IF V = {} THEN 0 ELSE f[First(V)] + G(W)[W]
      OBVIOUS
    <2>5. CASE V = {}
      BY <2>3, <2>4, <2>5 DEF g
    <2>6. CASE V # {}
      <3>1. W \in SUBSET T /\ W # T /\ W \in SUBSET V
        BY <1>6
      <3>2. Sums(G(W), f, W)
        BY <1>4, <3>1
      <3>3. g[W] = G(W)[W]
        BY <2>1, <2>2, <3>1, <3>2, SumsAgree
      <3> QED
        BY <2>3, <2>4, <3>3 DEF g
    <2> QED
      BY <2>5, <2>6
  <1>7. ASSUME NEW U \in SUBSET T, U # {}
        PROVE  G(U \ {First(U)})[U \ {First(U)}] = h[U \ {First(U)}]
    <2>1. First(U) \in U
      BY <1>7, FirstIsMember
    <2> QED
      BY <1>6, <2>1
  <1>8. Sums(h, f, T)
    <2> HIDE DEF G
    <2>1. h = [U \in SUBSET T |-> IF U = {} THEN 0 ELSE f[First(U)] + h[U \ {First(U)}]]
      BY <1>7
    <2> QED
      BY <2>1 DEF Sums
  <1> QED
    BY <1>3, <1>8

LEMMA SumsAreIntegers ==
    ASSUME NEW S, IsFiniteSet(S), NEW f, NEW g, Sums(g, f, S), \A x \in S : f[x] \in Int
    PROVE  \A T \in SUBSET S : g[T] \in Int
  <1> DEFINE P == {U \in SUBSET S : g[U] \notin Int}
  <1>1. SUFFICES ASSUME P # {}
                 PROVE  FALSE
    OBVIOUS
  <1>2. PICK U \in P : \A V \in P : V \subseteq U => V = U
    <2> HIDE DEF P
    <2>1. P \in SUBSET SUBSET S
      BY DEF P
    <2> QED
      BY <1>1, <2>1, MinimalSubset
  <1>3. g[U] = IF U = {} THEN 0 ELSE f[First(U)] + g[U \ {First(U)}]
    BY DEF Sums
  <1>4. U # {}
    BY <1>2, <1>3
  <1>5. First(U) \in U
    BY <1>4, FirstIsMember
  <1>6. g[U \ {First(U)}] \in Int
    BY <1>2, <1>5
  <1> QED
    BY <1>2, <1>3, <1>4, <1>5, <1>6

\* Any element may be taken out of a sum first.
LEMMA SumWithout ==
    ASSUME NEW S, IsFiniteSet(S), NEW f, NEW g, Sums(g, f, S), \A x \in S : f[x] \in Int,
           NEW T \in SUBSET S, NEW y \in T
    PROVE  g[T] = f[y] + g[T \ {y}]
  <1> DEFINE P == {U \in SUBSET S : \E z \in U : g[U] # f[z] + g[U \ {z}]}
  <1>1. SUFFICES ASSUME P # {}
                 PROVE  FALSE
    OBVIOUS
  <1>2. PICK U \in P : \A V \in P : V \subseteq U => V = U
    <2> HIDE DEF P
    <2>1. P \in SUBSET SUBSET S
      BY DEF P
    <2> QED
      BY <1>1, <2>1, MinimalSubset
  <1>3. PICK z \in U : g[U] # f[z] + g[U \ {z}]
    BY <1>2
  <1> DEFINE c == First(U)
  <1>4. c \in U
    BY FirstIsMember
  <1>5. g[U] = f[c] + g[U \ {c}]
    BY DEF Sums
  <1> HIDE DEF c
  <1>6. c # z
    BY <1>3, <1>5
  <1>7. U \ {c} \notin P /\ U \ {z} \notin P
    BY <1>2, <1>4
  <1> DEFINE rest == U \ {c, z}
  <1>8. (U \ {c}) \ {z} = rest /\ (U \ {z}) \ {c} = rest /\ rest \in SUBSET S
    OBVIOUS
  <1>9. g[U \ {c}] = f[z] + g[rest]
    BY <1>6, <1>7, <1>8
  <1>10. g[U \ {z}] = f[c] + g[rest]
    BY <1>4, <1>6, <1>7, <1>8
  <1>11. f[c] \in Int /\ f[z] \in Int /\ g[rest] \in Int
    BY <1>4, <1>8, SumsAreIntegers
  <1> QED
    BY <1>3, <1>5, <1>9, <1>10, <1>11

\* n is what f adds up to over S.
Adds(f, S, n) == \E g : Sums(g, f, S) /\ n = g[S]

LEMMA AddsSame ==
    ASSUME NEW S, IsFiniteSet(S), NEW f, NEW n, Adds(f, S, n), NEW e, NEW m, Adds(e, S, m),
           \A x \in S : f[x] = e[x]
    PROVE  n = m
  <1>1. PICK g : Sums(g, f, S) /\ n = g[S]
    BY DEF Adds
  <1>2. PICK h : Sums(h, e, S) /\ m = h[S]
    BY DEF Adds
  <1>3. g[S] = h[S]
    BY <1>1, <1>2, SumsAgree
  <1> QED
    BY <1>1, <1>2, <1>3

\* Adding an element to a set adds its value to the sum.
LEMMA AddsOne ==
    ASSUME NEW S, IsFiniteSet(S), NEW y, y \notin S,
           NEW f, NEW n, Adds(f, S, n), NEW e, NEW m, Adds(e, S \cup {y}, m),
           \A x \in S : f[x] = e[x], \A x \in S \cup {y} : e[x] \in Int
    PROVE  m = n + e[y]
  <1> DEFINE T == S \cup {y}
  <1>1. PICK g : Sums(g, f, S) /\ n = g[S]
    BY DEF Adds
  <1>2. PICK h : Sums(h, e, T) /\ m = h[T]
    BY DEF Adds
  <1>3. IsFiniteSet(T)
    BY FS_AddElement
  <1>4. S = T \ {y} /\ y \in T /\ T \in SUBSET T /\ S \in SUBSET T
    OBVIOUS
  <1>5. \A x \in T : e[x] \in Int
    OBVIOUS
  <1> HIDE DEF T
  <1>6. h[T] = e[y] + h[T \ {y}]
    BY ONLY <1>2, <1>3, <1>4, <1>5, SumWithout
  <1>7. g[S] = h[S]
    BY <1>1, <1>2, <1>4, SumsAgree
  <1>8. h[S] \in Int /\ e[y] \in Int
    BY <1>2, <1>3, <1>4, <1>5, SumsAreIntegers
  <1> QED
    BY <1>1, <1>2, <1>4, <1>6, <1>7, <1>8

----------------------------------------------------------------------------
(* What lines add to a slot, one by one and together. *)

ChangeOf(line, slot) == (IF slot \in Given(line) THEN line.qty ELSE 0)
                        - (IF slot \in Taken(line) THEN line.qty ELSE 0)
TwoEnds(line) == line.kind = "transfer" => line.from # line.to

LEMMA ChangeIsInt == ASSUME NEW line \in Line, NEW slot PROVE ChangeOf(line, slot) \in Int
  <1>1. line.qty \in Nat
    BY DEF Line
  <1> QED
    BY <1>1 DEF ChangeOf

LEMMA EffectChanges ==
    ASSUME NEW line \in Line, TwoEnds(line), NEW b \in Stocks, NEW slot \in Slots
    PROVE  /\ Applied(b, Posting(line))[slot] = b[slot] + ChangeOf(line, slot)
           /\ Applied(b, Undoing(line))[slot] = b[slot] - ChangeOf(line, slot)
           /\ \A S : slot \notin S => Applied(b, Setting(line, S))[slot] = b[slot]
           /\ line.kind = "adjustment" => ChangeOf(line, slot) = 0
  <1>1. PICK q \in Nat, c \in Nat : q = line.qty /\ c = b[slot]
    BY DEF Line, Stocks
  <1>2. ~(slot \in Given(line) /\ slot \in Taken(line))
    <2>1. ASSUME slot \in Given(line), slot \in Taken(line)
          PROVE  line.kind = "transfer" /\ line.from = line.to
      <3>1. slot = <<line.item, line.to>> /\ slot = <<line.item, line.from>>
        BY <2>1 DEF Given, Taken, Source, Destination
      <3> QED
        BY <2>1, <3>1 DEF Given, Taken, GivesStock, TakesStock
    <2> QED
      BY <2>1 DEF TwoEnds
  <1>3. ChangeOf(line, slot) = (IF slot \in Given(line) THEN q ELSE 0)
                               - (IF slot \in Taken(line) THEN q ELSE 0)
    BY <1>1 DEF ChangeOf
  <1>4. Applied(b, Posting(line))[slot] = IF slot \in Given(line) THEN c + q
                                          ELSE IF slot \in Taken(line) THEN c - q ELSE c
    BY <1>1 DEF Applied, Posting, Stocks
  <1>5. Applied(b, Undoing(line))[slot] = IF slot \in Taken(line) THEN c + q
                                          ELSE IF slot \in Given(line) THEN c - q ELSE c
    BY <1>1 DEF Applied, Undoing, Stocks
  <1>6. \A S : slot \notin S => Applied(b, Setting(line, S))[slot] = b[slot]
    BY DEF Applied, Setting, Stocks
  <1>7. line.kind = "adjustment" => Given(line) = {} /\ Taken(line) = {}
    BY DEF Given, Taken, GivesStock, TakesStock
  <1> QED
    BY <1>1, <1>2, <1>3, <1>4, <1>5, <1>6, <1>7

Total(rows, slot, S) == MapThenSumSet(LAMBDA m : ChangeOf(rows[m].line, slot), S)
InForceOf(rows) == {m \in DOMAIN rows : /\ rows[m].status = "completed"
                                        /\ rows[m].line.kind # "reversal"}

LEMMA TotalAdds ==
    ASSUME NEW rows, NEW slot, NEW S, IsFiniteSet(S),
           NEW f, \A m \in S : f[m] = ChangeOf(rows[m].line, slot)
    PROVE  Adds(f, S, Total(rows, slot, S))
  <1> DEFINE Sum == CHOOSE g : g = [T \in SUBSET S |->
                 IF T = {} THEN 0
                 ELSE ChangeOf(rows[CHOOSE x \in T : TRUE].line, slot)
                      + g[T \ {CHOOSE x \in T : TRUE}]]
  <1>1. Total(rows, slot, S) = Sum[S]
    BY DEF Total, MapThenSumSet, MapThenFoldSet
  <1>2. \A T \in SUBSET S : T # {} => f[First(T)] = ChangeOf(rows[CHOOSE x \in T : TRUE].line, slot)
    BY FirstIsMember DEF First
  <1>3. PICK g : Sums(g, f, S)
    BY SumsExist
  <1>4. g = [T \in SUBSET S |->
               IF T = {} THEN 0
               ELSE ChangeOf(rows[CHOOSE x \in T : TRUE].line, slot)
                    + g[T \ {CHOOSE x \in T : TRUE}]]
    BY <1>2, <1>3 DEF Sums, First
  <1>5. Sum = [T \in SUBSET S |->
                 IF T = {} THEN 0
                 ELSE ChangeOf(rows[CHOOSE x \in T : TRUE].line, slot)
                      + Sum[T \ {CHOOSE x \in T : TRUE}]]
    BY <1>4
  <1> HIDE DEF Sum
  <1>6. Sums(Sum, f, S)
    BY <1>2, <1>5 DEF Sums, First
  <1> QED
    BY <1>1, <1>6 DEF Adds

LEMMA TotalKept ==
    ASSUME NEW rows, NEW rows2, NEW slot, NEW S, IsFiniteSet(S),
           \A m \in S : rows[m].line = rows2[m].line
    PROVE  Total(rows, slot, S) = Total(rows2, slot, S)
  <1> DEFINE f == [m \in S |-> ChangeOf(rows[m].line, slot)]
  <1>1. \A m \in S : f[m] = ChangeOf(rows[m].line, slot) /\ f[m] = ChangeOf(rows2[m].line, slot)
    OBVIOUS
  <1> HIDE DEF f
  <1>2. Adds(f, S, Total(rows, slot, S)) /\ Adds(f, S, Total(rows2, slot, S))
    BY <1>1, TotalAdds
  <1> QED
    BY <1>2, AddsSame

LEMMA TotalWithOne ==
    ASSUME NEW rows, NEW rows2, NEW slot, NEW S, IsFiniteSet(S), NEW y, y \notin S,
           \A m \in S : rows[m].line = rows2[m].line,
           \A m \in S \cup {y} : rows2[m].line \in Line
    PROVE  Total(rows2, slot, S \cup {y}) = Total(rows, slot, S) + ChangeOf(rows2[y].line, slot)
  <1> DEFINE T == S \cup {y}
             f == [m \in T |-> ChangeOf(rows2[m].line, slot)]
  <1>1. /\ \A m \in T : f[m] = ChangeOf(rows2[m].line, slot) /\ f[m] \in Int
        /\ \A m \in S : f[m] = ChangeOf(rows[m].line, slot)
    BY ChangeIsInt
  <1> HIDE DEF f
  <1>2. IsFiniteSet(T) /\ y \in T
    BY FS_AddElement
  <1>3. Adds(f, S, Total(rows, slot, S)) /\ Adds(f, T, Total(rows2, slot, T))
    BY <1>1, <1>2, TotalAdds
  <1>4. PICK m, n : m = Total(rows2, slot, T) /\ n = Total(rows, slot, S)
    OBVIOUS
  <1>5. m = n + f[y]
    <2>1. /\ IsFiniteSet(S) /\ y \notin S /\ Adds(f, S, n) /\ Adds(f, S \cup {y}, m)
          /\ \A x \in S : f[x] = f[x]
          /\ \A x \in S \cup {y} : f[x] \in Int
      BY <1>1, <1>3, <1>4
    <2> QED
      BY ONLY <2>1, AddsOne
  <1> QED
    BY <1>1, <1>2, <1>4, <1>5

LEMMA TotalIsInt ==
    ASSUME NEW rows, NEW slot, NEW S, IsFiniteSet(S), \A m \in S : rows[m].line \in Line
    PROVE  Total(rows, slot, S) \in Int
  <1> DEFINE f == [m \in S |-> ChangeOf(rows[m].line, slot)]
  <1>1. \A m \in S : f[m] = ChangeOf(rows[m].line, slot) /\ f[m] \in Int
    BY ChangeIsInt
  <1> HIDE DEF f
  <1>2. PICK g : Sums(g, f, S) /\ Total(rows, slot, S) = g[S]
    BY <1>1, TotalAdds DEF Adds
  <1> QED
    BY <1>1, <1>2, SumsAreIntegers

LEMMA NoTotal == ASSUME NEW rows, NEW slot PROVE Total(rows, slot, {}) = 0
  <1> DEFINE f == [m \in {} |-> ChangeOf(rows[m].line, slot)]
  <1>1. Adds(f, {}, Total(rows, slot, {}))
    BY TotalAdds, FS_EmptySet
  <1> QED
    BY <1>1 DEF Adds, Sums

----------------------------------------------------------------------------
(* The movements in force account for the stock. *)

LEMMA AsTotals ==
    StockMatchesMovements <=>
        \A slot \in Slots :
            ~Adjusted(slot) => Stock[slot] = Total(movement, slot, InForceOf(movement))
  <1>1. StockMatchesMovements <=>
            \A slot \in Slots :
                ~Adjusted(slot) => OnHand(slot) = Total(movement, slot, InForceOf(movement))
    BY DEF StockMatchesMovements, Total, InForceOf, InForce, Change, ChangeOf
  <1>2. \A slot \in Slots : Stock[slot] = OnHand(slot)
    BY DEF Stock
  <1> QED
    BY <1>1, <1>2

LEMMA RowsAreFinite ==
    ASSUME NEW rows \in Rows, NEW S \in SUBSET DOMAIN rows
    PROVE  IsFiniteSet(S)
  <1>1. PICK n \in Nat : DOMAIN rows = 1..n
    BY DEF Rows
  <1>2. IsFiniteSet(1..n)
    BY FS_Interval
  <1> QED
    BY <1>1, <1>2, FS_Subset

\* A delivery note: its rows add one after the other what its effects do.
LEMMA PostMatches ==
    ASSUME NEW rows \in Rows, NEW lines \in Batches,
           NEW rows2, rows2 = AfterPost(rows, lines), NEW slot \in Slots,
           NEW es \in Seq(Effect), Len(es) = Len(lines),
           \A k \in DOMAIN es : es[k] \in Book!Effects(lines[k]),
           NEW b, NEW h, Run(b, es, h),
           \A k \in DOMAIN lines : lines[k].kind = "adjustment" =>
               slot \notin Source(lines[k]) \cup Destination(lines[k]),
           b[slot] = Total(rows, slot, InForceOf(rows))
    PROVE  h[Len(es)][slot] = Total(rows2, slot, InForceOf(rows2))
  <1>1. PICK n \in Nat, l \in Nat : /\ n = Len(lines) /\ DOMAIN lines = 1..n /\ DOMAIN es = 1..n
                                    /\ l = Len(rows) /\ DOMAIN rows = 1..l /\ Len(es) = n
    BY BatchLines DEF Rows
  <1>2. /\ rows2 \in Rows /\ Len(rows2) = l + n
        /\ \A k \in 1..l : rows2[k] = rows[k]
        /\ \A k \in 1..n : rows2[l + k] = Posted(lines[k])
    <2>1. /\ Grown(rows, rows2, 0) /\ Len(rows2) = l + n
          /\ \A k \in 1..n : rows2[l + k] = Posted(lines[k])
      BY <1>1, PostGrows
    <2>2. \A k \in 1..l : k # 0
      OBVIOUS
    <2> QED
      BY <1>1, <2>1, <2>2 DEF Grown
  <1>3. DOMAIN rows2 = 1..(l + n)
    BY <1>2, LenProperties DEF Rows
  <1>4. \A k \in 1..n : /\ lines[k] \in Line /\ TwoEnds(lines[k])
                        /\ lines[k].kind # "reversal"
    <2>1. \A k \in 1..n : lines[k] \in Line /\ Acceptable(lines[k])
      BY <1>1, BatchLines, BatchesAcceptable
    <2> QED
      BY <2>1 DEF Acceptable, TwoEnds
  <1>5. \A k \in 1..n : l + k \in InForceOf(rows2) /\ rows2[l + k].line = lines[k]
    <2>1. \A k \in 1..n : l + k \in 1..(l + n)
      BY <1>1
    <2> QED
      BY <1>2, <1>3, <1>4, <2>1, PostedRow DEF InForceOf
  <1>6. \A k \in 1..l : k \in InForceOf(rows2) <=> k \in InForceOf(rows)
    BY <1>1, <1>2, <1>3 DEF InForceOf
  <1> DEFINE F(k) == InForceOf(rows) \cup (l + 1)..(l + k)
  <1>7. InForceOf(rows) \in SUBSET (1..l) /\ InForceOf(rows2) \in SUBSET (1..(l + n))
    BY <1>1, <1>3 DEF InForceOf
  <1>8. F(n) = InForceOf(rows2) /\ F(0) = InForceOf(rows)
    <2>1. ASSUME NEW k \in 1..(l + n)
          PROVE  k \in F(n) <=> k \in InForceOf(rows2)
      <3>1. CASE k \in 1..l
        BY <1>6, <3>1
      <3>2. CASE k \notin 1..l
        <4>1. k - l \in 1..n /\ l + (k - l) = k /\ k \in (l + 1)..(l + n)
          BY <1>1, <3>2
        <4> QED
          BY <1>5, <4>1
      <3> QED
        BY <3>1, <3>2
    <2>2. F(n) \in SUBSET (1..(l + n))
      BY <1>1, <1>7
    <2>3. (l + 1)..(l + 0) = {}
      BY <1>1
    <2> QED
      BY <1>7, <2>1, <2>2, <2>3
  <1>9. ASSUME NEW k \in 0..n
        PROVE  F(k) \in SUBSET DOMAIN rows2 /\ IsFiniteSet(F(k))
    <2>1. F(k) \in SUBSET DOMAIN rows2
      BY <1>1, <1>3, <1>7
    <2> QED
      BY <1>2, <2>1, RowsAreFinite
  <1>10. h \in [0..n -> Stocks] /\ h[0] = b
         /\ \A k \in 1..n : h[k] = Applied(h[k - 1], es[k])
    BY <1>1 DEF Run
  <1>11. ASSUME NEW k \in 1..n
         PROVE  h[k][slot] = h[k - 1][slot] + ChangeOf(lines[k], slot)
    <2>1. PICK c, e : c \in Stocks /\ c = h[k - 1] /\ e = es[k] /\ h[k] = Applied(c, e)
      BY <1>10
    <2>2. e \in Book!Effects(lines[k])
      BY <1>1, <2>1
    <2>3. c[slot] \in Nat
      BY <2>1 DEF Stocks
    <2>4. CASE lines[k].kind # "adjustment"
      <3>1. e = Posting(lines[k])
        BY <2>2, <2>4, SameWords DEF Book!Effects
      <3> QED
        BY <1>4, <2>1, <3>1, EffectChanges
    <2>5. CASE lines[k].kind = "adjustment"
      <3>1. PICK x \in Source(lines[k]) \cup Destination(lines[k]) : e = Setting(lines[k], {x})
        BY <2>2, <2>5, SameWords DEF Book!Effects
      <3>2. slot \notin {x}
        BY <1>1, <2>5
      <3>3. Applied(c, e)[slot] = c[slot] /\ ChangeOf(lines[k], slot) = 0
        BY <1>4, <2>1, <2>5, <3>1, <3>2, EffectChanges
      <3> QED
        BY <2>1, <2>3, <3>3
    <2> QED
      BY <2>4, <2>5
  <1>12. ASSUME NEW k \in 1..n
         PROVE  Total(rows2, slot, F(k)) = Total(rows2, slot, F(k - 1)) + ChangeOf(lines[k], slot)
    <2>1. F(k) = F(k - 1) \cup {l + k}
      BY <1>1
    <2>2. l + k \notin F(k - 1)
      BY <1>1, <1>7
    <2>3. k - 1 \in 0..n /\ k \in 0..n
      BY <1>1
    <2>4. IsFiniteSet(F(k - 1)) /\ F(k) \in SUBSET DOMAIN rows2
      BY <1>9, <2>3
    <2>5. \A m \in F(k) : rows2[m].line \in Line
      <3>1. \A m \in DOMAIN rows2 : rows2[m] \in Row
        BY <1>2 DEF Rows
      <3> QED
        BY <2>4, <3>1 DEF Row
    <2>6. rows2[l + k].line = lines[k]
      BY <1>5
    <2> HIDE DEF F
    <2> QED
      BY <2>1, <2>2, <2>4, <2>5, <2>6, TotalWithOne
  <1>13. Total(rows2, slot, F(0)) = b[slot]
    <2>1. \A m \in InForceOf(rows) : rows2[m].line = rows[m].line
      BY <1>2, <1>7
    <2>2. IsFiniteSet(InForceOf(rows))
      BY <1>1, <1>7, RowsAreFinite
    <2>3. Total(rows, slot, InForceOf(rows)) = Total(rows2, slot, InForceOf(rows))
      BY <2>1, <2>2, TotalKept
    <2> QED
      BY <1>8, <2>3
  <1> HIDE DEF F
  <1>14. SUFFICES ASSUME h[n][slot] # Total(rows2, slot, F(n))
                  PROVE  FALSE
    BY <1>1, <1>8
  <1>15. PICK k \in 0..n : /\ h[k][slot] # Total(rows2, slot, F(k))
                           /\ \A j \in 0..n : h[j][slot] # Total(rows2, slot, F(j)) => k <= j
    <2> DEFINE T == {j \in 0..n : h[j][slot] # Total(rows2, slot, F(j))}
    <2>1. n \in T /\ T \subseteq Nat
      BY <1>14
    <2> QED
      BY <2>1, LeastNatural
  <1>16. k # 0
    BY <1>10, <1>13, <1>15
  <1>17. k - 1 \in 0..n /\ ~(k <= k - 1) /\ k \in 1..n
    BY <1>16
  <1>18. h[k - 1][slot] = Total(rows2, slot, F(k - 1))
    BY <1>15, <1>17
  <1> QED
    BY <1>11, <1>12, <1>15, <1>17, <1>18

\* A movement taken back is no longer in force.
LEMMA ReverseMatches ==
    ASSUME NEW rows \in Rows, NEW m \in DOMAIN rows, NEW rows2, rows2 = AfterReverse(rows, m),
           Reversible(rows, m), NEW line, line = rows[m].line, TwoEnds(line),
           NEW slot \in Slots, NEW b \in Stocks,
           b[slot] = Total(rows, slot, InForceOf(rows))
    PROVE  Applied(b, Undoing(line))[slot] = Total(rows2, slot, InForceOf(rows2))
  <1>1. PICK l \in Nat : l = Len(rows) /\ DOMAIN rows = 1..l
    BY DEF Rows
  <1>2. /\ Grown(rows, rows2, m) /\ Len(rows2) = l + 1
        /\ rows2[m].status = "reversed" /\ rows2[l + 1].line.kind = "reversal"
    BY <1>1, ReverseGrows
  <1>3. DOMAIN rows2 = 1..(l + 1)
    BY <1>2, LenProperties DEF Rows, Grown
  <1>4. \A k \in DOMAIN rows : rows[k].line \in Line
    <2>1. \A k \in DOMAIN rows : rows[k] \in Row
      BY DEF Rows
    <2> QED
      BY <2>1 DEF Row
  <1>5. line \in Line
    BY <1>4
  <1> DEFINE S == InForceOf(rows2)
  <1>6. S \in SUBSET DOMAIN rows /\ m \notin S
    BY <1>1, <1>2, <1>3 DEF InForceOf
  <1>7. InForceOf(rows) = S \cup {m}
    <2>1. m \in InForceOf(rows)
      BY DEF InForceOf, Reversible, ReversibleKinds, Kinds
    <2>2. \A k \in DOMAIN rows : k # m => (k \in S <=> k \in InForceOf(rows))
      BY <1>1, <1>2, <1>3 DEF InForceOf, Grown
    <2>3. InForceOf(rows) \in SUBSET DOMAIN rows
      BY DEF InForceOf
    <2> QED
      BY <1>6, <2>1, <2>2, <2>3
  <1>8. IsFiniteSet(S) /\ \A k \in S : rows2[k].line = rows[k].line
    BY <1>2, <1>6, RowsAreFinite DEF Grown
  <1>9. \A k \in S \cup {m} : rows[k].line \in Line
    BY <1>4, <1>6
  <1> HIDE DEF S
  <1>10. Total(rows, slot, S \cup {m}) = Total(rows2, slot, S) + ChangeOf(line, slot)
    BY <1>6, <1>8, <1>9, TotalWithOne
  <1>11. Applied(b, Undoing(line))[slot] = b[slot] - ChangeOf(line, slot)
    BY <1>5, EffectChanges
  <1>12. PICK t \in Int : t = Total(rows2, slot, S)
    <2>1. \A k \in S : rows2[k].line \in Line
      BY <1>4, <1>6, <1>8
    <2> QED
      BY <1>8, <2>1, TotalIsInt
  <1>13. PICK c \in Int : c = ChangeOf(line, slot)
    BY <1>5, ChangeIsInt
  <1>14. b[slot] = t + c
    BY <1>7, <1>10, <1>12, <1>13
  <1>15. Applied(b, Undoing(line))[slot] = t
    BY <1>11, <1>12, <1>13, <1>14
  <1> QED
    BY <1>12, <1>15 DEF S

\* A correction puts the corrected movement in the place of the one it undoes.
LEMMA CorrectMatches ==
    ASSUME NEW rows \in Rows, NEW m \in DOMAIN rows, NEW qty \in Quantities,
           NEW rows2, rows2 = Corrected(rows, m, qty),
           Reversible(rows, m), NEW line, line = rows[m].line, TwoEnds(line),
           NEW line2, line2 = Resized(line, qty), NEW slot \in Slots,
           NEW b \in Stocks, NEW c \in Stocks, c = Applied(b, Undoing(line)),
           b[slot] = Total(rows, slot, InForceOf(rows))
    PROVE  Applied(c, Posting(line2))[slot] = Total(rows2, slot, InForceOf(rows2))
  <1>1. PICK l \in Nat : l = Len(rows) /\ DOMAIN rows = 1..l
    BY DEF Rows
  <1>2. /\ Grown(rows, rows2, m) /\ Len(rows2) = l + 2
        /\ rows2[m].status = "corrected" /\ rows2[l + 1].line.kind = "reversal"
        /\ rows2[l + 2].line = line2 /\ rows2[l + 2].status = "completed"
    BY <1>1, CorrectGrows
  <1>3. DOMAIN rows2 = 1..(l + 2)
    BY <1>2, LenProperties DEF Rows, Grown
  <1>4. \A k \in DOMAIN rows : rows[k].line \in Line
    <2>1. \A k \in DOMAIN rows : rows[k] \in Row
      BY DEF Rows
    <2> QED
      BY <2>1 DEF Row
  <1>5. /\ line \in Line /\ line2 \in Line /\ line2.kind = line.kind /\ TwoEnds(line2)
        /\ line2.kind # "reversal"
    <2>1. /\ line2 \in Line /\ line2.kind = line.kind /\ line2.from = line.from
          /\ line2.to = line.to
      BY CorrectionRow
    <2> QED
      BY <1>4, <2>1 DEF TwoEnds, Reversible, ReversibleKinds, Kinds
  <1> DEFINE S == InForceOf(rows) \ {m}
  <1>6. InForceOf(rows) = S \cup {m} /\ m \notin S /\ S \in SUBSET DOMAIN rows
    <2>1. m \in InForceOf(rows)
      BY DEF InForceOf, Reversible, ReversibleKinds, Kinds
    <2>2. InForceOf(rows) \in SUBSET DOMAIN rows
      BY DEF InForceOf
    <2> QED
      BY <2>1, <2>2
  <1>7. InForceOf(rows2) = S \cup {l + 2}
    <2>1. l + 2 \in InForceOf(rows2) /\ l + 1 \notin InForceOf(rows2) /\ m \notin InForceOf(rows2)
      BY <1>1, <1>2, <1>3, <1>5 DEF InForceOf
    <2>2. \A k \in DOMAIN rows : k # m => (k \in S <=> k \in InForceOf(rows2))
      BY <1>1, <1>2, <1>3 DEF InForceOf, Grown
    <2>3. \A k \in DOMAIN rows2 : k \in DOMAIN rows \/ k = l + 1 \/ k = l + 2
      BY <1>1, <1>3
    <2>4. InForceOf(rows2) \in SUBSET DOMAIN rows2
      BY DEF InForceOf
    <2> QED
      BY <1>6, <2>1, <2>2, <2>3, <2>4
  <1>8. /\ IsFiniteSet(S) /\ l + 2 \notin S
        /\ \A k \in S : rows2[k].line = rows[k].line /\ rows[k].line \in Line
    <2>1. l + 2 \notin S
      BY <1>1, <1>6
    <2> QED
      BY <1>2, <1>4, <1>6, <2>1, RowsAreFinite DEF Grown
  <1> HIDE DEF S
  <1>9. Total(rows, slot, S \cup {m}) = Total(rows, slot, S) + ChangeOf(line, slot)
    BY <1>5, <1>6, <1>8, TotalWithOne
  <1>10. Total(rows2, slot, S \cup {l + 2}) = Total(rows, slot, S) + ChangeOf(line2, slot)
    <2>1. \A k \in S \cup {l + 2} : rows2[k].line \in Line
      BY <1>2, <1>5, <1>8
    <2> QED
      BY <1>2, <1>8, <2>1, TotalWithOne
  <1>11. /\ c[slot] = b[slot] - ChangeOf(line, slot)
         /\ Applied(c, Posting(line2))[slot] = c[slot] + ChangeOf(line2, slot)
    BY <1>5, EffectChanges
  <1>12. PICK t \in Int : t = Total(rows, slot, S)
    BY <1>8, TotalIsInt
  <1>13. PICK d \in Int, d2 \in Int : d = ChangeOf(line, slot) /\ d2 = ChangeOf(line2, slot)
    BY <1>5, ChangeIsInt
  <1>14. b[slot] = t + d
    BY <1>6, <1>9, <1>12, <1>13
  <1>15. c[slot] = t
    BY <1>11, <1>12, <1>13, <1>14
  <1> QED
    BY <1>7, <1>10, <1>11, <1>12, <1>13, <1>15

\* An opening is the first that a new item's balance is about.
LEMMA OpeningMatches ==
    ASSUME NEW rows \in Rows, NEW row \in Row, NEW rows2, rows2 = Append(rows, row),
           row.status = "completed", row.line.kind # "reversal", NEW slot \in Slots,
           NEW n \in Nat, n = Total(rows, slot, InForceOf(rows))
    PROVE  n + ChangeOf(row.line, slot) = Total(rows2, slot, InForceOf(rows2))
  <1>1. PICK l \in Nat : l = Len(rows) /\ DOMAIN rows = 1..l
    BY DEF Rows
  <1>2. /\ DOMAIN rows2 = 1..(l + 1) /\ rows2 \in Rows
        /\ \A k \in 1..l : rows2[k] = rows[k]
        /\ rows2[l + 1] = row
    BY <1>1 DEF Rows
  <1> DEFINE S == InForceOf(rows)
  <1>3. S \in SUBSET DOMAIN rows /\ l + 1 \notin S
    BY <1>1 DEF InForceOf
  <1>4. InForceOf(rows2) = S \cup {l + 1}
    <2>1. \A k \in 1..(l + 1) : k \in InForceOf(rows2) <=> k \in S \/ k = l + 1
      BY <1>1, <1>2 DEF InForceOf
    <2>2. InForceOf(rows2) \in SUBSET (1..(l + 1)) /\ S \in SUBSET (1..(l + 1))
      BY <1>1, <1>2 DEF InForceOf
    <2>3. l + 1 \in 1..(l + 1)
      BY <1>1
    <2> QED
      BY <2>1, <2>2, <2>3
  <1>5. IsFiniteSet(S) /\ \A k \in S : rows2[k].line = rows[k].line
    BY <1>1, <1>2, <1>3, RowsAreFinite
  <1>6. \A k \in S \cup {l + 1} : rows2[k].line \in Line
    <2>1. \A k \in DOMAIN rows2 : rows2[k] \in Row
      BY <1>2 DEF Rows
    <2>2. S \cup {l + 1} \in SUBSET DOMAIN rows2
      BY <1>1, <1>2, <1>3
    <2> QED
      BY <2>1, <2>2 DEF Row
  <1> HIDE DEF S
  <1>7. Total(rows2, slot, S \cup {l + 1}) = Total(rows, slot, S) + ChangeOf(row.line, slot)
    <2>1. PICK y : y = l + 1 /\ y \notin S /\ rows2[y].line = row.line
      BY <1>2, <1>3
    <2>2. \A k \in S : rows[k].line = rows2[k].line
      BY <1>5
    <2>3. \A k \in S \cup {y} : rows2[k].line \in Line
      BY <1>6, <2>1
    <2>4. Total(rows2, slot, S \cup {y}) = Total(rows, slot, S) + ChangeOf(rows2[y].line, slot)
      <3>1. IsFiniteSet(S) /\ y \notin S
        BY <1>5, <2>1
      <3> QED
        BY ONLY <2>2, <2>3, <3>1, TotalWithOne
    <2> QED
      BY <2>1, <2>4
  <1> QED
    BY <1>4, <1>7 DEF S

\* A transfer goes from one location to another.
TransfersMove == \A m \in DOMAIN movement : TwoEnds(movement[m].line)

Matching == TransfersMove /\ StockMatchesMovements

LEMMA SameBooksMatch ==
    ASSUME Matching, UNCHANGED <<balance, movement>>
    PROVE  Matching'
  <1>1. TransfersMove'
    BY DEF Matching, TransfersMove
  <1>2. Stock' = Stock /\ \A slot : Adjusted(slot)' <=> Adjusted(slot)
    BY DEF Stock, OnHand, Adjusted
  <1>3. \A slot \in Slots :
            ~Adjusted(slot) => Stock[slot] = Total(movement, slot, InForceOf(movement))
    BY AsTotals DEF Matching
  <1>4. (\A slot \in Slots :
            ~Adjusted(slot) => Stock[slot] = Total(movement, slot, InForceOf(movement)))'
    BY <1>2, <1>3
  <1>5. StockMatchesMovements'
    BY <1>4, AsTotals, PTL
  <1> QED
    BY <1>1, <1>5 DEF Matching

\* What has to hold when rows are added: they move between two ends, and the
\* slots that no count touches have what the rows add up to.
LEMMA MatchingAfter ==
    ASSUME \A m \in DOMAIN movement' : TwoEnds(movement'[m].line),
           \A slot \in Slots :
               Adjusted(slot)' \/ Stock'[slot] = Total(movement', slot, InForceOf(movement'))
    PROVE  Matching'
  <1>1. (\A slot \in Slots :
            ~Adjusted(slot) => Stock[slot] = Total(movement, slot, InForceOf(movement)))'
    OBVIOUS
  <1>2. StockMatchesMovements'
    BY <1>1, AsTotals, PTL
  <1> QED
    BY <1>2 DEF Matching, TransfersMove

LEMMA MatchingBefore ==
    ASSUME Inductive, Matching, NEW m, Grown(movement, movement', m),
           NEW slot \in Slots, ~Adjusted(slot)'
    PROVE  /\ Stock[slot] = Total(movement, slot, InForceOf(movement))
           /\ \A k \in DOMAIN movement :
                  /\ TwoEnds(movement[k].line)
                  /\ TwoEnds(movement'[k].line)
  <1>1. ~Adjusted(slot)
    BY DEF Adjusted, Grown
  <1>2. Stock[slot] = Total(movement, slot, InForceOf(movement))
    BY <1>1, AsTotals DEF Matching
  <1> QED
    BY <1>2 DEF Matching, TransfersMove, Grown

LEMMA CreateItemMatches ==
    ASSUME Inductive, Matching, NEW s \in Sessions, NEW i \in Items, NEW l \in Locations,
           NEW q \in Quantities \cup {0}, CreateItem(s, i, l, q)
    PROVE  Matching'
  <1>1. /\ i \notin item /\ balance' = [balance EXCEPT ![<<i, l>>] = q]
        /\ balance \in [Slots -> Nat \cup {Absent}] /\ <<i, l>> \in Slots /\ q \in Nat
    BY InventoryAssumption DEF CreateItem, Inductive, TypeOK, Slots
  <1>2. OnHand(<<i, l>>) = 0
    BY <1>1 DEF Inductive, KnownItems, OnHand
  <1>3. \A x \in Slots : Stock'[x] = IF x = <<i, l>> THEN q ELSE Stock[x]
    <2>1. \A x \in Slots : balance'[x] = IF x = <<i, l>> THEN q ELSE balance[x]
      BY <1>1
    <2> QED
      BY <1>1, <2>1 DEF Stock, OnHand, Absent
  <1>4. Stock[<<i, l>>] = 0
    BY <1>1, <1>2 DEF Stock
  <1>5. movement \in Rows /\ Stock \in Stocks
    BY StockIsStock DEF Inductive, TypeOK, Rows
  <1>6. CASE q = 0
    <2>1. movement' = movement
      BY <1>6 DEF CreateItem
    <2>2. \A x \in Slots : Stock'[x] = Stock[x]
      BY <1>3, <1>4, <1>6
    <2>3. \A x : Adjusted(x)' <=> Adjusted(x)
      BY <2>1 DEF Adjusted
    <2>4. \A slot \in Slots :
              Adjusted(slot) \/ Stock[slot] = Total(movement, slot, InForceOf(movement))
      BY AsTotals DEF Matching
    <2>5. \A slot \in Slots :
              Adjusted(slot)' \/ Stock'[slot] = Total(movement', slot, InForceOf(movement'))
      BY <2>1, <2>2, <2>3, <2>4
    <2>6. \A m \in DOMAIN movement' : TwoEnds(movement'[m].line)
      BY <2>1 DEF Matching, TransfersMove
    <2> QED
      BY <2>5, <2>6, MatchingAfter
  <1>7. CASE q # 0
    <2>1. PICK row, line : /\ row = Posted(line) /\ line = Opening(i, l, q)
                           /\ movement' = Append(movement, row)
      BY <1>7 DEF CreateItem, Opening
    <2>2. /\ line \in Line /\ line.item = i /\ line.kind = "inward" /\ line.to = l
          /\ line.qty = q /\ row \in Row /\ row.status = "completed" /\ row.line = line
      BY <1>7, <2>1, OpeningLine, PostedRow
    <2>3. PICK n \in Nat : n = Len(movement) /\ DOMAIN movement = 1..n
      BY <1>5 DEF Rows
    <2>4. /\ DOMAIN movement' = 1..(n + 1) /\ movement'[n + 1] = row
          /\ \A k \in 1..n : movement'[k] = movement[k]
      BY <1>5, <2>1, <2>2, <2>3 DEF Rows
    <2>5. \A k \in DOMAIN movement' : TwoEnds(movement'[k].line)
      BY <2>2, <2>3, <2>4 DEF Matching, TransfersMove, TwoEnds
    <2>6. \A x \in Slots : ChangeOf(line, x) = IF x = <<i, l>> THEN q ELSE 0
      <3>1. Taken(line) = {} /\ Given(line) = Destination(line)
        BY <2>2 DEF Taken, Given, TakesStock, GivesStock
      <3>2. Destination(line) = {<<i, l>>}
        BY <2>2, InventoryAssumption DEF Destination
      <3> QED
        BY <1>1, <2>2, <3>1, <3>2 DEF ChangeOf
    <2>7. ASSUME NEW slot \in Slots, ~Adjusted(slot)'
          PROVE  Stock'[slot] = Total(movement', slot, InForceOf(movement'))
      <3>1. ~Adjusted(slot)
        BY <2>3, <2>4, <2>7 DEF Adjusted
      <3>2. PICK c \in Nat : c = Stock[slot] /\ c = Total(movement, slot, InForceOf(movement))
        BY <1>5, <3>1, AsTotals DEF Matching, Stocks
      <3>3. c + ChangeOf(row.line, slot) = Total(movement', slot, InForceOf(movement'))
        <4>1. /\ movement \in Rows /\ row \in Row /\ movement' = Append(movement, row)
              /\ row.status = "completed" /\ row.line.kind # "reversal" /\ slot \in Slots
              /\ c \in Nat /\ c = Total(movement, slot, InForceOf(movement))
          BY <1>5, <2>1, <2>2, <3>2
        <4> QED
          BY ONLY <4>1, OpeningMatches
      <3>4. Stock'[slot] = c + ChangeOf(row.line, slot)
        <4>1. CASE slot = <<i, l>>
          <5>1. c = 0 /\ ChangeOf(row.line, slot) = q /\ Stock'[slot] = q
            BY <1>1, <1>3, <1>4, <2>2, <2>6, <3>2, <4>1
          <5> QED
            BY <1>1, <5>1
        <4>2. CASE slot # <<i, l>>
          <5>1. ChangeOf(row.line, slot) = 0 /\ Stock'[slot] = c
            BY <1>3, <2>2, <2>6, <3>2, <4>2
          <5> QED
            BY <5>1
        <4> QED
          BY <4>1, <4>2
      <3> QED
        BY <3>3, <3>4
    <2> QED
      BY <2>5, <2>7, MatchingAfter
  <1> QED
    BY <1>6, <1>7

LEMMA CommitMatches ==
    ASSUME Inductive, Matching, NEW s \in Sessions, Commit(s)
    PROVE  Matching'
  <1>1. PICK r, m : r = req[s] /\ m = r.mv
    OBVIOUS
  <1>2. /\ r \in Request /\ Meant(movement, item, r) /\ movement \in Rows
        /\ Grown(movement, movement', m) /\ Committed(movement, movement', r)
    BY <1>1, RequestOf, CommitRows DEF Commit, Inductive, TypeOK, Rows
  <1>3. \A k \in DOMAIN movement : TwoEnds(movement'[k].line) /\ TwoEnds(movement[k].line)
    BY <1>2 DEF Matching, TransfersMove, Grown
  <1>4. PICK n \in Nat : n = Len(movement) /\ DOMAIN movement = 1..n
    BY <1>2 DEF Rows
  <1>5. Stock \in Stocks
    BY StockIsStock DEF Inductive
  <1>6. DOMAIN movement' = 1..Len(movement')
    BY <1>2 DEF Grown, Rows
  <1>7. CASE r.op = "post"
    <2>1. PICK lines \in Batches : lines = r.lines /\ movement' = AfterPost(movement, lines)
      BY <1>2, <1>7 DEF Meant, Committed
    <2>2. PICK l \in Nat : l = Len(lines) /\ DOMAIN lines = 1..l
      BY BatchLines
    <2>3. /\ Len(movement') = n + l
          /\ \A k \in 1..l : movement'[n + k] = Posted(lines[k])
      BY <1>2, <1>4, <2>1, <2>2, PostGrows
    <2>4. \A k \in 1..l : movement'[n + k].line = lines[k] /\ TwoEnds(lines[k])
      <3>1. \A k \in 1..l : lines[k] \in Line /\ Acceptable(lines[k])
        BY <2>2, BatchLines, BatchesAcceptable
      <3> QED
        BY <2>3, <3>1, PostedRow DEF Acceptable, TwoEnds
    <2>5. ASSUME NEW k \in DOMAIN movement'
          PROVE  TwoEnds(movement'[k].line)
      <3>1. CASE k \in 1..n
        BY <1>3, <1>4, <3>1
      <3>2. CASE k \notin 1..n
        <4>1. k - n \in 1..l /\ n + (k - n) = k
          BY <1>4, <1>6, <2>2, <2>3, <3>2
        <4> QED
          BY <2>4, <4>1
      <3> QED
        BY <3>1, <3>2
    <2>6. ASSUME NEW slot \in Slots, ~Adjusted(slot)'
          PROVE  Stock'[slot] = Total(movement', slot, InForceOf(movement'))
      <3>1. Stock[slot] = Total(movement, slot, InForceOf(movement))
        BY <1>2, <2>6, MatchingBefore
      <3>2. ASSUME NEW k \in DOMAIN lines, lines[k].kind = "adjustment"
            PROVE  slot \notin Source(lines[k]) \cup Destination(lines[k])
        <4>1. n + k \in DOMAIN movement' /\ movement'[n + k].line = lines[k]
          <5>1. k \in 1..l /\ DOMAIN movement' = 1..(n + l)
            BY <1>6, <2>2, <2>3
          <5>2. n + k \in 1..(n + l)
            BY <1>4, <2>2, <5>1
          <5> QED
            BY <2>4, <5>1, <5>2
        <4> QED
          BY <2>6, <3>2, <4>1 DEF Adjusted
      <3>3. PICK es, h :
               /\ es \in Seq(Effect) /\ Len(es) = Len(Plan(movement, r))
               /\ \A k \in DOMAIN es : Does(es[k], Plan(movement, r)[k])
               /\ Run(Stock, es, h) /\ h[Len(es)] = Stock'
        BY <1>1, CommitRun
      <3>4. Len(es) = l /\ \A k \in DOMAIN es : es[k] \in Book!Effects(lines[k])
        <4>1. Len(es) = l /\ \A k \in 1..l : Plan(movement, r)[k] = ToPost(lines[k])
          BY <1>7, <2>1, <2>2, <3>3, PlanOfPost
        <4>2. DOMAIN es = 1..l
          BY <4>1
        <4>3. \A line : ToPost(line).undo = FALSE /\ ToPost(line).line = line
          BY DEF ToPost
        <4>4. \A k \in 1..l : Does(es[k], ToPost(lines[k]))
          BY <3>3, <4>1, <4>2
        <4> QED
          BY <4>1, <4>2, <4>3, <4>4 DEF Does
      <3>5. h[Len(es)][slot] = Total(movement', slot, InForceOf(movement'))
        <4>1. /\ movement \in Rows /\ lines \in Batches /\ movement' = AfterPost(movement, lines)
              /\ slot \in Slots /\ es \in Seq(Effect) /\ Len(es) = Len(lines)
              /\ Run(Stock, es, h)
              /\ Stock[slot] = Total(movement, slot, InForceOf(movement))
          BY <1>2, <2>1, <2>2, <3>1, <3>3, <3>4
        <4>2. \A k \in DOMAIN es : es[k] \in Book!Effects(lines[k])
          BY <3>4
        <4>3. \A k \in DOMAIN lines : lines[k].kind = "adjustment" =>
                  slot \notin Source(lines[k]) \cup Destination(lines[k])
          BY <3>2
        <4> QED
          BY ONLY <4>1, <4>2, <4>3, PostMatches
      <3> QED
        BY <3>3, <3>5
    <2> QED
      BY <2>5, <2>6, MatchingAfter
  <1>8. CASE r.op = "reverse"
    <2>1. PICK line : line = movement[m].line
      OBVIOUS
    <2>2. /\ m \in DOMAIN movement /\ Reversible(movement, m) /\ line \in Line
          /\ movement' = AfterReverse(movement, m)
      BY <1>1, <1>8, <2>1, ReverseRun
    <2>3. Len(movement') = n + 1 /\ movement'[n + 1].line.kind = "reversal"
      BY <1>2, <1>4, <2>2, ReverseGrows
    <2>4. \A k \in DOMAIN movement' : TwoEnds(movement'[k].line)
      <3>1. \A k \in DOMAIN movement' : k \in 1..n \/ k = n + 1
        BY <1>4, <1>6, <2>3
      <3>2. TwoEnds(movement'[n + 1].line)
        BY <2>3 DEF TwoEnds
      <3> QED
        BY <1>3, <1>4, <3>1, <3>2
    <2>5. Stock' = Applied(Stock, Undoing(line))
      <3>1. PICK es, h :
               /\ es \in Seq(Effect) /\ Len(es) = 1 /\ es[1] = Undoing(line)
               /\ Run(Stock, es, h) /\ h[Len(es)] = Stock'
        BY <1>1, <1>8, <2>1, ReverseRun
      <3>2. DOMAIN es = {1}
        BY <3>1
      <3> QED
        BY <3>1, <3>2 DEF Run
    <2>6. ASSUME NEW slot \in Slots, ~Adjusted(slot)'
          PROVE  Stock'[slot] = Total(movement', slot, InForceOf(movement'))
      <3>1. Stock[slot] = Total(movement, slot, InForceOf(movement))
        BY <1>2, <2>6, MatchingBefore
      <3>2. TwoEnds(line)
        BY <1>3, <2>1, <2>2
      <3> QED
        BY <1>2, <1>5, <2>1, <2>2, <2>5, <3>1, <3>2, ReverseMatches
    <2> QED
      BY <2>4, <2>6, MatchingAfter
  <1>9. CASE r.op = "correct"
    <2>1. PICK line, qty : line = movement[m].line /\ qty = r.qty
      OBVIOUS
    <2>2. PICK line2 : line2 = Resized(line, qty)
      OBVIOUS
    <2>3. /\ m \in DOMAIN movement /\ Reversible(movement, m) /\ line \in Line
          /\ qty \in Quantities /\ movement' = Corrected(movement, m, qty)
      BY <1>1, <1>9, <2>1, <2>2, CorrectRun
    <2>4. /\ Len(movement') = n + 2 /\ movement'[n + 1].line.kind = "reversal"
          /\ movement'[n + 2].line = line2
      BY <1>2, <1>4, <2>1, <2>2, <2>3, CorrectGrows
    <2>5. \A k \in DOMAIN movement' : TwoEnds(movement'[k].line)
      <3>1. \A k \in DOMAIN movement' : k \in 1..n \/ k = n + 1 \/ k = n + 2
        BY <1>4, <1>6, <2>4
      <3>2. TwoEnds(movement'[n + 1].line)
        BY <2>4 DEF TwoEnds
      <3>3. TwoEnds(line2)
        <4>1. line2.kind = line.kind /\ line2.from = line.from /\ line2.to = line.to
          BY <1>2, <2>1, <2>2, <2>3, CorrectionRow
        <4> QED
          BY <1>3, <2>1, <2>3, <4>1 DEF TwoEnds
      <3> QED
        BY <1>3, <1>4, <2>4, <3>1, <3>2, <3>3
    <2>6. PICK c \in Stocks : /\ c = Applied(Stock, Undoing(line))
                              /\ Stock' = Applied(c, Posting(line2))
      <3>1. PICK es, h :
               /\ es \in Seq(Effect) /\ Len(es) = 2
               /\ es[1] = Undoing(line) /\ es[2] = Posting(line2)
               /\ Run(Stock, es, h) /\ h[Len(es)] = Stock'
        BY <1>1, <1>9, <2>1, <2>2, CorrectRun
      <3>2. DOMAIN es = {1, 2} /\ 1 \in 0..2
        BY <3>1
      <3>3. h[1] \in Stocks /\ h[0] = Stock
        BY <3>1, <3>2 DEF Run
      <3>4. h[1] = Applied(h[0], es[1]) /\ h[2] = Applied(h[1], es[2])
        BY <3>1, <3>2 DEF Run
      <3> QED
        BY <3>1, <3>3, <3>4
    <2>7. ASSUME NEW slot \in Slots, ~Adjusted(slot)'
          PROVE  Stock'[slot] = Total(movement', slot, InForceOf(movement'))
      <3>1. Stock[slot] = Total(movement, slot, InForceOf(movement))
        BY <1>2, <2>7, MatchingBefore
      <3>2. TwoEnds(line)
        BY <1>3, <2>1, <2>3
      <3> QED
        BY <1>2, <1>5, <2>1, <2>2, <2>3, <2>6, <3>1, <3>2, CorrectMatches
    <2> QED
      BY <2>5, <2>7, MatchingAfter
  <1> QED
    BY <1>2, <1>7, <1>8, <1>9 DEF Request

LEMMA InitMatching ==
    ASSUME Init
    PROVE  Matching
  <1>1. \A slot \in Slots : Stock[slot] = 0
    BY DEF Init, Stock, OnHand
  <1>2. InForceOf(movement) = {}
    BY DEF Init, InForceOf
  <1>3. \A slot : Total(movement, slot, InForceOf(movement)) = 0
    BY <1>2, NoTotal
  <1> QED
    BY <1>1, <1>3, AsTotals DEF Init, Matching, TransfersMove

LEMMA NextMatching ==
    ASSUME Inductive, Matching, [Next]_vars
    PROVE  Matching'
  <1>1. CASE UNCHANGED vars
    BY <1>1, SameBooksMatch DEF vars
  <1>2. ASSUME NEW s \in Sessions, Start(s)
        PROVE  Matching'
    <2>1. CASE \E i \in Items, l \in Locations, q \in Quantities \cup {0} : CreateItem(s, i, l, q)
      BY <2>1, CreateItemMatches
    <2>2. CASE \E lines \in Batches : StartPost(s, lines)
      BY <2>2, SameBooksMatch DEF StartPost
    <2>3. CASE \E m \in DOMAIN movement : StartReverse(s, m)
      BY <2>3, SameBooksMatch DEF StartReverse
    <2>4. CASE \E m \in DOMAIN movement, q \in Quantities : StartCorrect(s, m, q)
      BY <2>4, SameBooksMatch DEF StartCorrect
    <2> QED
      BY <1>2, <2>1, <2>2, <2>3, <2>4 DEF Start
  <1>3. ASSUME NEW s \in Sessions, Rollback(s)
        PROVE  Matching'
    BY <1>3, SameBooksMatch DEF Rollback
  <1>4. ASSUME NEW s \in Sessions, Advance(s)
        PROVE  Matching'
    <2>1. CASE RefuseMovement(s) \/ DuplicateBalance(s) \/ RefuseEffect(s)
      BY <1>3, <2>1 DEF RefuseMovement, DuplicateBalance, RefuseEffect
    <2>2. CASE LockMovement(s) \/ SkipBalance(s) \/ LockBalance(s) \/ MissBalance(s)
      BY <2>2, SameBooksMatch DEF LockMovement, SkipBalance, LockBalance, MissBalance
    <2>3. CASE InsertBalance(s) \/ Apply(s)
      BY <2>3, SameBooksMatch DEF InsertBalance, Apply
    <2> QED
      BY <1>4, <2>1, <2>2, <2>3, CommitMatches DEF Advance
  <1> QED
    BY <1>1, <1>2, <1>3, <1>4 DEF Next

\* The stock of a slot that no count has touched is what its movements in force
\* add up to, whatever the interleaving: no posting, reversal or correction is
\* lost, repeated or applied to a balance that has changed since it was read
\* (_balance reads FOR UPDATE).
THEOREM StockAlwaysMatchesMovements == Spec => []StockMatchesMovements
  <1>1. Init => Matching
    BY InitMatching
  <1>2. Inductive /\ Matching /\ [Next]_vars => Matching'
    BY NextMatching
  <1>3. Matching => StockMatchesMovements
    BY DEF Matching
  <1>4. Spec => []Inductive
    BY InventoryInvariant
  <1> QED
    BY <1>1, <1>2, <1>3, <1>4, PTL DEF Spec
=============================================================================
