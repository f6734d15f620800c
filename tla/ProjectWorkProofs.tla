-------------------------- MODULE ProjectWorkProofs --------------------------
(* Theorems about the work on a project: the tasks of the members (Tasks), for *)
(* every set of members, roles and tasks and every percentage the form may     *)
(* send; the timeline of the project and its document packs (ProjectTimeline,  *)
(* DocumentPack), for every set of steps, sessions, clerks and administrators. *)
EXTENDS Tasks, DocumentPack, FiniteSetTheorems, FunctionTheorems,
        WellFoundedInduction, TLAPS

----------------------------------------------------------------------------
(* Tasks. *)

\* What ProgressMatchesStatus says of one assignment.
Agrees(w) == /\ w.status = "done" <=> w.progress = 100
             /\ w.status = "done" <=> w.completed
             /\ w.status = "todo" => w.progress = 0
             /\ w.status = "in_progress" => w.progress > 0

\* A client that shows the version of the row shows the row: versions of a task
\* only grow, and its identifier is not used again while somebody shows it.
ShownIsOlder ==
    \A m \in Members, t \in TaskIds : shown[m][t] # Missing /\ task[t] # Missing =>
        shown[m][t] = task[t] \/ shown[m][t].version < task[t].version

\* A task is never left without anybody to do it.
SomebodyIsAssigned == \A t \in TaskIds : task[t] # Missing => DOMAIN task[t].assigned # {}

Inductive == TypeOK /\ ProgressMatchesStatus /\ ShownIsOlder /\ SomebodyIsAssigned

----------------------------------------------------------------------------
(* What the operators of the model return. *)

LEMMA UpdatedAgrees ==
    ASSUME NEW a \in Assignment, Agrees(a),
           NEW status \in Statuses \cup {None}, NEW progress \in Progress \cup {NotSent}
    PROVE  /\ Updated(a, status, progress) \in Assignment
           /\ Agrees(Updated(a, status, progress))
  <1> DEFINE s == IF status = None THEN a.status ELSE status
             p == IF progress = NotSent THEN a.progress ELSE progress
  <1>1. s \in Statuses /\ p \in Percent /\ p \in 0..100
    <2>1. s \in Statuses
      BY DEF Assignment, Statuses
    <2>2. p \in Percent
      BY DEF Assignment, Percent
    <2>3. Percent \subseteq 0..100
      BY TasksAssumption DEF Percent
    <2> QED
      BY <2>1, <2>2, <2>3
  <1>2. CASE p >= 100 \/ s = "done"
    <2>1. Updated(a, status, progress) =
              [a EXCEPT !.status = "done", !.progress = 100, !.completed = TRUE]
      BY <1>2 DEF Updated
    <2> QED
      BY <2>1 DEF Assignment, Agrees, Statuses, Percent
  <1>3. CASE ~(p >= 100 \/ s = "done")
    <2> DEFINE ns == IF s = "todo" /\ p > 0 /\ status # "todo" THEN "in_progress" ELSE s
               np == IF status = "todo" THEN 0 ELSE IF s = "in_progress" /\ p = 0 THEN 10 ELSE p
    <2>1. Updated(a, status, progress) =
              [a EXCEPT !.completed = FALSE, !.status = ns, !.progress = np]
      BY <1>3 DEF Updated
    <2>2. /\ ns \in Statuses /\ ns # "done" /\ np \in Percent /\ np # 100
          /\ ns = "todo" => np = 0
          /\ ns = "in_progress" => np > 0
      BY <1>1, <1>3 DEF Statuses, Percent, None
    <2> HIDE DEF ns, np
    <2>3. np \in Nat
      BY <2>2, TasksAssumption DEF Percent
    <2>4. Updated(a, status, progress) =
              [status |-> ns, progress |-> np, completed |-> FALSE, role |-> a.role]
      BY <2>1 DEF Assignment
    <2>5. Updated(a, status, progress) \in Assignment
      BY <2>2, <2>4 DEF Assignment
    <2> QED
      BY <2>2, <2>3, <2>4, <2>5 DEF Agrees
  <1> QED
    BY <1>2, <1>3

LEMMA NewAgrees ==
    ASSUME NEW role \in Roles \cup {None}
    PROVE  NewAssignment(role) \in Assignment /\ Agrees(NewAssignment(role))
  BY DEF NewAssignment, Assignment, Agrees, Statuses, Percent

LEMMA TargetsType ==
    ASSUME TypeOK, NEW m \in Members, NEW ids \in SUBSET Members, NEW roles \in SUBSET Roles
    PROVE  /\ DOMAIN Targets(m, ids, roles) \subseteq Members
           /\ \A a \in DOMAIN Targets(m, ids, roles) :
                 Targets(m, ids, roles)[a] \in Roles \cup {None}
  BY TasksAssumption DEF TypeOK, Targets

\* What the type says of a task and its assignments.
LEMMA TaskColumns ==
    ASSUME TypeOK, NEW t \in TaskIds, task[t] # Missing
    PROVE  /\ task[t] \in Task
           /\ task[t].version \in 1..MaxVersion
           /\ DOMAIN task[t].assigned \subseteq Members
           /\ task[t].assigned = [a \in DOMAIN task[t].assigned |-> task[t].assigned[a]]
           /\ \A a \in DOMAIN task[t].assigned : task[t].assigned[a] \in Assignment
  <1>1. task[t] \in Task
    BY DEF TypeOK
  <1>2. PICK S \in SUBSET Members : task[t].assigned \in [S -> Assignment]
    BY <1>1 DEF Task
  <1> QED
    BY <1>1, <1>2 DEF Task

LEMMA TaskOfParts ==
    ASSUME NEW v \in 1..MaxVersion, NEW c \in Members, NEW d \in {None, "today"},
           NEW x \in {"general", "customers"}, NEW f,
           DOMAIN f \subseteq Members, f = [a \in DOMAIN f |-> f[a]],
           \A a \in DOMAIN f : f[a] \in Assignment
    PROVE  [version |-> v, creator |-> c, due |-> d, context |-> x, assigned |-> f] \in Task
  <1>1. f \in [DOMAIN f -> Assignment] /\ DOMAIN f \in SUBSET Members
    OBVIOUS
  <1>2. f \in UNION {[S -> Assignment] : S \in SUBSET Members}
    BY <1>1
  <1> QED
    BY <1>2 DEF Task

LEMMA MissingIsNoTask == Missing \notin Task /\ \A r \in Task : r.version > 0
  <1>1. \A r \in Task : r.version > 0
    BY TasksAssumption DEF Task
  <1> QED
    BY <1>1 DEF Missing

----------------------------------------------------------------------------
(* A change of one task, of which its row, its sender and its answer are     *)
(* known, keeps the invariant.                                              *)

Changes(m, t, new) ==
    /\ task' = [task EXCEPT ![t] = new]
    /\ new # Missing =>
          /\ new \in Task /\ DOMAIN new.assigned # {}
          /\ \A a \in DOMAIN new.assigned : Agrees(new.assigned[a])
    /\ IF task[t] = Missing THEN \A n \in Members : shown[n][t] = Missing
       ELSE new = Missing \/ new.version > task[t].version
    /\ Answer(m, t)
    /\ UNCHANGED <<active, visible, now>>

LEMMA ChangeStep ==
    ASSUME Inductive, NEW m \in Members, NEW t \in TaskIds, NEW new, Changes(m, t, new)
    PROVE  Inductive'
  <1>1. /\ task'[t] = new
        /\ \A u \in TaskIds : u # t => task'[u] = task[u]
        /\ task' \in [TaskIds -> Task \cup {Missing}]
    BY DEF Inductive, TypeOK, Changes
  <1>2. /\ shown' \in [Members -> [TaskIds -> Task \cup {Missing}]]
        /\ \A n \in Members, u \in TaskIds :
              \/ shown'[n][u] = shown[n][u]
              \/ n = m /\ u = t /\ shown'[n][u] = task'[u]
    BY <1>1 DEF Inductive, TypeOK, Changes, Answer
  <1>3. TypeOK'
    BY <1>1, <1>2 DEF Inductive, TypeOK, Changes
  <1>4. ProgressMatchesStatus'
    BY <1>1 DEF Inductive, ProgressMatchesStatus, Changes, Agrees
  <1>5. ShownIsOlder'
    <2> SUFFICES ASSUME NEW n \in Members, NEW u \in TaskIds,
                        shown'[n][u] # Missing, task'[u] # Missing
                 PROVE  shown'[n][u] = task'[u] \/ shown'[n][u].version < task'[u].version
      BY DEF ShownIsOlder
    <2>1. CASE shown'[n][u] # shown[n][u]
      BY <2>1, <1>2
    <2>2. CASE shown'[n][u] = shown[n][u] /\ u # t
      BY <2>2, <1>1 DEF Inductive, ShownIsOlder
    <2>3. CASE shown'[n][u] = shown[n][u] /\ u = t
      <3>1. task[t] # Missing /\ new # Missing /\ new.version > task[t].version
        BY <2>3, <1>1 DEF Changes
      <3>2. shown[n][t] = task[t] \/ shown[n][t].version < task[t].version
        BY <2>3, <3>1 DEF Inductive, ShownIsOlder
      <3>3. /\ shown[n][t] \in Task /\ task[t] \in Task /\ new \in Task
        BY <2>3, <3>1 DEF Inductive, TypeOK, Changes
      <3>4. shown[n][t].version \in Nat /\ task[t].version \in Nat /\ new.version \in Nat
        BY <3>3, TasksAssumption DEF Task
      <3> QED
        BY <2>3, <1>1, <3>1, <3>2, <3>4
    <2> QED
      BY <2>1, <2>2, <2>3
  <1>6. SomebodyIsAssigned'
    BY <1>1 DEF Inductive, SomebodyIsAssigned, Changes
  <1> QED
    BY <1>3, <1>4, <1>5, <1>6 DEF Inductive

LEMMA CreateStep ==
    ASSUME Inductive, NEW m \in Members, NEW t \in TaskIds, Create(m, t)
    PROVE  Inductive'
  <1>1. PICK ids \in SUBSET Members, roles \in SUBSET Roles, due \in {None, "today"},
             context \in {"general", "customers"} :
          /\ Selectable(m, ids, roles)
          /\ task' = [task EXCEPT ![t] =
             [version |-> 1, creator |-> m, due |-> due, context |-> context,
              assigned |-> [a \in DOMAIN Targets(m, ids, roles) |->
                               NewAssignment(Targets(m, ids, roles)[a])]]]
    BY Zenon DEF Create
  <1> DEFINE f == [a \in DOMAIN Targets(m, ids, roles) |->
                               NewAssignment(Targets(m, ids, roles)[a])]
             new == [version |-> 1, creator |-> m, due |-> due, context |-> context,
                     assigned |-> f]
  <1>2. /\ DOMAIN f \subseteq Members /\ DOMAIN f # {}
        /\ \A a \in DOMAIN f : f[a] \in Assignment /\ Agrees(f[a])
    BY <1>1, TargetsType, NewAgrees DEF Inductive, Selectable
  <1> HIDE DEF f
  <1>3. f = [a \in DOMAIN f |-> f[a]]
    BY DEF f
  <1>4. 1 \in 1..MaxVersion
    BY TasksAssumption
  <1>5. new \in Task
    BY <1>2, <1>3, <1>4, TaskOfParts
  <1>6. Changes(m, t, new)
    <2>1. task' = [task EXCEPT ![t] = new]
      BY <1>1 DEF f
    <2> QED
      BY <2>1, <1>2, <1>5 DEF Create, Changes
  <1> QED
    BY <1>6, ChangeStep

LEMMA EditStep ==
    ASSUME Inductive, NEW m \in Members, NEW t \in TaskIds, EditFields(m, t)
    PROVE  Inductive'
  <1>1. PICK due \in {None, "today"}, context \in {"general", "customers"} :
          task' = [task EXCEPT ![t].due = due, ![t].context = context, ![t].version = @ + 1]
    BY DEF EditFields
  <1>2. /\ task[t] # Missing /\ task[t] \in Task /\ task[t].version < MaxVersion
        /\ task[t].version \in 1..MaxVersion
    BY TaskColumns DEF EditFields, Current, Operational, Inductive
  <1> DEFINE new == [task[t] EXCEPT !.due = due, !.context = context, !.version = @ + 1]
  <1>3. task' = [task EXCEPT ![t] = new]
    BY <1>1 DEF Inductive, TypeOK
  <1>4. new = [version |-> task[t].version + 1, creator |-> task[t].creator, due |-> due,
               context |-> context, assigned |-> task[t].assigned]
    <2> DEFINE r == task[t]
               r1 == [r EXCEPT !.due = due]
               r2 == [r1 EXCEPT !.context = context]
    <2>1. r1 = [version |-> r.version, creator |-> r.creator, due |-> due,
                context |-> r.context, assigned |-> r.assigned]
      BY <1>2 DEF Task
    <2> HIDE DEF r1
    <2>2. r2 = [version |-> r.version, creator |-> r.creator, due |-> due,
                context |-> context, assigned |-> r.assigned]
      BY <2>1
    <2>3. new = [r2 EXCEPT !.version = r.version + 1]
      BY DEF r1
    <2> HIDE DEF r2
    <2> QED
      BY <2>2, <2>3
  <1> HIDE DEF new
  <1>5. new \in Task /\ new.assigned = task[t].assigned /\ new.version > task[t].version
    BY <1>2, <1>4, TasksAssumption DEF Task
  <1>6. DOMAIN new.assigned # {} /\ \A a \in DOMAIN new.assigned : Agrees(new.assigned[a])
    BY <1>2, <1>5 DEF Inductive, ProgressMatchesStatus, SomebodyIsAssigned, Agrees
  <1>7. Answer(m, t) /\ UNCHANGED <<active, visible, now>>
    BY DEF EditFields
  <1>8. Changes(m, t, new)
    BY <1>2, <1>3, <1>5, <1>6, <1>7 DEF Changes
  <1> QED
    BY <1>8, ChangeStep

LEMMA ReassignStep ==
    ASSUME Inductive, NEW m \in Members, NEW t \in TaskIds, Reassign(m, t)
    PROVE  Inductive'
  <1>1. PICK ids \in SUBSET Members, roles \in SUBSET Roles :
          /\ Selectable(m, ids, roles)
          /\ task' = [task EXCEPT
             ![t].version = @ + 1,
             ![t].assigned = [a \in DOMAIN Targets(m, ids, roles) |->
                IF a \in DOMAIN task[t].assigned
                THEN [task[t].assigned[a] EXCEPT !.role = Targets(m, ids, roles)[a]]
                ELSE NewAssignment(Targets(m, ids, roles)[a])]]
    BY DEF Reassign
  <1>2. /\ task[t] # Missing /\ task[t] \in Task /\ task[t].version < MaxVersion
        /\ task[t].version \in 1..MaxVersion
        /\ \A a \in DOMAIN task[t].assigned : task[t].assigned[a] \in Assignment
    BY TaskColumns DEF Reassign, Current, Operational, Inductive
  <1> DEFINE f == [a \in DOMAIN Targets(m, ids, roles) |->
                IF a \in DOMAIN task[t].assigned
                THEN [task[t].assigned[a] EXCEPT !.role = Targets(m, ids, roles)[a]]
                ELSE NewAssignment(Targets(m, ids, roles)[a])]
             new == [task[t] EXCEPT !.version = @ + 1, !.assigned = f]
  <1>3. \A a \in DOMAIN f : f[a] \in Assignment /\ Agrees(f[a])
    <2> SUFFICES ASSUME NEW a \in DOMAIN Targets(m, ids, roles)
                 PROVE  f[a] \in Assignment /\ Agrees(f[a])
      OBVIOUS
    <2>1. Targets(m, ids, roles)[a] \in Roles \cup {None}
      BY TargetsType DEF Inductive
    <2>2. CASE a \in DOMAIN task[t].assigned
      <3>1. task[t].assigned[a] \in Assignment /\ Agrees(task[t].assigned[a])
        BY <2>2, <1>2 DEF Inductive, ProgressMatchesStatus, Agrees
      <3> QED
        BY <2>1, <2>2, <3>1 DEF Assignment, Agrees
    <2>3. CASE a \notin DOMAIN task[t].assigned
      BY <2>1, <2>3, NewAgrees
    <2> QED
      BY <2>2, <2>3
  <1>4. DOMAIN f \subseteq Members /\ DOMAIN f # {}
    BY <1>1, TargetsType DEF Inductive, Selectable
  <1>5. f = [a \in DOMAIN f |-> f[a]] /\ task' = [task EXCEPT ![t] = new]
    BY <1>1 DEF Inductive, TypeOK
  <1> HIDE DEF f
  <1>6. new.version = task[t].version + 1 /\ new.version \in 1..MaxVersion /\ new.assigned = f
    BY <1>2, TasksAssumption DEF Task
  <1>7. new \in Task
    <2>1. f \in [DOMAIN f -> Assignment] /\ DOMAIN f \in SUBSET Members
      BY <1>3, <1>4, <1>5
    <2>2. f \in UNION {[S -> Assignment] : S \in SUBSET Members}
      BY <2>1
    <2> QED
      BY <1>2, <1>6, <2>2 DEF Task
  <1> HIDE DEF new
  <1>8. Answer(m, t) /\ UNCHANGED <<active, visible, now>>
    BY DEF Reassign
  <1>9. new.version > task[t].version
    BY <1>2, <1>6
  <1>10. Changes(m, t, new)
    BY <1>2, <1>3, <1>4, <1>5, <1>6, <1>7, <1>8, <1>9 DEF Changes
  <1> QED
    BY <1>10, ChangeStep

LEMMA AdvanceStep ==
    ASSUME Inductive, NEW m \in Members, NEW t \in TaskIds, Advance(m, t)
    PROVE  Inductive'
  <1>1. PICK a \in DOMAIN task[t].assigned, status \in Statuses \cup {None},
             progress \in Progress \cup {NotSent} :
          task' = [task EXCEPT ![t].assigned[a] = Updated(@, status, progress),
                               ![t].version = @ + 1]
    BY DEF Advance
  <1>2. /\ task[t] # Missing /\ task[t] \in Task /\ task[t].version < MaxVersion
        /\ task[t].version \in 1..MaxVersion
        /\ DOMAIN task[t].assigned \subseteq Members
        /\ task[t].assigned = [b \in DOMAIN task[t].assigned |-> task[t].assigned[b]]
        /\ \A b \in DOMAIN task[t].assigned : task[t].assigned[b] \in Assignment
    BY TaskColumns DEF Advance, Current, Operational, Inductive
  <1> DEFINE f == [task[t].assigned EXCEPT ![a] = Updated(@, status, progress)]
             new == [task[t] EXCEPT !.assigned = f, !.version = @ + 1]
  <1>3. \A b \in DOMAIN f : f[b] \in Assignment /\ Agrees(f[b])
    <2>1. \A b \in DOMAIN task[t].assigned : Agrees(task[t].assigned[b])
      BY <1>2 DEF Inductive, ProgressMatchesStatus, Agrees
    <2>2. /\ Updated(task[t].assigned[a], status, progress) \in Assignment
          /\ Agrees(Updated(task[t].assigned[a], status, progress))
      BY <2>1, <1>2, UpdatedAgrees
    <2> QED
      BY <2>1, <2>2, <1>2
  <1>4. DOMAIN f \subseteq Members /\ DOMAIN f # {} /\ f = [b \in DOMAIN f |-> f[b]]
    BY <1>2
  <1>5. task' = [task EXCEPT ![t] = new]
    BY <1>1, <1>2 DEF Inductive, TypeOK, Task
  <1> HIDE DEF f
  <1>6. new.version = task[t].version + 1 /\ new.version \in 1..MaxVersion /\ new.assigned = f
    BY <1>2, TasksAssumption DEF Task
  <1>7. new \in Task
    <2>1. f \in [DOMAIN f -> Assignment] /\ DOMAIN f \in SUBSET Members
      BY <1>3, <1>4
    <2>2. f \in UNION {[S -> Assignment] : S \in SUBSET Members}
      BY <2>1
    <2> QED
      BY <1>2, <1>6, <2>2 DEF Task
  <1> HIDE DEF new
  <1>8. Answer(m, t) /\ UNCHANGED <<active, visible, now>>
    BY DEF Advance
  <1>9. new.version > task[t].version
    BY <1>2, <1>6
  <1>10. Changes(m, t, new)
    BY <1>2, <1>3, <1>4, <1>5, <1>6, <1>7, <1>8, <1>9 DEF Changes
  <1> QED
    BY <1>10, ChangeStep

LEMMA DeleteStep ==
    ASSUME Inductive, NEW m \in Members, NEW t \in TaskIds, Delete(m, t)
    PROVE  Inductive'
  <1>1. Changes(m, t, Missing)
    BY DEF Delete, Changes, Current, Operational
  <1> QED
    BY <1>1, ChangeStep

LEMMA OpenStep ==
    ASSUME Inductive, NEW m \in Members, NEW t \in TaskIds, Open(m, t)
    PROVE  Inductive'
  <1>1. /\ UNCHANGED <<task, active, visible, now>>
        /\ \A n \in Members, u \in TaskIds :
              shown'[n][u] = shown[n][u] \/ shown'[n][u] = task[u]
        /\ shown' \in [Members -> [TaskIds -> Task \cup {Missing}]]
    BY DEF Open, Inductive, TypeOK
  <1>2. TypeOK'
    BY <1>1 DEF Inductive, TypeOK
  <1>3. ProgressMatchesStatus'
    BY <1>1 DEF Inductive, ProgressMatchesStatus
  <1>4. ShownIsOlder' /\ SomebodyIsAssigned'
    BY <1>1 DEF Inductive, ShownIsOlder, SomebodyIsAssigned
  <1> QED
    BY <1>2, <1>3, <1>4 DEF Inductive

LEMMA OtherStep ==
    ASSUME Inductive,
           (\E m \in Members : Toggle(m)) \/ DeleteOrRestore \/ DayPasses \/ UNCHANGED vars
    PROVE  Inductive'
  <1>1. UNCHANGED <<task, shown>>
    BY DEF Toggle, DeleteOrRestore, DayPasses, vars
  <1>2. TypeOK'
    <2>1. active' \subseteq Members /\ visible' \in BOOLEAN /\ now' \in 0..1
      <3>1. CASE \E m \in Members : Toggle(m)
        BY <3>1 DEF Inductive, TypeOK, Toggle
      <3>2. CASE DeleteOrRestore
        BY <3>2 DEF Inductive, TypeOK, DeleteOrRestore
      <3>3. CASE DayPasses
        BY <3>3 DEF Inductive, TypeOK, DayPasses
      <3>4. CASE UNCHANGED vars
        BY <3>4 DEF Inductive, TypeOK, vars
      <3> QED
        BY <3>1, <3>2, <3>3, <3>4
    <2> QED
      BY <1>1, <2>1 DEF Inductive, TypeOK
  <1>3. ProgressMatchesStatus' /\ ShownIsOlder' /\ SomebodyIsAssigned'
    BY <1>1 DEF Inductive, ProgressMatchesStatus, ShownIsOlder, SomebodyIsAssigned
  <1> QED
    BY <1>2, <1>3 DEF Inductive

----------------------------------------------------------------------------
(* The theorems. *)

LEMMA InitInductive == Init => Inductive
  BY TasksAssumption
  DEF Init, Inductive, TypeOK, ProgressMatchesStatus, ShownIsOlder, SomebodyIsAssigned

LEMMA AlwaysInductive == Spec => []Inductive
  <1>1. Inductive /\ [Next]_vars => Inductive'
    BY CreateStep, OpenStep, EditStep, ReassignStep, AdvanceStep, DeleteStep, OtherStep
    DEF Next
  <1> QED
    BY <1>1, InitInductive, PTL DEF Spec

\* Tasks, assignments and what the clients show keep their types
\* (tasks_service.py).
THEOREM TypeCorrect == Spec => []TypeOK
  <1>1. Inductive => TypeOK
    BY DEF Inductive
  <1> QED
    BY <1>1, AlwaysInductive, PTL

\* Status, progress and completion of an assignment always say the same, for all
\* percentages the form may send (update_assignment).
THEOREM ProgressAlwaysMatches == Spec => []ProgressMatchesStatus
  <1>1. Inductive => ProgressMatchesStatus
    BY DEF Inductive
  <1> QED
    BY <1>1, AlwaysInductive, PTL

\* What the card of a task shows, in terms of its assignments.
LEMMA CardShows ==
    ASSUME Inductive, NEW t \in TaskIds, Operational(t)
    PROVE  /\ Overall(t) = "done" <=> ~Some(t, Statuses \ {"done"})
           /\ Overall(t) = "blocked" <=> Some(t, {"blocked"})
           /\ Overall(t) = "in_progress" <=> /\ ~Some(t, {"blocked"})
                                            /\ Some(t, {"in_progress", "done"})
                                            /\ Some(t, Statuses \ {"done"})
           /\ Overall(t) = "todo" <=> ~Some(t, Statuses \ {"todo"})
           /\ Overall(t) \in Statuses
  <1> DEFINE S == StatusesOf(t)
  <1>1. S # {} /\ S \subseteq Statuses
    <2>1. task[t] # Missing /\ DOMAIN task[t].assigned # {}
      BY DEF Inductive, SomebodyIsAssigned, Operational
    <2>2. \A a \in DOMAIN task[t].assigned : task[t].assigned[a].status \in Statuses
      BY <2>1, TaskColumns DEF Inductive, Assignment
    <2> QED
      BY <2>1, <2>2 DEF StatusesOf
  <1>2. \A T : Some(t, T) <=> S \cap T # {}
    BY DEF Some, StatusesOf
  <1> HIDE DEF S
  <1>3. CASE S = {"done"}
    <2>1. Overall(t) = "done"
      BY <1>3 DEF Overall, S
    <2> QED
      BY <1>2, <1>3, <2>1 DEF Statuses
  <1>4. CASE "blocked" \in S
    <2>1. Overall(t) = "blocked"
      BY <1>4 DEF Overall, S
    <2> QED
      BY <1>2, <1>4, <2>1 DEF Statuses
  <1>5. CASE S # {"done"} /\ "blocked" \notin S /\ S \cap {"in_progress", "done"} # {}
    <2>1. Overall(t) = "in_progress"
      BY <1>5 DEF Overall, S
    <2>2. S \cap (Statuses \ {"done"}) # {} /\ S \cap (Statuses \ {"todo"}) # {}
      BY <1>1, <1>5 DEF Statuses
    <2> QED
      BY <1>2, <1>5, <2>1, <2>2 DEF Statuses
  <1>6. CASE S # {"done"} /\ "blocked" \notin S /\ S \cap {"in_progress", "done"} = {}
    <2>1. Overall(t) = "todo"
      BY <1>6 DEF Overall, S
    <2>2. S = {"todo"}
      BY <1>1, <1>6 DEF Statuses
    <2> QED
      BY <1>2, <2>1, <2>2 DEF Statuses
  <1> QED
    BY <1>3, <1>4, <1>5, <1>6

\* Every task is found under the status its card shows and under no other, and
\* the team's numbers count what the cards show (list_tasks, task_metrics,
\* _overall_status): no task is without assignments, which would be both done and
\* to do for the filters.
THEOREM CardsFiltersAndCountsAlwaysAgree == Spec => []CardsFiltersAndCountsAgree
  <1> DEFINE operational == {t \in TaskIds : Operational(t)}
  <1>1. ASSUME Inductive PROVE CardsFiltersAndCountsAgree
    <2>1. ASSUME NEW t \in operational, NEW s \in Statuses
          PROVE  t \in Selected(s) <=> Overall(t) = s
      BY <1>1, CardShows DEF Selected, Statuses
    <2>2. ASSUME NEW m \in Members
          PROVE  Badge(m) = Cardinality(UNION {Mine(m, s) : s \in Statuses \ {"done"}})
      <3>1. ASSUME NEW t \in TaskIds, Operational(t), m \in DOMAIN task[t].assigned
            PROVE  task[t].assigned[m].status \in Statuses
        BY <1>1, <3>1, TaskColumns DEF Inductive, Operational, Assignment
      <3>2. {t \in TaskIds : /\ Operational(t) /\ m \in DOMAIN task[t].assigned
                              /\ task[t].assigned[m].status # "done"}
               = UNION {Mine(m, s) : s \in Statuses \ {"done"}}
        BY <3>1 DEF Mine
      <3> QED
        BY <3>2 DEF Badge
    <2>3. {t \in TaskIds : Operational(t) /\ Some(t, Statuses \ {"done"})}
             = {t \in operational : Overall(t) # "done"}
      BY <1>1, CardShows
    <2>4. {t \in TaskIds : Operational(t) /\ Late(t) /\ Some(t, Statuses \ {"done"})}
             = {t \in operational : Overdue(t)}
      BY <1>1, CardShows DEF Overdue
    <2> QED
      BY <2>1, <2>2, <2>3, <2>4 DEF CardsFiltersAndCountsAgree, TeamOpen, TeamOverdue
  <1> QED
    BY <1>1, AlwaysInductive, PTL

LEMMA ChangedAsSeen ==
    ASSUME Inductive, NEW m \in Members, NEW t \in TaskIds, Current(m, t), Answer(m, t),
           UNCHANGED visible, \A u \in TaskIds : u # t => task'[u] = task[u],
           NEW u \in TaskIds, task'[u] # task[u]
    PROVE  \E n \in Members : /\ shown[n][u] = task[u]
                              /\ shown'[n][u] = task'[u] \/ ~Operational(u)'
  <1>1. u = t /\ task[t] # Missing /\ shown[m][t] # Missing
    BY DEF Current, Operational
  <1>2. shown[m][t] = task[t]
    <2>1. shown[m][t] \in Task /\ task[t] \in Task
      BY <1>1 DEF Inductive, TypeOK
    <2>2. shown[m][t].version \in Nat /\ task[t].version \in Nat
      BY <2>1, TasksAssumption DEF Task
    <2>3. shown[m][t].version = task[t].version
      BY DEF Current
    <2> QED
      BY <1>1, <2>2, <2>3 DEF Inductive, ShownIsOlder
  <1>3. shown'[m][t] = task'[t] \/ ~Operational(t)'
    BY DEF Answer, Operational, Inductive, TypeOK
  <1> QED
    BY <1>1, <1>2, <1>3

\* Nobody changes or deletes a task he has not seen as it is: the version is
\* compared under the lock of the row (update_task, replace_assignments,
\* update_assignment, delete_task).
THEOREM NothingUnseenIsEverChanged == Spec => NothingUnseenIsChanged
  <1> DEFINE Seen == \A t \in TaskIds : task[t] # Missing /\ task'[t] # task[t] =>
                 \E m \in Members : /\ shown[m][t] = task[t]
                                    /\ shown'[m][t] = task'[t] \/ ~Operational(t)'
  <1>1. Inductive /\ [Next]_vars => [Seen]_vars
    <2> SUFFICES ASSUME Inductive, Next, NEW u \in TaskIds,
                        task[u] # Missing, task'[u] # task[u]
                 PROVE  \E n \in Members : /\ shown[n][u] = task[u]
                                           /\ shown'[n][u] = task'[u] \/ ~Operational(u)'
      OBVIOUS
    <2>1. PICK m \in Members, t \in TaskIds :
             \/ Create(m, t) \/ EditFields(m, t) \/ Reassign(m, t)
             \/ Advance(m, t) \/ Delete(m, t)
      BY DEF Next, Open, Toggle, DeleteOrRestore, DayPasses
    <2>2. /\ Answer(m, t) /\ UNCHANGED visible
          /\ \A v \in TaskIds : v # t => task'[v] = task[v]
      BY <2>1 DEF Create, EditFields, Reassign, Advance, Delete, Inductive, TypeOK
    <2>3. Current(m, t)
      <3>1. ~Create(m, t)
        BY <2>2 DEF Create
      <3> QED
        BY <2>1, <3>1 DEF EditFields, Reassign, Advance, Delete
    <2> QED
      BY <2>2, <2>3, ChangedAsSeen
  <1> HIDE DEF Seen
  <1>2. NothingUnseenIsChanged <=> [][Seen]_vars
    BY DEF NothingUnseenIsChanged, Seen
  <1> QED
    BY <1>1, <1>2, AlwaysInductive, PTL DEF Spec

----------------------------------------------------------------------------
(* The document packs of a project. *)

\* A version that is drafted has never been final, one that is final has been.
RowFits(row) == /\ row.status = "draft" => ~row.finalized
                /\ row.status = "final" => row.finalized

\* What a request r that saves or finalizes one of the versions knows of it: it
\* edits what was a draft, or begins a version after one that was generated,
\* unless another request has begun that one already.
Knows(r, versions) ==
    /\ r.op = "finalize" => r.version \in DOMAIN versions
    /\ r.op = "save" =>
          /\ r.version \in Nat \ {0} /\ r.status \in {"draft", "generated"}
          /\ r.seen # Idle => /\ r.seen.status = "draft" /\ ~r.seen.finalized
                                        /\ r.version \in DOMAIN versions
          /\ r.seen = Idle =>
                \/ r.version <= Len(versions)
                \/ /\ r.version = Len(versions) + 1
                   /\ Len(versions) > 0 => versions[Len(versions)].status # "draft"

\* Versions as they may be.
Orderly(versions) ==
    /\ versions \in Seq(Pack)
    /\ \A v \in DOMAIN versions : /\ RowFits(versions[v])
                                  /\ versions[v].status = "draft" => v = Len(versions)

Packed == /\ Orderly(pack)
          /\ request = [s \in Sessions |-> request[s]]
          /\ \A s \in Sessions : Knows(request[s], pack)

\* What a step may do to the versions that are there.
Forward(old, new) ==
    \/ /\ Len(new) = Len(old)
       /\ \A v \in DOMAIN old : new[v].status = "draft" => old[v].status = "draft"
    \/ Len(new) = Len(old) + 1

LEMMA VersionsAsFunction ==
    ASSUME NEW p \in Seq(Pack)
    PROVE  /\ Len(p) \in Nat /\ DOMAIN p = 1..Len(p)
           /\ p \in [1..Len(p) -> Pack]
           /\ \A v \in DOMAIN p : p[v] \in Pack /\ p[v] # Idle
  <1>1. \A row \in Pack : row # Idle
    BY DEF Pack, Idle
  <1> QED
    BY <1>1

\* What a request knows stays true while others save and finalize.
LEMMA StillKnows ==
    ASSUME NEW p \in Seq(Pack), NEW q \in Seq(Pack), Forward(p, q),
           NEW r, Knows(r, p)
    PROVE  Knows(r, q)
  <1> DEFINE m == Len(p)
             n == Len(q)
  <1>1. m \in Nat /\ n \in Nat /\ DOMAIN p = 1..m /\ DOMAIN q = 1..n
    BY VersionsAsFunction
  <1>2. \/ n = m /\ \A v \in DOMAIN p : q[v].status = "draft" => p[v].status = "draft"
        \/ n = m + 1
    BY DEF Forward
  <1> HIDE DEF m, n
  <1>3. DOMAIN p \subseteq DOMAIN q
    BY <1>1, <1>2
  <1>4. CASE r.op = "save" /\ r.seen = Idle
    <2>1. r.op # "finalize" /\ r.version \in Nat \ {0} /\ r.status \in {"draft", "generated"}
      BY <1>4 DEF Knows
    <2>2. \/ r.version <= n
          \/ r.version = n + 1 /\ (n > 0 => q[n].status # "draft")
      <3>1. \/ r.version <= m
            \/ r.version = m + 1 /\ (m > 0 => p[m].status # "draft")
        BY <1>4 DEF Knows, m
      <3>2. CASE r.version <= m
        BY <1>1, <1>2, <2>1, <3>2
      <3>3. CASE n = m + 1 /\ r.version = m + 1
        BY <1>1, <3>3
      <3>4. CASE n = m /\ r.version = m + 1 /\ (m > 0 => p[m].status # "draft")
        <4>1. \A v \in DOMAIN p : q[v].status = "draft" => p[v].status = "draft"
          BY <1>1, <1>2, <3>4
        <4> QED
          BY <1>1, <3>4, <4>1
      <3> QED
        BY <1>2, <3>1, <3>2, <3>3, <3>4
    <2> QED
      BY <1>4, <2>1, <2>2 DEF Knows, n
  <1>5. CASE ~(r.op = "save" /\ r.seen = Idle)
    BY <1>3, <1>5 DEF Knows
  <1> QED
    BY <1>4, <1>5

\* A step of one session keeps everything, if its versions are as they may be.
LEMMA SessionStep ==
    ASSUME Packed, NEW s \in Sessions, NEW r, request' = [request EXCEPT ![s] = r],
           Orderly(pack'), Forward(pack, pack'), Knows(r, pack')
    PROVE  Packed'
  <1>1. \A u \in Sessions : Knows(request[u], pack')
    BY StillKnows DEF Packed, Orderly
  <1>2. /\ request' = [u \in Sessions |-> request'[u]]
        /\ \A u \in Sessions : request'[u] = IF u = s THEN r ELSE request[u]
    BY DEF Packed
  <1>3. \A u \in Sessions : Knows(request'[u], pack')
    BY <1>1, <1>2
  <1> QED
    BY <1>2, <1>3 DEF Packed

LEMMA IdleKnows ==
    \A versions : Knows(Idle, versions) /\ Knows([op |-> "answer"], versions)
  BY DEF Knows, Idle

LEMMA SameVersions == Packed => Forward(pack, pack)
  BY DEF Forward

\* The timeline's own requests say nothing of the versions.
LEMMA TimelineStep ==
    ASSUME Packed, TimelineNext, UNCHANGED pack
    PROVE  Packed'
  <1>1. Administrators \subseteq Sessions
    BY TimelineAssumption
  <1>2. ASSUME NEW s \in Sessions, NEW op, NEW arg, op \in {"complete", "reopen", "mode"},
               Start(s, op, arg)
        PROVE  Packed'
    <2> DEFINE r == [op |-> op, arg |-> arg, timeline |-> timeline, project |-> project]
    <2>1. request' = [request EXCEPT ![s] = r]
      BY <1>2 DEF Start
    <2>2. Knows(r, pack)
      BY <1>2 DEF Knows
    <2> HIDE DEF r
    <2> QED
      BY <2>1, <2>2, SessionStep, SameVersions DEF Packed
  <1>3. CASE \E s \in Administrators : StartStep(s) \/ StartMode(s)
    BY <1>1, <1>2, <1>3 DEF StartStep, StartMode
  <1>4. CASE \E s \in Administrators : Commit(s) \/ ShowAnswer(s)
    <2>1. PICK s \in Sessions : Commit(s) \/ ShowAnswer(s)
      BY <1>1, <1>4
    <2>2. \/ request' = [request EXCEPT ![s] = [op |-> "answer"]]
          \/ request' = [request EXCEPT ![s] = Idle]
      BY <2>1 DEF Commit, ShowAnswer
    <2> QED
      BY <2>2, IdleKnows, SessionStep, SameVersions DEF Packed
  <1>5. CASE Read \/ SaveLoan
    BY <1>5 DEF Read, SaveLoan, Packed
  <1> QED
    BY <1>3, <1>4, <1>5 DEF TimelineNext

LEMMA SaveStep ==
    ASSUME Packed, NEW s \in Sessions,
           StartSave(s) \/ StartFinalize(s)
    PROVE  Packed'
  <1>1. /\ Len(pack) \in Nat /\ DOMAIN pack = 1..Len(pack)
        /\ \A v \in DOMAIN pack : pack[v] \in Pack /\ pack[v] # Idle
    BY VersionsAsFunction DEF Packed, Orderly
  <1>2. ASSUME NEW r, Begin(s, r), Knows(r, pack)
        PROVE  Packed'
    <2>1. UNCHANGED pack /\ request' = [request EXCEPT ![s] = r]
      BY <1>2 DEF Begin
    <2> QED
      BY <1>2, <2>1, SessionStep, SameVersions DEF Packed
  <1>3. CASE StartSave(s)
    <2> DEFINE edit == Len(pack) > 0 /\ pack[Len(pack)].status = "draft"
               version == IF edit THEN Len(pack) ELSE Len(pack) + 1
               seen == IF edit THEN pack[Len(pack)] ELSE Idle
    <2>1. PICK status \in {"draft", "generated"} :
             Begin(s, [op |-> "save", version |-> version, seen |-> seen,
                                 status |-> status])
      BY <1>3 DEF StartSave
    <2> DEFINE r == [op |-> "save", version |-> version, seen |-> seen, status |-> status]
    <2>2. Knows(r, pack)
      <3>1. CASE edit
        <4>1. /\ Len(pack) \in DOMAIN pack /\ Len(pack) \in Nat \ {0}
              /\ ~pack[Len(pack)].finalized
          BY <1>1, <3>1 DEF Packed, Orderly, RowFits
        <4> QED
          BY <1>1, <3>1, <4>1 DEF Knows
      <3>2. CASE ~edit
        BY <1>1, <3>2 DEF Knows
      <3> QED
        BY <3>1, <3>2
    <2> HIDE DEF r
    <2> QED
      BY <1>2, <2>1, <2>2 DEF r
  <1>4. CASE StartFinalize(s)
    <2>1. PICK v \in DOMAIN pack : Begin(s, [op |-> "finalize", version |-> v])
      BY <1>4 DEF StartFinalize
    <2>2. Knows([op |-> "finalize", version |-> v], pack)
      BY DEF Knows
    <2> QED
      BY <1>2, <2>1, <2>2
  <1> QED
    BY <1>3, <1>4

\* A new version after the latest, which is none that is drafted.
LEMMA AppendVersion ==
    ASSUME Orderly(pack), NEW new \in Pack, RowFits(new),
           pack' = Append(pack, new), Len(pack) > 0 => pack[Len(pack)].status # "draft"
    PROVE  Orderly(pack') /\ Forward(pack, pack')
  <1>1. /\ Len(pack) \in Nat /\ DOMAIN pack = 1..Len(pack)
        /\ pack' \in Seq(Pack) /\ Len(pack') = Len(pack) + 1
        /\ DOMAIN pack' = 1..(Len(pack) + 1)
        /\ \A v \in DOMAIN pack : pack'[v] = pack[v]
        /\ pack'[Len(pack) + 1] = new
    BY VersionsAsFunction DEF Orderly
  <1>2. ASSUME NEW v \in DOMAIN pack'
        PROVE  RowFits(pack'[v]) /\ (pack'[v].status = "draft" => v = Len(pack'))
    <2>1. v \in DOMAIN pack \/ v = Len(pack) + 1
      BY <1>1
    <2>2. CASE v \in DOMAIN pack
      BY <1>1, <2>2 DEF Orderly
    <2> QED
      BY <1>1, <2>1, <2>2
  <1> QED
    BY <1>1, <1>2 DEF Orderly, Forward

\* A version changed in place, and not back to a draft.
LEMMA ChangeVersion ==
    ASSUME Orderly(pack), NEW v \in DOMAIN pack, NEW new \in Pack, RowFits(new),
           new.status = "draft" => pack[v].status = "draft",
           pack' = [pack EXCEPT ![v] = new]
    PROVE  Orderly(pack') /\ Forward(pack, pack')
  <1>1. /\ Len(pack) \in Nat /\ DOMAIN pack = 1..Len(pack)
        /\ pack \in [1..Len(pack) -> Pack]
    BY VersionsAsFunction DEF Orderly
  <1>2. pack' \in [1..Len(pack) -> Pack]
    BY <1>1
  <1>3. /\ pack' \in Seq(Pack) /\ Len(pack') = Len(pack)
        /\ DOMAIN pack' = DOMAIN pack
        /\ \A u \in DOMAIN pack : pack'[u] = IF u = v THEN new ELSE pack[u]
    BY <1>1, <1>2
  <1> QED
    BY <1>3 DEF Orderly, Forward

LEMMA CommitSaveStep ==
    ASSUME Packed, NEW s \in Sessions, CommitSave(s)
    PROVE  Packed'
  <1> DEFINE r == request[s]
             new == [status |-> r.status, finalized |-> FALSE]
  <1>1. /\ r.op = "save" /\ request' = [request EXCEPT ![s] = Idle]
        /\ Orderly(pack) /\ Knows(r, pack) /\ r.status \in {"draft", "generated"}
    BY DEF CommitSave, Packed, Knows
  <1>2. Len(pack) \in Nat /\ DOMAIN pack = 1..Len(pack)
    BY <1>1, VersionsAsFunction DEF Orderly
  <1>3. CASE r.seen = Idle /\ r.version <= Len(pack)
    <2>1. UNCHANGED pack
      BY <1>1, <1>3 DEF CommitSave
    <2> QED
      BY <1>1, <2>1, IdleKnows, SessionStep, SameVersions
  <1>4. CASE r.seen = Idle /\ ~(r.version <= Len(pack))
    <2>1. pack' = Append(pack, new)
      BY <1>1, <1>4 DEF CommitSave
    <2>2. Len(pack) > 0 => pack[Len(pack)].status # "draft"
      BY <1>1, <1>4 DEF Knows
    <2>3. new \in Pack /\ RowFits(new)
      BY <1>1 DEF Pack, RowFits
    <2> HIDE DEF new
    <2>4. Orderly(pack') /\ Forward(pack, pack')
      BY <1>1, <2>1, <2>2, <2>3, AppendVersion
    <2> QED
      BY <1>1, <2>4, IdleKnows, SessionStep
  <1>5. CASE r.seen # Idle
    <2> DEFINE old == pack[r.version]
               saved == [old EXCEPT !.status = IF r.status = "draft" THEN old.status ELSE r.status]
    <2>1. r.seen.status = "draft" /\ ~r.seen.finalized /\ r.version \in DOMAIN pack
      BY <1>1, <1>5 DEF Knows
    <2>2. pack' = [pack EXCEPT ![r.version] = Saved(old, r)]
      BY <1>5 DEF CommitSave
    <2>3. old \in Pack /\ RowFits(old)
      BY <1>1, <2>1, VersionsAsFunction DEF Orderly
    <2>4. Saved(old, r) = saved
      BY <1>1, <2>1, <2>3 DEF Saved, Pack
    <2>5. /\ saved \in Pack /\ RowFits(saved)
          /\ saved.status = "draft" => old.status = "draft"
      BY <1>1, <2>3 DEF Pack, RowFits
    <2> HIDE DEF saved
    <2>6. Orderly(pack') /\ Forward(pack, pack')
      BY <1>1, <2>1, <2>2, <2>4, <2>5, ChangeVersion
    <2> QED
      BY <1>1, <2>6, IdleKnows, SessionStep
  <1> QED
    BY <1>3, <1>4, <1>5

LEMMA CommitFinalizeStep ==
    ASSUME Packed, NEW s \in Sessions, CommitFinalize(s)
    PROVE  Packed'
  <1> DEFINE v == request[s].version
             half == [pack[v] EXCEPT !.status = "final"]
             new == [half EXCEPT !.finalized = TRUE]
  <1>1. /\ request[s].op = "finalize" /\ request' = [request EXCEPT ![s] = Idle]
        /\ Orderly(pack) /\ v \in DOMAIN pack
    BY DEF CommitFinalize, Packed, Knows
  <1>2. /\ pack[v] \in Pack
        /\ pack = [u \in DOMAIN pack |-> pack[u]]
    BY <1>1, VersionsAsFunction DEF Orderly
  <1>3. half \in Pack /\ half.status = "final"
    BY <1>2 DEF Pack
  <1>4. pack' = [pack EXCEPT ![v] = new]
    <2> DEFINE first == [pack EXCEPT ![v] = half]
    <2>1. pack' = [first EXCEPT ![v] = [first[v] EXCEPT !.finalized = TRUE]]
      BY DEF CommitFinalize
    <2>2. first[v] = half /\ first = [u \in DOMAIN pack |-> IF u = v THEN half ELSE pack[u]]
      BY <1>1, <1>2
    <2> HIDE DEF half
    <2>3. pack' = [first EXCEPT ![v] = new]
      BY <2>1, <2>2
    <2> HIDE DEF new
    <2> QED
      BY <1>1, <1>2, <2>2, <2>3
  <1> HIDE DEF half
  <1>5. new \in Pack /\ RowFits(new) /\ new.status # "draft"
    BY <1>3 DEF Pack, RowFits
  <1> HIDE DEF new
  <1>6. Orderly(pack') /\ Forward(pack, pack')
    BY <1>1, <1>4, <1>5, ChangeVersion
  <1> QED
    BY <1>1, <1>6, IdleKnows, SessionStep

LEMMA AlwaysPacked == PacksSpec => []Packed
  <1>1. InitPacks => Packed
    <2> SUFFICES ASSUME InitPacks PROVE Packed
      OBVIOUS
    <2>1. Orderly(pack)
      BY DEF InitPacks, Orderly
    <2> QED
      BY <2>1, IdleKnows DEF InitPacks, TimelineInit, Packed
  <1>2. Packed /\ UNCHANGED all => Packed'
    BY DEF all, Packed
  <1>3. Packed /\ NextPacks => Packed'
    <2> SUFFICES ASSUME Packed, NextPacks PROVE Packed'
      OBVIOUS
    <2>1. CASE \E s \in Clerks : \/ StartSave(s)     \/ CommitSave(s)
                                 \/ StartFinalize(s) \/ CommitFinalize(s)
      BY <2>1, SaveStep, CommitSaveStep, CommitFinalizeStep, PackAssumption
    <2>2. CASE TimelineNext /\ UNCHANGED pack
      BY <2>2, TimelineStep
    <2>3. CASE List
      BY <2>3 DEF List, Packed
    <2> QED
      BY <2>1, <2>2, <2>3 DEF NextPacks
  <1> QED
    BY <1>1, <1>2, <1>3, PTL DEF PacksSpec

\* Only the latest version of a pack can be a draft, whatever saves and
\* finalizations are under way at once (save_document_pack).
THEOREM OnlyLatestIsEverDraft == PacksSpec => []OnlyLatestIsDraft
  <1>1. Packed => OnlyLatestIsDraft
    BY DEF Packed, Orderly, OnlyLatestIsDraft
  <1> QED
    BY <1>1, AlwaysPacked, PTL

\* What changes a final version of a pack is a save that had read it while it
\* was a draft: not another finalization, nor anything on the timeline
\* (finalize_document_pack, save_document_pack).
THEOREM FinalUnlessSavedOver == PacksSpec => FinalUnlessOverlapped
  <1> DEFINE Kept == \A v \in DOMAIN pack :
                 pack[v].status = "final" /\ ~Overlapped(v) => pack'[v] = pack[v]
  <1>1. ASSUME Packed, NextPacks,
               NEW v \in DOMAIN pack, pack[v].status = "final", ~Overlapped(v)
        PROVE  pack'[v] = pack[v]
    <2>1. Orderly(pack) /\ pack[v] \in Pack /\ pack[v].finalized
          /\ pack = [u \in DOMAIN pack |-> pack[u]]
      BY <1>1, VersionsAsFunction DEF Packed, Orderly, RowFits, Pack
    <2>2. CASE UNCHANGED pack
      BY <2>2
    <2>3. CASE \E s \in Clerks : CommitSave(s)
      <3>1. PICK s \in Sessions : CommitSave(s)
        BY <2>3, PackAssumption
      <3> DEFINE r == request[s]
      <3>2. r.op = "save" /\ Knows(r, pack)
        BY <1>1, <3>1 DEF CommitSave, Packed
      <3>3. CASE r.seen = Idle
        <4>1. UNCHANGED pack \/ pack' = Append(pack, [status |-> r.status, finalized |-> FALSE])
          BY <3>1, <3>3 DEF CommitSave
        <4> QED
          BY <2>1, <4>1, VersionsAsFunction DEF Orderly
      <3>4. CASE r.seen # Idle
        <4>1. r.version # v
          BY <1>1, <3>2, <3>4 DEF Overlapped, Knows
        <4>2. pack' = [pack EXCEPT ![r.version] = Saved(pack[r.version], r)]
          BY <3>1, <3>4 DEF CommitSave
        <4> QED
          BY <2>1, <4>1, <4>2
      <3> QED
        BY <3>3, <3>4
    <2>4. CASE \E s \in Clerks : CommitFinalize(s)
      <3>1. PICK s \in Clerks : CommitFinalize(s)
        BY <2>4
      <3> DEFINE w == request[s].version
                 half == [pack EXCEPT ![w] = [pack[w] EXCEPT !.status = "final"]]
      <3>2. pack' = [half EXCEPT ![w] = [half[w] EXCEPT !.finalized = TRUE]]
        BY <3>1 DEF CommitFinalize
      <3>3. CASE w # v
        BY <2>1, <3>2, <3>3
      <3>4. CASE w = v
        <4>1. pack'[v] = [[pack[v] EXCEPT !.status = "final"] EXCEPT !.finalized = TRUE]
          BY <2>1, <3>2, <3>4
        <4> QED
          BY <1>1, <2>1, <4>1 DEF Pack
      <3> QED
        BY <3>3, <3>4
    <2> QED
      BY <1>1, <2>2, <2>3, <2>4
      DEF NextPacks, StartSave, StartFinalize, Begin,
          List
  <1>2. Packed /\ [NextPacks]_all => [Kept]_all
    BY <1>1
  <1> HIDE DEF Kept
  <1>3. FinalUnlessOverlapped <=> [][Kept]_all
    BY DEF FinalUnlessOverlapped, Kept
  <1> QED
    BY <1>2, <1>3, AlwaysPacked, PTL DEF PacksSpec

----------------------------------------------------------------------------
(* The timeline: the order of its steps. *)

\* What Merged makes of a set of completed steps.
Laid(mode, done) ==
    LET current == CurrentStep(mode, done)
    IN [mode |-> mode, current |-> current,
        steps |-> [k \in Definition(mode) |-> IF k \in done THEN "completed"
                                               ELSE IF k = current THEN "current" ELSE "pending"]]

\* Completed in their order, those from before the timeline in any case.
InOrder(mode, done) ==
    /\ Historical \cap Keys \subseteq done /\ done \subseteq Definition(mode)
    /\ \A j \in Definition(mode), k \in done : Rank[j] < Rank[k] => j \in done

LEMMA RankOfKeys ==
    /\ \A k \in Keys : Rank[k] \in Nat /\ Rank[k] <= 17
    /\ \A k \in Keys : Rank[k] <= 4 <=> k \in Historical
    /\ \A k \in Keys : Rank[k] <= 8 => k \notin CashSteps /\ k \notin LoanSteps
    /\ \A j, k \in Keys : Rank[j] = Rank[k] => j = k
  <1>1. \A j, k \in DOMAIN Rank : Rank[j] = Rank[k] => j = k
    BY SMTT(30) DEF Rank
  <1>2. /\ \A k \in DOMAIN Rank : Rank[k] \in Nat /\ Rank[k] <= 17
        /\ \A k \in DOMAIN Rank : Rank[k] <= 4 <=> k \in Historical
        /\ \A k \in DOMAIN Rank : Rank[k] <= 8 => k \notin CashSteps /\ k \notin LoanSteps
    BY SMTT(30) DEF Rank, Historical, CashSteps, LoanSteps
  <1> QED
    BY <1>1, <1>2, TimelineAssumption

\* The steps every instance has.
LEMMA RankOfSteps ==
    /\ {"documents_uploaded", "documents_approved", "final_registration", "payment_mode",
        "project_completed"} \subseteq Keys
    /\ Rank["documents_uploaded"] = 5 /\ Rank["documents_approved"] = 6
    /\ Rank["final_registration"] = 7 /\ Rank["payment_mode"] = 8
    /\ Rank["project_completed"] = 17
  BY TimelineAssumption DEF Rank

\* The steps up to the choice of the mode, and the last, belong to every mode.
LEMMA CommonSteps ==
    ASSUME NEW mode
    PROVE  /\ Definition(mode) \subseteq Keys
           /\ \A k \in Keys : Rank[k] <= 8 => k \in Definition(mode)
           /\ Historical \cap Keys \subseteq Definition(mode)
           /\ {"documents_uploaded", "documents_approved", "final_registration",
               "payment_mode", "project_completed"} \subseteq Definition(mode)
  <1>1. /\ Definition(mode) \subseteq Keys
        /\ \A k \in Keys : Rank[k] <= 8 => k \in Definition(mode)
    BY RankOfKeys DEF Definition
  <1>2. \A k \in Historical \cap Keys : Rank[k] <= 8
    BY RankOfKeys
  <1>3. "project_completed" \in Definition(mode)
    BY RankOfSteps DEF Definition, CashSteps, LoanSteps
  <1> QED
    BY <1>1, <1>2, <1>3, RankOfSteps

LEMMA LeastNumber ==
    ASSUME NEW T, T \subseteq Nat, T # {}
    PROVE  \E n \in T : \A m \in T : n <= m
  <1>1. IsWellFoundedOn(OpToRel(<, Nat), Nat)
    BY NatLessThanWellFounded
  <1>2. PICK R : R = OpToRel(<, Nat)
    OBVIOUS
  <1>3. PICK n \in T : \A m \in T : <<m, n>> \notin R
    BY <1>1, <1>2, WFMin
  <1>4. \A m \in Nat : m < n => <<m, n>> \in R
    BY <1>2 DEF OpToRel
  <1>5. ASSUME NEW m \in T
        PROVE  n <= m
    <2>1. m \in Nat /\ n \in Nat /\ ~(m < n)
      BY <1>3, <1>4
    <2> QED
      BY <2>1
  <1> QED
    BY <1>5

LEMMA FirstIsLeast ==
    ASSUME NEW S \in SUBSET Keys, S # {}
    PROVE  FirstOf(S) \in S /\ \A j \in S : Rank[FirstOf(S)] <= Rank[j]
  <1> DEFINE T == {Rank[k] : k \in S}
  <1>1. T \subseteq Nat /\ T # {}
    BY RankOfKeys
  <1>2. PICK n \in T : \A m \in T : n <= m
    BY <1>1, LeastNumber
  <1>3. \E k \in S : \A j \in S : Rank[k] <= Rank[j]
    BY <1>2
  <1> QED
    BY <1>3 DEF FirstOf

\* The current step is the first that is open; all before it are completed.
LEMMA CurrentIsFirst ==
    ASSUME NEW mode, NEW done, Definition(mode) \ done # {}
    PROVE  LET current == CurrentStep(mode, done)
           IN /\ current \in Definition(mode) /\ current \notin done
              /\ \A j \in Definition(mode) : Rank[j] < Rank[current] => j \in done
  <1> DEFINE open == Definition(mode) \ done
  <1>1. open \in SUBSET Keys /\ open # {}
    BY CommonSteps
  <1>2. CurrentStep(mode, done) = FirstOf(open)
    BY DEF CurrentStep
  <1>3. FirstOf(open) \in open /\ \A j \in open : Rank[FirstOf(open)] <= Rank[j]
    BY <1>1, FirstIsLeast
  <1>4. ASSUME NEW j \in Definition(mode), Rank[j] < Rank[FirstOf(open)]
        PROVE  j \in done
    <2>1. Rank[j] \in Nat /\ Rank[FirstOf(open)] \in Nat
      BY <1>1, <1>3, CommonSteps, RankOfKeys
    <2> QED
      BY <1>3, <1>4, <2>1
  <1> QED
    BY <1>2, <1>3, <1>4

\* If nothing is open, the last step is the current one.
LEMMA CurrentIsKey ==
    ASSUME NEW mode, NEW done
    PROVE  CurrentStep(mode, done) \in Definition(mode)
  <1>1. CASE Definition(mode) \ done = {}
    BY <1>1, CommonSteps DEF CurrentStep
  <1>2. CASE Definition(mode) \ done # {}
    BY <1>2, CurrentIsFirst
  <1> QED
    BY <1>1, <1>2

\* Completing the current step keeps the order.
LEMMA CompleteInOrder ==
    ASSUME NEW mode, NEW done, InOrder(mode, done), NEW k \in Definition(mode) \ done,
           k = CurrentStep(mode, done)
    PROVE  InOrder(mode, done \cup {k})
  <1>1. \A j \in Definition(mode) : Rank[j] < Rank[k] => j \in done
    BY CurrentIsFirst
  <1> QED
    BY <1>1 DEF InOrder

\* So does taking back a step with all that follow, in any mode that has what is left.
LEMMA ReopenInOrder ==
    ASSUME NEW mode, NEW done, InOrder(mode, done), NEW k \in done \ Historical,
           NEW new, new = mode \/ k = "payment_mode"
    PROVE  InOrder(new, {j \in done : Rank[j] < Rank[k]})
  <1> DEFINE left == {j \in done : Rank[j] < Rank[k]}
  <1>1. done \subseteq Keys /\ Definition(mode) \subseteq Keys /\ Definition(new) \subseteq Keys
    BY CommonSteps DEF InOrder
  <1>2. \A j \in Keys : Rank[j] \in Nat
    BY RankOfKeys
  <1>3. Rank[k] > 4
    BY <1>1, RankOfKeys
  <1>4. Historical \cap Keys \subseteq left
    BY <1>1, <1>2, <1>3, RankOfKeys DEF InOrder
  <1>5. \A j \in Keys : Rank[j] < Rank[k] => (j \in Definition(mode) <=> j \in Definition(new))
    <2>1. CASE new = mode
      BY <2>1
    <2>2. CASE k = "payment_mode"
      BY <1>2, <2>2, CommonSteps, RankOfSteps
    <2> QED
      BY <2>1, <2>2
  <1>6. left \subseteq Definition(new)
    BY <1>1, <1>5 DEF InOrder
  <1>7. ASSUME NEW j \in Definition(new), NEW i \in left, Rank[j] < Rank[i]
        PROVE  j \in left
    <2>1. Rank[j] < Rank[k] /\ j \in Definition(mode)
      BY <1>1, <1>2, <1>5, <1>7
    <2> QED
      BY <1>7, <2>1 DEF InOrder
  <1> QED
    BY <1>4, <1>6, <1>7 DEF InOrder

----------------------------------------------------------------------------
(* What the stored row says, and what its readers and writers make of it. *)

Finished(t) == {k \in DOMAIN t.steps : t.steps[k] = "completed"}
\* The row as the first access creates it.
Unused(t) == t = [mode |-> NoMode, current |-> "documents_uploaded",
                  steps |-> [k \in {} |-> "pending"]]
\* A stored row is one that was merged.
Stored(t) == \/ Unused(t)
             \/ InOrder(t.mode, Finished(t)) /\ t = Laid(t.mode, Finished(t))
\* and nothing of it is left to be repaired.
Repaired(t) == Unused(t) \/ Finished(t) = Done(t)

LEMMA MergedIsLaid == \A t : Merged(t) = Laid(t.mode, Done(t))
  BY DEF Merged, Laid

LEMMA LaidColumns ==
    ASSUME NEW mode, NEW done \in SUBSET Definition(mode)
    PROVE  /\ Laid(mode, done).mode = mode
           /\ Laid(mode, done).current = CurrentStep(mode, done)
           /\ DOMAIN Laid(mode, done).steps = Definition(mode)
           /\ \A k \in Definition(mode) :
                 Laid(mode, done).steps[k] = IF k \in done THEN "completed"
                                             ELSE IF k = CurrentStep(mode, done) THEN "current"
                                             ELSE "pending"
           /\ Finished(Laid(mode, done)) = done
           /\ Laid(mode, done) = [mode |-> mode, current |-> CurrentStep(mode, done),
                                  steps |-> Laid(mode, done).steps]
  BY DEF Laid, Finished

\* Merging completes the payment step at most, and that one only with a mode.
LEMMA DoneOfLaid ==
    ASSUME NEW mode, NEW done, InOrder(mode, done)
    PROVE  Done(Laid(mode, done)) =
              done \cup {k \in {"payment_mode"} \ done :
                            mode # NoMode /\ CurrentStep(mode, done) = "payment_mode"}
  <1> DEFINE t == Laid(mode, done)
  <1>1. done \in SUBSET Definition(mode) /\ Historical \cap Keys \subseteq done
    BY DEF InOrder
  <1>2. /\ t.mode = mode /\ DOMAIN t.steps = Definition(mode)
        /\ \A k \in Definition(mode) :
              t.steps[k] = IF k \in done THEN "completed"
                           ELSE IF k = CurrentStep(mode, done) THEN "current" ELSE "pending"
    BY <1>1, LaidColumns
  <1>3. "payment_mode" \in Definition(mode) /\ Definition(mode) \subseteq Keys
    BY CommonSteps
  <1> HIDE DEF t
  <1>4. Done(t) = {k \in Definition(mode) :
                     \/ k \in Historical
                     \/ t.steps[k] = "completed"
                     \/ k = "payment_mode" /\ mode # NoMode /\ t.steps[k] = "current"}
    BY <1>2 DEF Done
  <1>5. ASSUME NEW k \in Definition(mode)
        PROVE  k \in Done(t) <=> \/ k \in done
                                 \/ /\ k = "payment_mode" /\ k \notin done
                                    /\ mode # NoMode /\ CurrentStep(mode, done) = k
    BY <1>1, <1>2, <1>3, <1>4
  <1>6. Done(t) \subseteq Definition(mode)
    BY <1>4
  <1>7. Done(t) = done \cup {k \in {"payment_mode"} \ done :
                                mode # NoMode /\ CurrentStep(mode, done) = "payment_mode"}
    BY <1>1, <1>3, <1>5, <1>6
  <1> QED
    BY <1>7 DEF t

\* What every reader makes of a stored row: the steps are completed in their
\* order, and a mode that was chosen stays no current step.
LEMMA DoneOfStored ==
    ASSUME NEW t, Stored(t)
    PROVE  /\ InOrder(t.mode, Done(t))
           /\ Finished(t) \subseteq Done(t)
           /\ Done(t) \subseteq Historical \cup Finished(t) \cup {"payment_mode"}
           /\ t.mode # NoMode /\ "payment_mode" \notin Done(t)
                 => CurrentStep(t.mode, Done(t)) # "payment_mode"
           /\ t.mode = NoMode /\ "payment_mode" \in Done(t) => "payment_mode" \in Finished(t)
  <1>1. CASE Unused(t)
    <2>1. Finished(t) = {} /\ Done(t) = Historical \cap Definition(t.mode)
      BY <1>1 DEF Unused, Finished, Done
    <2>2. Done(t) = Historical \cap Keys
      BY <2>1, CommonSteps
    <2>3. \A k \in Historical \cap Keys : Rank[k] <= 4 /\ Rank[k] \in Nat
      BY RankOfKeys
    <2>4. \A j \in Definition(t.mode), k \in Done(t) : Rank[j] < Rank[k] => j \in Done(t)
      <3> SUFFICES ASSUME NEW j \in Definition(t.mode), NEW k \in Done(t), Rank[j] < Rank[k]
                   PROVE  j \in Done(t)
        OBVIOUS
      <3>1. j \in Keys /\ Rank[j] \in Nat
        BY CommonSteps, RankOfKeys
      <3>2. Rank[j] <= 4
        BY <2>2, <2>3, <3>1
      <3> QED
        BY <2>2, <3>1, <3>2, RankOfKeys
    <2>5. InOrder(t.mode, Done(t))
      BY <2>2, <2>4, CommonSteps DEF InOrder
    <2>6. "payment_mode" \notin Done(t)
      BY <2>2 DEF Historical
    <2> QED
      BY <1>1, <2>1, <2>2, <2>5, <2>6 DEF Unused
  <1>2. CASE InOrder(t.mode, Finished(t)) /\ t = Laid(t.mode, Finished(t))
    <2> DEFINE done == Finished(t)
               m == t.mode
               repair == {k \in {"payment_mode"} \ done :
                             m # NoMode /\ CurrentStep(m, done) = "payment_mode"}
    <2>1. Done(t) = done \cup repair
      <3>1. Done(Laid(m, done)) = done \cup repair
        BY <1>2, DoneOfLaid
      <3> QED
        BY <1>2, <3>1
    <2>2. CASE repair = {}
      BY <1>2, <2>1, <2>2
    <2>3. CASE repair # {}
      <3>1. /\ m # NoMode /\ CurrentStep(m, done) = "payment_mode" /\ "payment_mode" \notin done
            /\ repair = {"payment_mode"}
        BY <2>3
      <3>2. "payment_mode" \in Definition(m) \ done
        BY <3>1, CommonSteps
      <3>3. InOrder(m, done \cup {"payment_mode"})
        BY <1>2, <3>1, <3>2, CompleteInOrder
      <3> QED
        BY <2>1, <3>1, <3>3
    <2> QED
      BY <2>2, <2>3
  <1> QED
    BY <1>1, <1>2 DEF Stored

\* A row that was merged is one that may be stored, and merging it again changes
\* nothing.
LEMMA MergedIsStored ==
    ASSUME NEW t, Stored(t)
    PROVE  /\ Stored(Merged(t)) /\ Repaired(Merged(t))
           /\ Merged(t) = Laid(t.mode, Done(t)) /\ Merged(t).mode = t.mode
           /\ Done(Merged(t)) = Done(t)
           /\ Merged(Merged(t)) = Merged(t)
  <1> DEFINE done == Done(t)
             n == Laid(t.mode, done)
  <1>1. InOrder(t.mode, done) /\ done \in SUBSET Definition(t.mode)
    BY DoneOfStored DEF InOrder
  <1>2. Merged(t) = n
    BY MergedIsLaid
  <1>3. n.mode = t.mode /\ Finished(n) = done
    BY <1>1, LaidColumns
  <1>4. Stored(n)
    BY <1>1, <1>3 DEF Stored
  <1>5. Done(n) = done
    BY <1>1, DoneOfLaid, DoneOfStored
  <1>6. Merged(n) = n
    BY <1>3, <1>5, MergedIsLaid
  <1> QED
    BY <1>2, <1>3, <1>4, <1>5, <1>6 DEF Repaired

\* Writing back steps among which no payment step waits to be repaired.
LEMMA WithSteps ==
    ASSUME NEW t, NEW steps, NEW done, InOrder(t.mode, done),
           \A k \in Definition(t.mode) :
              k \in done <=> k \in Historical \/ (k \in DOMAIN steps /\ steps[k] = "completed"),
           "payment_mode" \in DOMAIN steps /\ steps["payment_mode"] = "current" => t.mode = NoMode
    PROVE  With(t, steps) = Laid(t.mode, done)
  <1> DEFINE r == [Merged(t) EXCEPT !.steps = steps]
  <1>1. r.mode = t.mode /\ r.steps = steps
    BY DEF Merged
  <1>2. With(t, steps) = Laid(r.mode, Done(r))
    BY MergedIsLaid DEF With
  <1> HIDE DEF r
  <1>3. Done(r) = done
    BY <1>1 DEF Done, InOrder
  <1> QED
    BY <1>1, <1>2, <1>3

LEMMA LaidIsStored ==
    ASSUME NEW mode, NEW done, InOrder(mode, done)
    PROVE  /\ Stored(Laid(mode, done)) /\ Laid(mode, done).mode = mode
           /\ Finished(Laid(mode, done)) = done
           /\ Done(Laid(mode, done)) =
                 done \cup {k \in {"payment_mode"} \ done :
                               mode # NoMode /\ CurrentStep(mode, done) = "payment_mode"}
  <1>1. Laid(mode, done).mode = mode /\ Finished(Laid(mode, done)) = done
    BY LaidColumns DEF InOrder
  <1> QED
    BY <1>1, DoneOfLaid DEF Stored

----------------------------------------------------------------------------
(* The columns of the project beside the steps. *)

\* What the columns p of the project say of the completed steps.
Says(p, mode, done) ==
    /\ Milestones \cap done \subseteq p.reached
    /\ "documents_approved" \in done => p.documents = "approved"
    /\ p.status = "completed" <=> "project_completed" \in done
    /\ "payment_mode" \in done => mode # NoMode
Columns(t, p) == Says(p, t.mode, Done(t))

LEMMA LaidColumnsAgree ==
    ASSUME NEW mode, NEW done, InOrder(mode, done), NEW p, Says(p, mode, done)
    PROVE  Stored(Laid(mode, done)) /\ Columns(Laid(mode, done), p)
  <1> DEFINE repair == {k \in {"payment_mode"} \ done :
                          mode # NoMode /\ CurrentStep(mode, done) = "payment_mode"}
             t == Laid(mode, done)
  <1>1. Stored(t) /\ t.mode = mode /\ Done(t) = done \cup repair
    BY LaidIsStored
  <1>2. "payment_mode" \notin Milestones
    BY DEF Milestones
  <1> HIDE DEF t
  <1>3. Columns(t, p)
    BY <1>1, <1>2 DEF Columns, Says
  <1> QED
    BY <1>1, <1>3 DEF t

\* The last step is completed when all are.
LEMMA LastStep ==
    ASSUME NEW mode, NEW done, InOrder(mode, done)
    PROVE  "project_completed" \in done <=> Definition(mode) \subseteq done
  <1>1. "project_completed" \in Definition(mode) /\ Rank["project_completed"] = 17
    BY CommonSteps, RankOfSteps
  <1>2. ASSUME "project_completed" \in done, NEW j \in Definition(mode)
        PROVE  j \in done
    <2>1. j \in Keys /\ Rank[j] \in Nat /\ Rank[j] <= 17 /\ "project_completed" \in Keys
      BY CommonSteps, RankOfKeys
    <2>2. Rank[j] < 17 \/ j = "project_completed"
      BY <1>1, <2>1, RankOfKeys
    <2> QED
      BY <1>1, <1>2, <2>2 DEF InOrder
  <1> QED
    BY <1>1, <1>2

LEMMA ProjectColumns ==
    \A p \in Projects :
       /\ DOMAIN p = {"status", "mode", "loan", "documents", "reached"}
       /\ p = [status |-> p.status, mode |-> p.mode, loan |-> p.loan,
               documents |-> p.documents, reached |-> p.reached]
       /\ p.status \in {"planning", "in_progress", "completed"}
       /\ p.documents \in {"pending", "in_progress", "approved"}
       /\ p.reached \subseteq Milestones
  BY DEF Projects

LEMMA CompletedKeeps ==
    ASSUME NEW t, NEW p \in Projects, Stored(t), Columns(t, p), NEW k, CanComplete(t, k)
    PROVE  /\ Stored(CompletedTimeline(t, k))
           /\ Columns(CompletedTimeline(t, k), CompletedProject(p, k))
  <1> DEFINE done == Done(t)
             m == t.mode
             q == CompletedProject(p, k)
             steps == [Merged(t).steps EXCEPT ![k] = "completed"]
  <1>1. InOrder(m, done) /\ done \in SUBSET Definition(m) /\ Merged(t) = Laid(m, done)
    BY DoneOfStored, MergedIsLaid DEF InOrder
  <1>2. /\ DOMAIN Merged(t).steps = Definition(m)
        /\ \A j \in Definition(m) :
              Merged(t).steps[j] = IF j \in done THEN "completed"
                                   ELSE IF j = CurrentStep(m, done) THEN "current" ELSE "pending"
    BY <1>1, LaidColumns
  <1>3. k \in Definition(m) \ done /\ k = CurrentStep(m, done)
        /\ (k = "payment_mode" => m # NoMode)
    BY <1>2 DEF CanComplete, Status
  <1>4. InOrder(m, done \cup {k})
    BY <1>1, <1>3, CompleteInOrder
  <1>5. /\ DOMAIN steps = Definition(m)
        /\ \A j \in Definition(m) : steps[j] = IF j = k THEN "completed" ELSE Merged(t).steps[j]
    BY <1>2, <1>3
  <1> HIDE DEF steps
  <1>6. \A j \in Definition(m) :
           j \in done \cup {k} <=> j \in Historical \/ (j \in DOMAIN steps /\ steps[j] = "completed")
    <2>1. Historical \cap Definition(m) \subseteq done
      BY <1>1, CommonSteps DEF InOrder
    <2> QED
      BY <1>2, <1>5, <2>1
  <1>7. ~("payment_mode" \in DOMAIN steps /\ steps["payment_mode"] = "current")
    BY <1>2, <1>3, <1>5, CommonSteps
  <1>8. CompletedTimeline(t, k) = Laid(m, done \cup {k})
    <2>1. CompletedTimeline(t, k) = With(t, steps)
      BY DEF CompletedTimeline, steps
    <2> QED
      BY <1>4, <1>6, <1>7, <2>1, WithSteps
  <1>9. /\ q.reached = p.reached \cup ({k} \cap Milestones)
        /\ q.status = IF k = "project_completed" THEN "completed" ELSE "in_progress"
        /\ q.documents = IF k = "documents_uploaded" THEN "in_progress"
                         ELSE IF k = "documents_approved" THEN "approved" ELSE p.documents
    BY ProjectColumns DEF CompletedProject
  <1> HIDE DEF q
  <1>10. "project_completed" \notin done
    BY <1>1, <1>3, LastStep
  <1>11. k = "documents_uploaded" => "documents_approved" \notin done
    <2>1. Rank["documents_uploaded"] < Rank["documents_approved"]
      BY RankOfSteps
    <2> QED
      BY <1>1, <1>3, <2>1 DEF InOrder
  <1>12. Says(p, m, done)
    BY DEF Columns
  <1>13. Says(q, m, done \cup {k})
    BY <1>3, <1>9, <1>10, <1>11, <1>12 DEF Says
  <1>14. Stored(Laid(m, done \cup {k})) /\ Columns(Laid(m, done \cup {k}), q)
    BY <1>4, <1>13, LaidColumnsAgree
  <1> QED
    BY <1>8, <1>14 DEF q

LEMMA ReopenedKeeps ==
    ASSUME NEW t, NEW p \in Projects, Stored(t), Columns(t, p), NEW k, CanReopen(t, k)
    PROVE  /\ Stored(ReopenedTimeline(t, k))
           /\ Columns(ReopenedTimeline(t, k), ReopenedProject(p))
  <1> DEFINE done == Done(t)
             m == t.mode
             q == ReopenedProject(p)
             new == IF k = "payment_mode" THEN NoMode ELSE m
             u == [t EXCEPT !.mode = IF k = "payment_mode" THEN NoMode ELSE @]
             left == {j \in done : Rank[j] < Rank[k]}
             steps == [j \in DOMAIN Merged(t).steps |->
                         IF j \notin From(t, k) THEN Merged(t).steps[j]
                         ELSE IF j = k THEN "current" ELSE "pending"]
  <1>1. InOrder(m, done) /\ done \in SUBSET Definition(m) /\ Merged(t) = Laid(m, done)
    BY DoneOfStored, MergedIsLaid DEF InOrder
  <1>2. /\ DOMAIN Merged(t).steps = Definition(m)
        /\ \A j \in Definition(m) :
              Merged(t).steps[j] = IF j \in done THEN "completed"
                                   ELSE IF j = CurrentStep(m, done) THEN "current" ELSE "pending"
    BY <1>1, LaidColumns
  <1>3. k \in done \ Historical /\ k \in Definition(m)
    BY <1>2 DEF CanReopen, Status
  <1>4. InOrder(new, left)
    BY <1>1, <1>3, ReopenInOrder
  <1>5. \A j \in Definition(m) : j \in From(t, k) <=> ~(Rank[j] < Rank[k])
    <2>1. \A j \in Definition(m) : Rank[j] \in Nat
      BY CommonSteps, RankOfKeys
    <2> QED
      BY <1>3, <2>1 DEF From
  <1>6. /\ DOMAIN steps = Definition(m)
        /\ \A j \in Definition(m) : steps[j] = IF Rank[j] < Rank[k] THEN Merged(t).steps[j]
                                               ELSE IF j = k THEN "current" ELSE "pending"
    BY <1>2, <1>5
  <1>7. u.mode = new
    <2>1. "mode" \in DOMAIN t
      BY DEF Stored, Unused, Laid
    <2> QED
      BY <2>1
  <1>8. ReopenedTimeline(t, k) = With(u, steps)
    BY DEF ReopenedTimeline
  <1> HIDE DEF steps, u
  <1>9. Historical \cap Definition(new) \subseteq left
    BY <1>4, CommonSteps DEF InOrder
  <1>10. left \subseteq Definition(m) /\ \A j \in left : steps[j] = "completed"
    BY <1>1, <1>2, <1>6
  <1>11. \A j \in Definition(m) \ left : steps[j] # "completed"
    BY <1>2, <1>6
  <1>12. \A j \in Definition(u.mode) :
            j \in left <=> j \in Historical \/ (j \in DOMAIN steps /\ steps[j] = "completed")
    <2>1. left \subseteq Definition(new)
      BY <1>4 DEF InOrder
    <2>2. Historical \cap Definition(new) \subseteq Definition(m)
      BY <1>9, <1>10
    <2> QED
      BY <1>6, <1>7, <1>9, <1>10, <1>11, <2>1, <2>2
  <1>13. steps["payment_mode"] = "current" => u.mode = NoMode
    <2> SUFFICES ASSUME steps["payment_mode"] = "current", k # "payment_mode"
                 PROVE  FALSE
      BY <1>7
    <2>1. "payment_mode" \in Definition(m)
      BY CommonSteps
    <2>2. Rank["payment_mode"] < Rank[k] /\ Merged(t).steps["payment_mode"] = "current"
      BY <1>6, <2>1
    <2>3. "payment_mode" \in done
      BY <1>1, <1>3, <2>1, <2>2 DEF InOrder
    <2> QED
      BY <1>2, <2>1, <2>2, <2>3
  <1>14. ReopenedTimeline(t, k) = Laid(new, left)
    BY <1>4, <1>7, <1>8, <1>12, <1>13, WithSteps
  <1>15. q.reached = p.reached /\ q.documents = p.documents /\ q.status = "in_progress"
    BY ProjectColumns DEF ReopenedProject
  <1> HIDE DEF q
  <1>16. "project_completed" \notin left
    <2>1. Rank[k] \in Nat /\ Rank[k] <= 17 /\ Rank["project_completed"] = 17
      BY <1>3, CommonSteps, RankOfKeys, RankOfSteps
    <2> QED
      BY <2>1
  <1>17. k = "payment_mode" => "payment_mode" \notin left
    <2>1. Rank["payment_mode"] = 8
      BY RankOfSteps
    <2> QED
      BY <2>1
  <1>18. Says(p, m, done)
    BY DEF Columns
  <1>19. Says(q, new, left)
    BY <1>15, <1>16, <1>17, <1>18 DEF Says
  <1>20. Stored(Laid(new, left)) /\ Columns(Laid(new, left), q)
    BY <1>4, <1>19, LaidColumnsAgree
  <1> QED
    BY <1>14, <1>20 DEF q

LEMMA MergedKeeps ==
    ASSUME NEW t, NEW p, Stored(t), Columns(t, p)
    PROVE  Stored(Merged(t)) /\ Columns(Merged(t), p) /\ Repaired(Merged(t))
  BY MergedIsStored DEF Columns

LEMMA ChosenKeeps ==
    ASSUME NEW t, NEW p \in Projects, Stored(t), Columns(t, p), NEW mode \in Modes
    PROVE  /\ Stored(ChosenTimeline(t, mode))
           /\ Columns(ChosenTimeline(t, mode), ChosenProject(t, p, mode))
  <1>1. CASE Status(t, "payment_mode") # "current"
    <2>1. ChosenTimeline(t, mode) = Merged(t) /\ ChosenProject(t, p, mode) = p
      BY <1>1 DEF ChosenTimeline, ChosenProject
    <2> QED
      BY <2>1, MergedKeeps
  <1>2. CASE Status(t, "payment_mode") = "current"
    <2> DEFINE done == Done(t)
               m == t.mode
               new == done \cup {"payment_mode"}
               u == [t EXCEPT !.mode = mode]
               q == ChosenProject(t, p, mode)
               steps == [Merged(t).steps EXCEPT !["payment_mode"] = "completed"]
    <2>1. InOrder(m, done) /\ done \in SUBSET Definition(m) /\ Merged(t) = Laid(m, done)
      BY DoneOfStored, MergedIsLaid DEF InOrder
    <2>2. /\ DOMAIN Merged(t).steps = Definition(m)
          /\ \A j \in Definition(m) :
                Merged(t).steps[j] = IF j \in done THEN "completed"
                                     ELSE IF j = CurrentStep(m, done) THEN "current" ELSE "pending"
      BY <2>1, LaidColumns
    <2>3. "payment_mode" \in Definition(m) \ done /\ CurrentStep(m, done) = "payment_mode"
      BY <1>2, <2>2, CommonSteps DEF Status
    <2>4. \A k \in Keys : Rank[k] \in Nat
      BY RankOfKeys
    <2>5. \A k \in new : k \in Keys /\ Rank[k] <= 8
      <3>1. \A k \in done : ~(Rank["payment_mode"] < Rank[k])
        BY <2>1, <2>3 DEF InOrder
      <3> QED
        BY <2>1, <2>3, <2>4, <3>1, CommonSteps, RankOfSteps
    <2>6. new \subseteq Definition(mode)
      BY <2>5, CommonSteps
    <2>7. InOrder(m, new)
      BY <2>1, <2>3, CompleteInOrder
    <2>8. InOrder(mode, new)
      <3>1. ASSUME NEW j \in Definition(mode), NEW k \in new, Rank[j] < Rank[k]
            PROVE  j \in new
        <4>1. j \in Keys /\ Rank[j] <= 8
          BY <2>4, <2>5, <3>1, CommonSteps
        <4>2. j \in Definition(m)
          BY <4>1, CommonSteps
        <4> QED
          BY <2>7, <3>1, <4>2 DEF InOrder
      <3> QED
        BY <2>6, <2>7, <3>1 DEF InOrder
    <2>9. /\ DOMAIN steps = Definition(m)
          /\ \A j \in Definition(m) :
                steps[j] = IF j = "payment_mode" THEN "completed" ELSE Merged(t).steps[j]
      BY <2>2, <2>3
    <2>10. u.mode = mode
      <3>1. "mode" \in DOMAIN t
        BY DEF Stored, Unused, Laid
      <3> QED
        BY <3>1
    <2>11. ChosenTimeline(t, mode) = With(u, steps)
      BY <1>2 DEF ChosenTimeline
    <2>12. /\ q.reached = p.reached /\ q.documents = p.documents /\ q.status = p.status
      BY <1>2, ProjectColumns DEF ChosenProject
    <2> HIDE DEF steps, u, q
    <2>13. \A j \in Definition(u.mode) :
              j \in new <=> j \in Historical \/ (j \in DOMAIN steps /\ steps[j] = "completed")
      <3>1. Historical \cap Definition(mode) \subseteq new
        BY <2>8, CommonSteps DEF InOrder
      <3>2. \A j \in Definition(m) : j \in new <=> steps[j] = "completed"
        BY <2>2, <2>9
      <3>3. new \subseteq Definition(m)
        BY <2>1, <2>3
      <3> QED
        BY <2>9, <2>10, <3>1, <3>2, <3>3
    <2>14. steps["payment_mode"] # "current"
      BY <2>3, <2>9
    <2>15. ChosenTimeline(t, mode) = Laid(mode, new)
      BY <2>8, <2>10, <2>11, <2>13, <2>14, WithSteps
    <2>16. Says(p, m, done) /\ mode # NoMode
      BY DEF Columns, Modes, NoMode
    <2>17. Says(q, mode, new)
      <3>1. "payment_mode" \notin Milestones
        BY DEF Milestones
      <3> QED
        BY <2>12, <2>16, <3>1 DEF Says
    <2>18. Stored(Laid(mode, new)) /\ Columns(Laid(mode, new), q)
      BY <2>8, <2>17, LaidColumnsAgree
    <2> QED
      BY <2>15, <2>18 DEF q
  <1> QED
    BY <1>1, <1>2

\* The steps the documents complete come right after those that always are.
LEMMA SystemInOrder ==
    ASSUME NEW mode, NEW done, InOrder(mode, done), NEW d
    PROVE  InOrder(mode, done \cup SystemSteps(d))
  <1> DEFINE new == done \cup SystemSteps(d)
  <1>1. SystemSteps(d) \subseteq Definition(mode) /\ "documents_uploaded" \in SystemSteps(d)
    BY CommonSteps DEF SystemSteps
  <1>2. \A k \in SystemSteps(d) :
           \/ k = "documents_uploaded" /\ Rank[k] = 5
           \/ k = "documents_approved" /\ Rank[k] = 6
    BY RankOfSteps DEF SystemSteps
  <1>3. ASSUME NEW j \in Definition(mode), NEW k \in SystemSteps(d), Rank[j] < Rank[k]
        PROVE  j \in new
    <2>1. j \in Keys /\ Rank[j] \in Nat
      BY CommonSteps, RankOfKeys
    <2>2. Rank[j] <= 4 \/ Rank[j] = 5
      BY <1>2, <1>3, <2>1
    <2>3. CASE Rank[j] <= 4
      BY <2>1, <2>3, RankOfKeys DEF InOrder
    <2>4. CASE Rank[j] = 5
      <3>1. j = "documents_uploaded"
        BY <2>1, <2>4, RankOfKeys, RankOfSteps
      <3> QED
        BY <1>1, <3>1
    <2> QED
      BY <2>2, <2>3, <2>4
  <1> HIDE DEF new
  <1>4. InOrder(mode, new)
    BY <1>1, <1>3 DEF InOrder, new
  <1> QED
    BY <1>4 DEF new

LEMMA SyncedKeeps ==
    ASSUME NEW t, NEW p \in Projects, Stored(t), Columns(t, p),
           NEW d \in {"in_progress", "approved"}
    PROVE  /\ Stored(SyncedTimeline(t, p, d))
           /\ Columns(SyncedTimeline(t, p, d), SyncedProject(t, p, d))
           /\ SyncedTimeline(t, p, d) = t \/ Repaired(SyncedTimeline(t, p, d))
  <1>1. CASE ~Advances(t, p, d)
    <2>1. /\ SyncedTimeline(t, p, d) = t \/ SyncedTimeline(t, p, d) = Merged(t)
          /\ SyncedProject(t, p, d) = p
      BY <1>1 DEF SyncedTimeline, SyncedProject
    <2> QED
      BY <2>1, MergedKeeps
  <1>2. CASE Advances(t, p, d)
    <2> DEFINE done == Done(t)
               m == t.mode
               new == done \cup SystemSteps(d)
               q == SyncedProject(t, p, d)
               steps == [k \in DOMAIN Merged(t).steps |->
                            IF k \in SystemSteps(d) THEN "completed" ELSE Merged(t).steps[k]]
    <2>1. InOrder(m, done) /\ done \in SUBSET Definition(m) /\ Merged(t) = Laid(m, done)
      BY DoneOfStored, MergedIsLaid DEF InOrder
    <2>2. /\ DOMAIN Merged(t).steps = Definition(m)
          /\ \A j \in Definition(m) :
                Merged(t).steps[j] = IF j \in done THEN "completed"
                                     ELSE IF j = CurrentStep(m, done) THEN "current" ELSE "pending"
      BY <2>1, LaidColumns
    <2>3. InOrder(m, new)
      BY <2>1, SystemInOrder
    <2>4. SyncedTimeline(t, p, d) = With(t, steps)
      BY <1>2 DEF SyncedTimeline
    <2>5. /\ DOMAIN steps = Definition(m)
          /\ \A j \in Definition(m) :
                steps[j] = IF j \in SystemSteps(d) THEN "completed" ELSE Merged(t).steps[j]
      BY <2>2
    <2>6. /\ q.reached = p.reached /\ q.documents = d
          /\ q.status = IF p.status = "planning" THEN "in_progress" ELSE p.status
      BY <1>2, ProjectColumns DEF SyncedProject
    <2>7. "payment_mode" \notin SystemSteps(d) /\ SystemSteps(d) \cap Milestones = {}
          /\ "project_completed" \notin SystemSteps(d) /\ "final_registration" \notin SystemSteps(d)
      BY DEF SystemSteps, Milestones
    <2>8. SystemSteps(d) \subseteq {"documents_uploaded", "documents_approved"}
          /\ ("documents_approved" \in SystemSteps(d) => d = "approved")
      BY DEF SystemSteps
    <2> HIDE DEF steps, q
    <2>9. \A j \in Definition(m) :
             j \in new <=> j \in Historical \/ (j \in DOMAIN steps /\ steps[j] = "completed")
      <3>1. Historical \cap Definition(m) \subseteq done
        BY <2>1, CommonSteps DEF InOrder
      <3> QED
        BY <2>2, <2>5, <3>1
    <2>10. "payment_mode" \in DOMAIN steps /\ steps["payment_mode"] = "current" => m = NoMode
      BY <2>2, <2>5, <2>7, DoneOfStored
    <2>11. SyncedTimeline(t, p, d) = Laid(m, new)
      BY <2>3, <2>4, <2>9, <2>10, WithSteps
    <2>12. Says(p, m, done)
      BY DEF Columns
    <2>13. Says(q, m, new)
      <3>1. "documents_approved" \in new => d = "approved"
        <4> SUFFICES ASSUME "documents_approved" \in done, d = "in_progress"
                     PROVE  FALSE
          BY <2>8
        <4>1. p.documents = "approved"
          BY <2>12 DEF Says
        <4> QED
          BY <1>2, <4>1 DEF Advances, DocumentRank
      <3> QED
        BY <2>6, <2>7, <2>12, <3>1 DEF Says
    <2>14. Stored(Laid(m, new)) /\ Columns(Laid(m, new), q)
      BY <2>3, <2>13, LaidColumnsAgree
    <2>15. Repaired(Laid(m, new))
      <3> SUFFICES ASSUME m # NoMode, "payment_mode" \notin new,
                          CurrentStep(m, new) = "payment_mode"
                   PROVE  FALSE
        BY <2>3, LaidIsStored DEF Repaired
      <3>1. /\ {"documents_uploaded", "documents_approved", "final_registration",
                "payment_mode"} \subseteq Definition(m)
            /\ Rank["documents_uploaded"] = 5 /\ Rank["documents_approved"] = 6
            /\ Rank["final_registration"] = 7 /\ Rank["payment_mode"] = 8
        BY CommonSteps, RankOfSteps
      <3>2. "final_registration" \in done
        BY <2>7, <3>1, CurrentIsFirst
      <3>3. SystemSteps(d) \subseteq done
        BY <2>1, <2>8, <3>1, <3>2 DEF InOrder
      <3>4. new = done
        BY <3>3
      <3> QED
        BY <3>4, DoneOfStored
    <2> QED
      BY <2>11, <2>14, <2>15 DEF q
  <1> QED
    BY <1>1, <1>2

----------------------------------------------------------------------------
(* Types of the timeline, of the project and of the requests. *)

LEMMA MergedType ==
    ASSUME NEW t, t.mode \in Modes \cup {NoMode}
    PROVE  Merged(t) \in Timelines
  <1> DEFINE steps == Merged(t).steps
  <1>1. /\ Merged(t) = [mode |-> t.mode, current |-> Merged(t).current, steps |-> steps]
        /\ Merged(t).current = CurrentStep(t.mode, Done(t))
        /\ steps \in [Definition(t.mode) -> StepStatuses]
    BY DEF Merged, StepStatuses
  <1>2. Merged(t).current \in Keys /\ Definition(t.mode) \in SUBSET Keys
    BY <1>1, CurrentIsKey, CommonSteps
  <1>3. steps \in UNION {[S -> StepStatuses] : S \in SUBSET Keys}
    BY <1>1, <1>2
  <1> HIDE DEF steps
  <1> QED
    BY <1>1, <1>2, <1>3 DEF Timelines

LEMMA WithType ==
    ASSUME NEW t, t.mode \in Modes \cup {NoMode}, NEW steps
    PROVE  With(t, steps) \in Timelines
  <1>1. [Merged(t) EXCEPT !.steps = steps].mode = t.mode
    BY DEF Merged
  <1> QED
    BY <1>1, MergedType DEF With

LEMMA TimelineTypes ==
    ASSUME NEW t \in Timelines
    PROVE  /\ t.mode \in Modes \cup {NoMode} /\ Merged(t) \in Timelines
           /\ \A k : CompletedTimeline(t, k) \in Timelines
           /\ \A k : ReopenedTimeline(t, k) \in Timelines
           /\ \A mode \in Modes : ChosenTimeline(t, mode) \in Timelines
           /\ \A p, d : SyncedTimeline(t, p, d) \in Timelines
  <1>1. t.mode \in Modes \cup {NoMode} /\ "mode" \in DOMAIN t
    BY DEF Timelines
  <1>2. Merged(t) \in Timelines
    BY <1>1, MergedType
  <1>3. \A k : CompletedTimeline(t, k) \in Timelines
    BY <1>1, WithType DEF CompletedTimeline
  <1>4. ASSUME NEW k
        PROVE  ReopenedTimeline(t, k) \in Timelines
    <2> DEFINE u == [t EXCEPT !.mode = IF k = "payment_mode" THEN NoMode ELSE @]
    <2>1. u.mode \in Modes \cup {NoMode}
      BY <1>1
    <2> HIDE DEF u
    <2>2. \A steps : With(u, steps) \in Timelines
      BY <2>1, WithType
    <2> QED
      BY <2>2 DEF ReopenedTimeline, u
  <1>5. ASSUME NEW mode \in Modes
        PROVE  ChosenTimeline(t, mode) \in Timelines
    <2> DEFINE u == [t EXCEPT !.mode = mode]
    <2>1. u.mode \in Modes \cup {NoMode}
      BY <1>1
    <2> HIDE DEF u
    <2>2. \A steps : With(u, steps) \in Timelines
      BY <2>1, WithType
    <2> QED
      BY <1>2, <2>2 DEF ChosenTimeline, u
  <1>6. \A p, d : SyncedTimeline(t, p, d) \in Timelines
    BY <1>1, <1>2, WithType DEF SyncedTimeline
  <1> QED
    BY <1>1, <1>2, <1>3, <1>4, <1>5, <1>6

LEMMA ProjectOfColumns ==
    ASSUME NEW p, DOMAIN p = {"status", "mode", "loan", "documents", "reached"},
           p = [c \in DOMAIN p |-> p[c]],
           p.status \in {"planning", "in_progress", "completed"},
           p.mode \in Modes \cup {NoMode},
           p.loan \in {"not_required", "draft", "applied", "approved"} \cup LoanStatuses,
           p.documents \in {"pending", "in_progress", "approved"},
           p.reached \subseteq Milestones
    PROVE  p \in Projects
  <1>1. p = [status |-> p.status, mode |-> p.mode, loan |-> p.loan,
             documents |-> p.documents, reached |-> p.reached]
    OBVIOUS
  <1> QED
    BY <1>1 DEF Projects

LEMMA ProjectTypes ==
    ASSUME NEW p \in Projects
    PROVE  /\ \A k \in Keys : CompletedProject(p, k) \in Projects
           /\ ReopenedProject(p) \in Projects
           /\ \A t : \A mode \in Modes : ChosenProject(t, p, mode) \in Projects
           /\ \A t : \A d \in {"in_progress", "approved"} : SyncedProject(t, p, d) \in Projects
  <1>1. ASSUME NEW k \in Keys
        PROVE  CompletedProject(p, k) \in Projects
    <2>1. /\ DOMAIN CompletedProject(p, k) = DOMAIN p
          /\ CompletedProject(p, k).reached = p.reached \cup ({k} \cap Milestones)
          /\ CompletedProject(p, k).mode = p.mode
          /\ CompletedProject(p, k).status = IF k = "project_completed" THEN "completed"
                                             ELSE "in_progress"
          /\ CompletedProject(p, k).documents =
                IF k = "documents_uploaded" THEN "in_progress"
                ELSE IF k = "documents_approved" THEN "approved" ELSE p.documents
          /\ CompletedProject(p, k).loan =
                IF k = "loan_application" THEN "applied"
                ELSE IF k = "bank_approval" THEN "approved" ELSE p.loan
      BY DEF Projects, CompletedProject
    <2> QED
      BY <2>1, ProjectOfColumns DEF Projects, CompletedProject
  <1>2. ReopenedProject(p) \in Projects
    BY DEF ReopenedProject, Projects
  <1>3. ASSUME NEW t, NEW mode \in Modes
        PROVE  ChosenProject(t, p, mode) \in Projects
    BY DEF ChosenProject, Projects
  <1>4. ASSUME NEW t, NEW d \in {"in_progress", "approved"}
        PROVE  SyncedProject(t, p, d) \in Projects
    BY DEF SyncedProject, Projects
  <1> QED
    BY <1>1, <1>2, <1>3, <1>4

\* What is written is of the same type, column by column; and it is what was
\* computed if nothing has changed since it was read.
LEMMA WrittenTimeline ==
    ASSUME timeline \in Timelines, NEW seen, NEW new \in Timelines, WriteTimeline(seen, new)
    PROVE  /\ timeline' \in Timelines
           /\ seen = timeline => timeline' = new
  <1>1. /\ DOMAIN timeline = {"mode", "current", "steps"}
        /\ new = [c \in {"mode", "current", "steps"} |-> new[c]]
        /\ timeline.mode \in Modes \cup {NoMode} /\ new.mode \in Modes \cup {NoMode}
        /\ timeline.current \in Keys /\ new.current \in Keys
        /\ timeline.steps \in UNION {[S -> StepStatuses] : S \in SUBSET Keys}
        /\ new.steps \in UNION {[S -> StepStatuses] : S \in SUBSET Keys}
    BY DEF Timelines
  <1>2. timeline' = [c \in {"mode", "current", "steps"} |->
                        IF new[c] = seen[c] THEN timeline[c] ELSE new[c]]
    BY <1>1 DEF WriteTimeline
  <1>3. timeline' = [mode |-> timeline'.mode, current |-> timeline'.current,
                     steps |-> timeline'.steps]
    BY <1>2
  <1>4. /\ timeline'.mode \in Modes \cup {NoMode} /\ timeline'.current \in Keys
        /\ timeline'.steps \in UNION {[S -> StepStatuses] : S \in SUBSET Keys}
    BY <1>1, <1>2
  <1>5. timeline' \in Timelines
    BY <1>3, <1>4 DEF Timelines
  <1>6. seen = timeline => timeline' = new
    BY <1>1, <1>2
  <1> QED
    BY <1>5, <1>6

LEMMA WrittenProject ==
    ASSUME project \in Projects, NEW seen \in Projects, NEW new \in Projects,
           WriteProject(seen, new)
    PROVE  /\ project' \in Projects
           /\ seen = project /\ seen.reached \subseteq new.reached => project' = new
  <1> DEFINE names == {"status", "mode", "loan", "documents", "reached"}
  <1>1. /\ DOMAIN project = names /\ new = [c \in names |-> new[c]]
    BY DEF Projects
  <1>2. project' = [c \in names |->
                      IF c = "reached" THEN project.reached \cup (new.reached \ seen.reached)
                      ELSE IF new[c] = seen[c] THEN project[c] ELSE new[c]]
    BY <1>1 DEF WriteProject
  <1>3. /\ DOMAIN project' = names /\ project' = [c \in DOMAIN project' |-> project'[c]]
        /\ project'.status \in {project.status, new.status}
        /\ project'.mode \in {project.mode, new.mode}
        /\ project'.loan \in {project.loan, new.loan}
        /\ project'.documents \in {project.documents, new.documents}
        /\ project'.reached \subseteq project.reached \cup new.reached
    BY <1>2
  <1>4. project' \in Projects
    BY <1>3, ProjectOfColumns DEF Projects
  <1>5. seen = project /\ seen.reached \subseteq new.reached => project' = new
    <2> SUFFICES ASSUME seen = project, seen.reached \subseteq new.reached
                 PROVE  project' = new
      OBVIOUS
    <2>1. project.reached \cup (new.reached \ seen.reached) = new.reached
      OBVIOUS
    <2>2. \A c \in names : project'[c] = new[c]
      BY <1>2, <2>1
    <2> QED
      BY <1>1, <1>2, <2>2
  <1> QED
    BY <1>4, <1>5

----------------------------------------------------------------------------
(* The rows of a project are tended as long as no request overwrites them. *)

\* A change that was allowed when its rows were read.
Knowing(r) == /\ r.op = "complete" => r.arg \in Keys /\ CanComplete(r.timeline, r.arg)
              /\ r.op = "reopen" => r.arg \in Keys /\ CanReopen(r.timeline, r.arg)
              /\ r.op = "mode" => r.arg \in Modes /\ CanChoose(r.timeline, r.arg)
\* Of what is to be repaired, the answer to the change that left it takes care.
Kept == /\ Stored(timeline) /\ Columns(timeline, project)
        /\ Repaired(timeline) \/ \E s \in Sessions : request[s].op = "answer"
Tended == /\ \A s \in Sessions : Knowing(request[s])
          /\ ~overwritten => Kept

LEMMA RequestColumns ==
    ASSUME NEW r \in Requests
    PROVE  /\ r.op \in {"complete", "reopen", "mode"} =>
                r.timeline \in Timelines /\ r.project \in Projects
           /\ r.op = "save" => /\ r.version \in 1..MaxVersions /\ r.status \in {"draft", "generated"}
                               /\ r.seen \in Pack \cup {Idle}
  BY DEF Requests, Idle

LEMMA RequestKinds ==
    /\ Idle \in Requests /\ Knowing(Idle) /\ Idle.op # "answer"
    /\ [op |-> "answer"] \in Requests /\ Knowing([op |-> "answer"])
  BY DEF Requests, Idle, Knowing

\* A step of one session.
LEMMA SessionRequests ==
    ASSUME Packed, PacksTypeOK, Tended, NEW s \in Sessions, NEW r \in Requests, Knowing(r),
           request' = [request EXCEPT ![s] = r]
    PROVE  /\ \A u \in Sessions : request'[u] \in Requests /\ Knowing(request'[u])
           /\ \A u \in Sessions : request'[u] = IF u = s THEN r ELSE request[u]
  <1>1. \A u \in Sessions : request'[u] = IF u = s THEN r ELSE request[u]
    BY DEF Packed
  <1> QED
    BY <1>1 DEF PacksTypeOK, Tended

\* A session that begins keeps the rows.
LEMMA BeginningKeeps ==
    ASSUME Packed, PacksTypeOK, Tended, NEW s \in Sessions, NEW r \in Requests, Knowing(r),
           request[s] = Idle, request' = [request EXCEPT ![s] = r],
           UNCHANGED <<timeline, project, overwritten, pack>>
    PROVE  PacksTypeOK' /\ Tended'
  <1>1. /\ \A u \in Sessions : request'[u] \in Requests /\ Knowing(request'[u])
        /\ \A u \in Sessions : request'[u] = IF u = s THEN r ELSE request[u]
    BY SessionRequests
  <1>2. PacksTypeOK'
    BY <1>1 DEF PacksTypeOK
  <1>3. ASSUME NEW u \in Sessions, request[u].op = "answer"
        PROVE  request'[u].op = "answer"
    <2>1. u # s
      BY <1>3, RequestKinds
    <2> QED
      BY <1>1, <1>3, <2>1
  <1>4. ~overwritten' => Kept'
    BY <1>3 DEF Tended, Kept
  <1> QED
    BY <1>1, <1>2, <1>4 DEF Tended

LEMMA TimelineBeginKeeps ==
    ASSUME Packed, PacksTypeOK, Tended, NEW s \in Sessions, UNCHANGED pack,
           StartStep(s) \/ StartMode(s)
    PROVE  PacksTypeOK' /\ Tended'
  <1>1. ASSUME NEW op \in {"complete", "reopen", "mode"}, NEW arg \in Keys \cup Modes,
               Start(s, op, arg),
               Knowing([op |-> op, arg |-> arg, timeline |-> timeline, project |-> project])
        PROVE  PacksTypeOK' /\ Tended'
    <2> DEFINE r == [op |-> op, arg |-> arg, timeline |-> timeline, project |-> project]
    <2>1. r \in Requests
      BY <1>1 DEF Requests, PacksTypeOK
    <2>2. /\ request[s] = Idle /\ request' = [request EXCEPT ![s] = r]
          /\ UNCHANGED <<timeline, project, overwritten, pack>>
      BY <1>1 DEF Start
    <2>3. Knowing(r)
      BY <1>1
    <2> HIDE DEF r
    <2> QED
      BY <2>1, <2>2, <2>3, BeginningKeeps
  <1>2. CASE StartStep(s)
    <2>1. PICK k \in Keys : \/ CanComplete(timeline, k) /\ Start(s, "complete", k)
                            \/ CanReopen(timeline, k) /\ Start(s, "reopen", k)
      BY <1>2 DEF StartStep
    <2>2. /\ CanComplete(timeline, k) =>
               Knowing([op |-> "complete", arg |-> k, timeline |-> timeline, project |-> project])
          /\ CanReopen(timeline, k) =>
               Knowing([op |-> "reopen", arg |-> k, timeline |-> timeline, project |-> project])
      BY DEF Knowing
    <2> QED
      BY <1>1, <2>1, <2>2
  <1>3. CASE StartMode(s)
    <2>1. PICK m \in Modes : CanChoose(timeline, m) /\ Start(s, "mode", m)
      BY <1>3 DEF StartMode
    <2>2. Knowing([op |-> "mode", arg |-> m, timeline |-> timeline, project |-> project])
      BY <2>1 DEF Knowing
    <2> QED
      BY <1>1, <2>1, <2>2
  <1> QED
    BY <1>2, <1>3

LEMMA PackBeginKeeps ==
    ASSUME Packed, PacksTypeOK, Tended, NEW s \in Sessions, StartSave(s) \/ StartFinalize(s)
    PROVE  PacksTypeOK' /\ Tended'
  <1>0. /\ Len(pack) \in Nat /\ DOMAIN pack = 1..Len(pack) /\ Len(pack) <= MaxVersions
        /\ MaxVersions \in Nat
        /\ \A v \in DOMAIN pack : pack[v] \in Pack
    BY VersionsAsFunction, PackAssumption DEF PacksTypeOK
  <1>1. ASSUME NEW r \in Requests, r.op \in {"save", "finalize"}, Begin(s, r)
        PROVE  PacksTypeOK' /\ Tended'
    <2>1. /\ request[s] = Idle /\ request' = [request EXCEPT ![s] = r]
          /\ UNCHANGED <<timeline, project, overwritten, pack>>
      BY <1>1 DEF Begin
    <2>2. Knowing(r)
      BY <1>1 DEF Knowing
    <2> QED
      BY <2>1, <2>2, BeginningKeeps
  <1>2. CASE StartSave(s)
    <2> DEFINE edit == Len(pack) > 0 /\ pack[Len(pack)].status = "draft"
               version == IF edit THEN Len(pack) ELSE Len(pack) + 1
               seen == IF edit THEN pack[Len(pack)] ELSE Idle
    <2>1. PICK status \in {"draft", "generated"} :
             /\ version <= MaxVersions
             /\ Begin(s, [op |-> "save", version |-> version, seen |-> seen, status |-> status])
      BY <1>2 DEF StartSave
    <2>2. version \in 1..MaxVersions /\ seen \in Pack \cup {Idle}
      BY <1>0, <2>1
    <2> HIDE DEF version, seen
    <2> DEFINE r == [op |-> "save", version |-> version, seen |-> seen, status |-> status]
    <2>3. r \in Requests /\ r.op = "save"
      BY <2>2 DEF Requests
    <2> HIDE DEF r
    <2> QED
      BY <1>1, <2>1, <2>3 DEF r
  <1>3. CASE StartFinalize(s)
    <2>1. PICK v \in DOMAIN pack : Begin(s, [op |-> "finalize", version |-> v])
      BY <1>3 DEF StartFinalize
    <2>2. v \in 1..MaxVersions
      BY <1>0
    <2>3. [op |-> "finalize", version |-> v] \in Requests
      BY <2>2 DEF Requests
    <2> QED
      BY <1>1, <2>1, <2>3
  <1> QED
    BY <1>2, <1>3

\* What a change writes over rows it has read as they are keeps them.
LEMMA ChangedRowsKept ==
    ASSUME NEW t \in Timelines, NEW p \in Projects, NEW new \in Timelines, NEW q \in Projects,
           p.reached \subseteq q.reached,
           Stored(t) /\ Columns(t, p) => Stored(new) /\ Columns(new, q),
           timeline \in Timelines, project \in Projects,
           WriteTimeline(t, new), WriteProject(p, q)
    PROVE  /\ timeline' \in Timelines /\ project' \in Projects
           /\ t = timeline /\ p = project /\ Stored(timeline) /\ Columns(timeline, project)
                => Stored(timeline') /\ Columns(timeline', project')
  <1>1. timeline' \in Timelines /\ (t = timeline => timeline' = new)
    BY WrittenTimeline
  <1>2. project' \in Projects /\ (p = project => project' = q)
    BY WrittenProject
  <1> QED
    BY <1>1, <1>2

LEMMA CommitKeeps ==
    ASSUME Packed, PacksTypeOK, Tended, NEW s \in Sessions, UNCHANGED pack, Commit(s)
    PROVE  PacksTypeOK' /\ Tended'
  <1> DEFINE r == request[s]
             t == r.timeline
             p == r.project
  <1>1. /\ r \in Requests /\ Knowing(r) /\ r.op \in {"complete", "reopen", "mode"}
        /\ request' = [request EXCEPT ![s] = [op |-> "answer"]] /\ Note(r)
        /\ timeline \in Timelines /\ project \in Projects /\ overwritten \in BOOLEAN
    BY DEF Commit, PacksTypeOK, Tended
  <1>2. t \in Timelines /\ p \in Projects
    BY <1>1, RequestColumns
  <1>3. /\ timeline' \in Timelines /\ project' \in Projects
        /\ t = timeline /\ p = project /\ Stored(timeline) /\ Columns(timeline, project)
             => Stored(timeline') /\ Columns(timeline', project')
    <2>1. CASE r.op = "complete"
      <3> DEFINE new == CompletedTimeline(t, r.arg)
                 q == CompletedProject(p, r.arg)
      <3>1. r.arg \in Keys /\ CanComplete(t, r.arg)
        BY <1>1, <2>1 DEF Knowing
      <3>2. WriteTimeline(t, new) /\ WriteProject(p, q)
        BY <2>1 DEF Commit
      <3>3. new \in Timelines /\ q \in Projects
        BY <1>2, <3>1, TimelineTypes, ProjectTypes
      <3>4. p.reached \subseteq q.reached
        BY <1>2 DEF CompletedProject, Projects
      <3>5. Stored(t) /\ Columns(t, p) => Stored(new) /\ Columns(new, q)
        BY <1>2, <3>1, CompletedKeeps
      <3> HIDE DEF new, q
      <3> QED
        BY <1>1, <1>2, <3>2, <3>3, <3>4, <3>5, ChangedRowsKept
    <2>2. CASE r.op = "reopen"
      <3> DEFINE new == ReopenedTimeline(t, r.arg)
                 q == ReopenedProject(p)
      <3>1. CanReopen(t, r.arg)
        BY <1>1, <2>2 DEF Knowing
      <3>2. WriteTimeline(t, new) /\ WriteProject(p, q)
        BY <2>2 DEF Commit
      <3>3. new \in Timelines /\ q \in Projects
        BY <1>2, TimelineTypes, ProjectTypes
      <3>4. p.reached \subseteq q.reached
        BY <1>2 DEF ReopenedProject, Projects
      <3>5. Stored(t) /\ Columns(t, p) => Stored(new) /\ Columns(new, q)
        BY <1>2, <3>1, ReopenedKeeps
      <3> HIDE DEF new, q
      <3> QED
        BY <1>1, <1>2, <3>2, <3>3, <3>4, <3>5, ChangedRowsKept
    <2>3. CASE r.op = "mode"
      <3> DEFINE new == ChosenTimeline(t, r.arg)
                 q == ChosenProject(t, p, r.arg)
      <3>1. r.arg \in Modes
        BY <1>1, <2>3 DEF Knowing
      <3>2. WriteTimeline(t, new) /\ WriteProject(p, q)
        BY <2>3 DEF Commit
      <3>3. new \in Timelines /\ q \in Projects
        <4>1. new \in Timelines
          BY <1>2, <3>1, TimelineTypes
        <4>2. q \in Projects
          BY <1>2, <3>1, ProjectTypes
        <4> QED
          BY <4>1, <4>2
      <3>4. p.reached \subseteq q.reached
        BY <1>2 DEF ChosenProject, Projects
      <3>5. Stored(t) /\ Columns(t, p) => Stored(new) /\ Columns(new, q)
        BY <1>2, <3>1, ChosenKeeps
      <3> HIDE DEF new, q
      <3> QED
        BY <1>1, <1>2, <3>2, <3>3, <3>4, <3>5, ChangedRowsKept
    <2> QED
      BY <1>1, <2>1, <2>2, <2>3
  <1>4. /\ \A u \in Sessions : request'[u] \in Requests /\ Knowing(request'[u])
        /\ request'[s] = [op |-> "answer"]
    BY <1>1, RequestKinds, SessionRequests
  <1>5. overwritten' = (overwritten \/ t # timeline \/ p # project)
    BY <1>1 DEF Note
  <1>6. PacksTypeOK'
    <2>1. overwritten' \in BOOLEAN
      BY <1>1, <1>5
    <2> QED
      BY <1>3, <1>4, <2>1 DEF PacksTypeOK
  <1>7. ASSUME ~overwritten'
        PROVE  Kept'
    <2>1. ~overwritten /\ t = timeline /\ p = project
      BY <1>5, <1>7
    <2>2. Stored(timeline) /\ Columns(timeline, project)
      BY <2>1 DEF Tended, Kept
    <2>3. \E u \in Sessions : request'[u].op = "answer"
      BY <1>4
    <2> QED
      BY <1>3, <2>1, <2>2, <2>3 DEF Kept
  <1> QED
    BY <1>4, <1>6, <1>7 DEF Tended

\* A read stores what it shows.
LEMMA ViewKeeps ==
    ASSUME Packed, PacksTypeOK, Tended, UNCHANGED pack,
           Read \/ \E s \in Sessions : ShowAnswer(s)
    PROVE  PacksTypeOK' /\ Tended'
  <1>1. timeline' = Merged(timeline) /\ UNCHANGED <<project, overwritten>>
    BY DEF Read, ShowAnswer, View
  <1>2. timeline' \in Timelines
    BY <1>1, TimelineTypes DEF PacksTypeOK
  <1>3. \A u \in Sessions : request'[u] \in Requests /\ Knowing(request'[u])
    <2>1. CASE Read
      BY <2>1 DEF Read, PacksTypeOK, Tended
    <2>2. CASE \E s \in Sessions : ShowAnswer(s)
      <3>1. PICK s \in Sessions : request' = [request EXCEPT ![s] = Idle]
        BY <2>2 DEF ShowAnswer
      <3> QED
        BY <3>1, RequestKinds, SessionRequests
    <2> QED
      BY <2>1, <2>2
  <1>4. ~overwritten' => Kept'
    BY <1>1, MergedKeeps DEF Tended, Kept
  <1> QED
    BY <1>1, <1>2, <1>3, <1>4 DEF PacksTypeOK, Tended

LEMMA SaveLoanKeeps ==
    ASSUME PacksTypeOK, Tended, UNCHANGED pack, SaveLoan
    PROVE  PacksTypeOK' /\ Tended'
  <1>1. PICK l \in LoanStatuses : project' = [project EXCEPT !.mode = "loan", !.loan = l]
    BY DEF SaveLoan
  <1>2. UNCHANGED <<timeline, request, overwritten, pack>>
    BY DEF SaveLoan
  <1>3. project' \in Projects /\ project'.status = project.status
        /\ project'.documents = project.documents /\ project'.reached = project.reached
    BY <1>1 DEF PacksTypeOK, Projects, Modes
  <1>4. Columns(timeline, project) => Columns(timeline, project')
    BY <1>3 DEF Columns, Says
  <1> QED
    BY <1>2, <1>3, <1>4 DEF PacksTypeOK, Tended, Kept

\* Nothing comes between the reading and the writing of the documents' rows.
LEMMA SyncKeeps ==
    ASSUME PacksTypeOK, Tended, NEW d \in {"in_progress", "approved"}, Sync(d)
    PROVE  /\ timeline' \in Timelines /\ project' \in Projects /\ UNCHANGED overwritten
           /\ ~overwritten => /\ Stored(timeline') /\ Columns(timeline', project')
                              /\ Repaired(timeline')
                                   \/ \E s \in Sessions : request[s].op = "answer"
  <1>1. /\ timeline' = SyncedTimeline(timeline, project, d)
        /\ project' = SyncedProject(timeline, project, d) /\ UNCHANGED overwritten
        /\ timeline \in Timelines /\ project \in Projects
    BY DEF Sync, PacksTypeOK
  <1>2. timeline' \in Timelines /\ project' \in Projects
    <2>1. SyncedTimeline(timeline, project, d) \in Timelines
      BY <1>1, TimelineTypes
    <2>2. SyncedProject(timeline, project, d) \in Projects
      BY <1>1, ProjectTypes
    <2> QED
      BY <1>1, <2>1, <2>2
  <1>3. ASSUME ~overwritten
        PROVE  /\ Stored(timeline') /\ Columns(timeline', project')
               /\ Repaired(timeline') \/ \E s \in Sessions : request[s].op = "answer"
    <2>1. /\ Stored(timeline) /\ Columns(timeline, project)
          /\ Repaired(timeline) \/ \E s \in Sessions : request[s].op = "answer"
      BY <1>3 DEF Tended, Kept
    <2>2. /\ Stored(timeline') /\ Columns(timeline', project')
          /\ timeline' = timeline \/ Repaired(timeline')
      BY <1>1, <2>1, SyncedKeeps
    <2> QED
      BY <2>1, <2>2
  <1> QED
    BY <1>1, <1>2, <1>3

\* A session that is done with the packs, whether the timeline is moved or not.
LEMMA PackCommitKeeps ==
    ASSUME Packed, PacksTypeOK, Tended, NEW s \in Sessions, request[s].op \in {"save", "finalize"},
           request' = [request EXCEPT ![s] = Idle],
           pack' \in Seq(Pack), Len(pack') <= MaxVersions,
           NoSync \/ \E d \in {"in_progress", "approved"} : Sync(d)
    PROVE  PacksTypeOK' /\ Tended'
  <1>1. /\ \A u \in Sessions : request'[u] \in Requests /\ Knowing(request'[u])
        /\ \A u \in Sessions : request'[u] = IF u = s THEN Idle ELSE request[u]
    BY RequestKinds, SessionRequests
  <1>2. ASSUME \E u \in Sessions : request[u].op = "answer"
        PROVE  \E u \in Sessions : request'[u].op = "answer"
    BY <1>1, <1>2
  <1>3. CASE NoSync
    BY <1>1, <1>2, <1>3 DEF NoSync, PacksTypeOK, Tended, Kept
  <1>4. CASE \E d \in {"in_progress", "approved"} : Sync(d)
    <2>1. /\ timeline' \in Timelines /\ project' \in Projects /\ UNCHANGED overwritten
          /\ ~overwritten => /\ Stored(timeline') /\ Columns(timeline', project')
                             /\ Repaired(timeline')
                                  \/ \E u \in Sessions : request[u].op = "answer"
      BY <1>4, SyncKeeps
    <2> QED
      BY <1>1, <1>2, <2>1 DEF PacksTypeOK, Tended, Kept
  <1> QED
    BY <1>3, <1>4

LEMMA SameLength ==
    ASSUME NEW m \in Nat, NEW n \in Nat, 1..m = 1..n
    PROVE  m = n
  <1>1. \A i \in Int : i \in 1..m <=> i \in 1..n
    OBVIOUS
  <1>2. m > 0 => m <= n
    BY <1>1
  <1>3. n > 0 => n <= m
    BY <1>1
  <1> QED
    BY <1>2, <1>3

LEMMA CommitSaveKeeps ==
    ASSUME Packed, PacksTypeOK, Tended, NEW s \in Sessions, CommitSave(s)
    PROVE  PacksTypeOK' /\ Tended'
  <1> DEFINE r == request[s]
  <1>1. /\ r.op = "save" /\ request' = [request EXCEPT ![s] = Idle]
        /\ NoSync \/ Sync("in_progress")
    BY DEF CommitSave
  <1>2. /\ r.version \in 1..MaxVersions /\ pack \in Seq(Pack)
        /\ Len(pack) \in Nat /\ Len(pack) <= MaxVersions /\ MaxVersions \in Nat
    BY <1>1, RequestColumns, PackAssumption DEF PacksTypeOK
  <1>3. Orderly(pack')
    <2>1. Packed'
      BY CommitSaveStep
    <2> QED
      BY <2>1 DEF Packed
  <1>4. Len(pack') <= MaxVersions
    <2>1. CASE UNCHANGED pack
      BY <1>2, <2>1
    <2>2. CASE r.seen = Idle /\ ~(r.version <= Len(pack))
      <3>1. pack' = Append(pack, [status |-> r.status, finalized |-> FALSE])
        BY <2>2 DEF CommitSave
      <3>2. Len(pack') = Len(pack) + 1
        BY <1>2, <3>1
      <3> QED
        BY <1>2, <2>2, <3>2
    <2>3. CASE r.seen # Idle
      <3>1. pack' = [pack EXCEPT ![r.version] = Saved(pack[r.version], r)]
        BY <2>3 DEF CommitSave
      <3>2. DOMAIN pack' = DOMAIN pack
        BY <3>1
      <3>3. Len(pack') \in Nat /\ DOMAIN pack' = 1..Len(pack') /\ DOMAIN pack = 1..Len(pack)
        BY <1>2, <1>3, VersionsAsFunction DEF Orderly
      <3> QED
        BY <1>2, <3>2, <3>3, SameLength
    <2> QED
      BY <2>1, <2>2, <2>3 DEF CommitSave
  <1> QED
    BY <1>1, <1>3, <1>4, PackCommitKeeps DEF Orderly

LEMMA CommitFinalizeKeeps ==
    ASSUME Packed, PacksTypeOK, Tended, NEW s \in Sessions, CommitFinalize(s)
    PROVE  PacksTypeOK' /\ Tended'
  <1>1. /\ request[s].op = "finalize" /\ request' = [request EXCEPT ![s] = Idle]
        /\ Sync("approved")
        /\ DOMAIN pack' = DOMAIN pack
    BY DEF CommitFinalize
  <1>2. Orderly(pack')
    <2>1. Packed'
      BY CommitFinalizeStep
    <2> QED
      BY <2>1 DEF Packed
  <1>3. Len(pack') <= MaxVersions
    <2>1. /\ Len(pack') \in Nat /\ DOMAIN pack' = 1..Len(pack')
          /\ Len(pack) \in Nat /\ DOMAIN pack = 1..Len(pack)
          /\ Len(pack) <= MaxVersions /\ MaxVersions \in Nat
      BY <1>2, VersionsAsFunction, PackAssumption DEF PacksTypeOK, Orderly
    <2>2. Len(pack') = Len(pack)
      BY <1>1, <2>1, SameLength
    <2> QED
      BY <2>1, <2>2
  <1> QED
    BY <1>1, <1>2, <1>3, PackCommitKeeps DEF Orderly

LEMMA ListKeeps ==
    ASSUME Packed, PacksTypeOK, Tended, List
    PROVE  PacksTypeOK' /\ Tended'
  <1>1. UNCHANGED <<pack, request>> /\ \E d \in {"in_progress", "approved"} : Sync(d)
    BY DEF List, Target
  <1>2. /\ timeline' \in Timelines /\ project' \in Projects /\ UNCHANGED overwritten
        /\ ~overwritten => /\ Stored(timeline') /\ Columns(timeline', project')
                           /\ Repaired(timeline')
                                \/ \E s \in Sessions : request[s].op = "answer"
    BY <1>1, SyncKeeps
  <1> QED
    BY <1>1, <1>2 DEF PacksTypeOK, Tended, Kept

\* The inductive invariant of the timeline and its packs.
LEMMA AlwaysTended == PacksSpec => [](Packed /\ PacksTypeOK /\ Tended)
  <1>1. InitPacks => PacksTypeOK /\ Tended
    <2> SUFFICES ASSUME InitPacks PROVE PacksTypeOK /\ Tended
      OBVIOUS
    <2>1. /\ Unused(timeline) /\ overwritten = FALSE /\ pack = <<>>
          /\ request = [s \in Sessions |-> Idle]
          /\ project = [status |-> "planning", mode |-> NoMode, loan |-> "not_required",
                        documents |-> "pending", reached |-> {}]
      BY DEF InitPacks, TimelineInit, Unused
    <2>2. Stored(timeline) /\ Repaired(timeline)
      BY <2>1 DEF Stored, Repaired
    <2>3. timeline \in Timelines
      <3>1. [k \in {} |-> "pending"] \in [{} -> StepStatuses]
        OBVIOUS
      <3>2. [k \in {} |-> "pending"] \in UNION {[S -> StepStatuses] : S \in SUBSET Keys}
        BY <3>1
      <3> QED
        BY <2>1, <3>2, RankOfSteps DEF Unused, Timelines
    <2>4. project \in Projects
      BY <2>1 DEF Projects
    <2>5. \A s \in Sessions : request[s] \in Requests /\ Knowing(request[s])
      BY <2>1, RequestKinds
    <2>6. Columns(timeline, project)
      <3>1. Done(timeline) \subseteq Historical
        BY <2>1 DEF Unused, Done
      <3> QED
        BY <2>1, <3>1 DEF Columns, Says, Historical, Milestones
    <2>7. PacksTypeOK
      <3>1. pack \in Seq(Pack) /\ Len(pack) = 0 /\ Len(pack) <= MaxVersions
        BY <2>1, PackAssumption
      <3> QED
        BY <2>1, <2>3, <2>4, <2>5, <3>1 DEF PacksTypeOK
    <2> QED
      BY <2>2, <2>5, <2>6, <2>7 DEF Tended, Kept
  <1>2. PacksTypeOK /\ Tended /\ UNCHANGED all => PacksTypeOK' /\ Tended'
    BY DEF all, PacksTypeOK, Tended, Kept
  <1>3. Packed /\ PacksTypeOK /\ Tended /\ NextPacks => PacksTypeOK' /\ Tended'
    <2> SUFFICES ASSUME Packed, PacksTypeOK, Tended, NextPacks PROVE PacksTypeOK' /\ Tended'
      OBVIOUS
    <2>1. CASE \E s \in Clerks : \/ StartSave(s)     \/ CommitSave(s)
                                 \/ StartFinalize(s) \/ CommitFinalize(s)
      BY <2>1, PackBeginKeeps, CommitSaveKeeps, CommitFinalizeKeeps, PackAssumption
    <2>2. CASE TimelineNext /\ UNCHANGED pack
      <3>1. CASE \E s \in Administrators : StartStep(s) \/ StartMode(s)
        BY <2>2, <3>1, TimelineBeginKeeps, TimelineAssumption
      <3>2. CASE \E s \in Administrators : Commit(s)
        BY <2>2, <3>2, CommitKeeps, TimelineAssumption
      <3>3. CASE Read \/ \E s \in Administrators : ShowAnswer(s)
        BY <2>2, <3>3, ViewKeeps, TimelineAssumption
      <3>4. CASE SaveLoan
        BY <2>2, <3>4, SaveLoanKeeps
      <3> QED
        BY <2>2, <3>1, <3>2, <3>3, <3>4 DEF TimelineNext
    <2>3. CASE List
      BY <2>3, ListKeeps
    <2> QED
      BY <2>1, <2>2, <2>3 DEF NextPacks
  <1> QED
    BY <1>1, <1>2, <1>3, AlwaysPacked, PTL DEF PacksSpec

\* The rows and the versions of a project have their types, whoever works on them
\* at once (workflow_service.py, save_document_pack).
THEOREM PacksTypeCorrect == PacksSpec => []PacksTypeOK
  BY AlwaysTended, PTL

\* What the timeline shows of a stored row.
LEMMA ShownOfStored ==
    ASSUME NEW t, Stored(t)
    PROVE  /\ Merged(t).mode = t.mode /\ Merged(Merged(t)) = Merged(t)
           /\ Merged(t).current = CurrentStep(t.mode, Done(t))
           /\ \A k : Complete(Merged(t), k) <=> k \in Done(t)
           /\ \A k \in Definition(t.mode) : Status(Merged(t), k) = "completed" <=> k \in Done(t)
  <1> DEFINE done == Done(t)
  <1>1. /\ Merged(t) = Laid(t.mode, done) /\ Merged(t).mode = t.mode
        /\ Merged(Merged(t)) = Merged(t)
    BY MergedIsStored
  <1>2. done \in SUBSET Definition(t.mode)
    BY DEF Done
  <1>3. /\ Merged(t).current = CurrentStep(t.mode, done)
        /\ DOMAIN Merged(t).steps = Definition(t.mode)
        /\ \A k \in Definition(t.mode) : Merged(t).steps[k] = "completed" <=> k \in done
    BY <1>1, <1>2, LaidColumns
  <1> HIDE DEF done
  <1>4. \A k : Complete(Merged(t), k) <=> k \in done
    BY <1>1, <1>2, <1>3 DEF Complete, Status
  <1>5. \A k \in Definition(t.mode) : Status(Merged(t), k) = "completed" <=> k \in done
    BY <1>1, <1>3 DEF Status
  <1> QED
    BY <1>1, <1>3, <1>4, <1>5 DEF done

\* The payment step is completed exactly when a mode is set and its turn has come.
LEMMA PaymentStep ==
    ASSUME NEW t, Stored(t), NEW p, Columns(t, p)
    PROVE  "payment_mode" \in Done(t) <=>
              /\ t.mode # NoMode /\ "documents_approved" \in Done(t)
              /\ CurrentStep(t.mode, Done(t)) # "final_registration"
  <1> DEFINE done == Done(t)
             m == t.mode
             current == CurrentStep(m, done)
  <1>1. /\ InOrder(m, done)
        /\ m # NoMode /\ "payment_mode" \notin done => current # "payment_mode"
        /\ "payment_mode" \in done => m # NoMode
    BY DoneOfStored DEF Columns, Says
  <1>2. /\ {"documents_uploaded", "documents_approved", "final_registration",
            "payment_mode"} \subseteq Definition(m)
        /\ Definition(m) \subseteq Keys
        /\ "project_completed" \in Keys
    BY CommonSteps
  <1>3. /\ Rank["documents_uploaded"] = 5 /\ Rank["documents_approved"] = 6
        /\ Rank["final_registration"] = 7 /\ Rank["payment_mode"] = 8
        /\ Rank["project_completed"] = 17
    BY RankOfSteps
  <1> HIDE DEF done, m
  <1>4. ASSUME "payment_mode" \in done
        PROVE  "documents_approved" \in done /\ current # "final_registration"
    <2>0. \A j \in Definition(m) : Rank[j] < Rank["payment_mode"] => j \in done
      BY <1>1, <1>4 DEF InOrder
    <2>1. "documents_approved" \in done /\ "final_registration" \in done
      BY <1>2, <1>3, <2>0
    <2>2. CASE Definition(m) \ done = {}
      BY <2>1, <2>2 DEF CurrentStep
    <2>3. CASE Definition(m) \ done # {}
      BY <2>1, <2>3, CurrentIsFirst
    <2> QED
      BY <2>1, <2>2, <2>3
  <1>5. ASSUME m # NoMode, "documents_approved" \in done, current # "final_registration",
               "payment_mode" \notin done
        PROVE  FALSE
    <2>1. /\ current \in Definition(m) /\ current \notin done
          /\ \A j \in Definition(m) : Rank[j] < Rank[current] => j \in done
      <3>1. Definition(m) \ done # {}
        BY <1>2, <1>5
      <3> QED
        BY <3>1, CurrentIsFirst
    <2>2. Rank[current] \in Nat /\ current \in Keys /\ current # "payment_mode"
      BY <1>1, <1>2, <1>5, <2>1, RankOfKeys
    <2>3. ~(Rank["payment_mode"] < Rank[current])
      BY <1>2, <1>5, <2>1
    <2>4. ~(Rank[current] <= 6)
      <3>1. Rank[current] < 6 => current \in done
        BY <1>1, <1>3, <1>5, <2>1 DEF InOrder
      <3>2. Rank[current] = 6 => current = "documents_approved"
        BY <1>2, <1>3, <2>2, RankOfKeys
      <3> QED
        BY <1>5, <2>1, <2>2, <3>1, <3>2
    <2>5. Rank[current] = 7 \/ Rank[current] = 8
      BY <1>3, <2>2, <2>3, <2>4
    <2>6. current = "final_registration" \/ current = "payment_mode"
      BY <1>2, <1>3, <2>2, <2>5, RankOfKeys
    <2> QED
      BY <1>5, <2>2, <2>6
  <1> QED
    BY <1>1, <1>4, <1>5 DEF done, m

\* As long as no request overwrites rows it has not read, the steps are completed
\* in their order, the payment step with a mode, and the columns of the project
\* say what its steps say (workflow_service.py).
THEOREM TimelineAlwaysAgrees == PacksSpec => []TimelineAgrees
  <1>1. ASSUME Tended, ~overwritten
        PROVE  LET t == Merged(timeline)
                   steps == Definition(t.mode)
               IN /\ \A j, k \in steps : Rank[j] < Rank[k] /\ Complete(t, k) => Complete(t, j)
                  /\ Complete(t, "payment_mode") <=>
                        /\ t.mode # NoMode /\ Status(t, "documents_approved") = "completed"
                        /\ t.current # "final_registration"
                  /\ \A k \in Milestones : Complete(t, k) => k \in project.reached
                  /\ Complete(t, "documents_approved") => project.documents = "approved"
                  /\ project.status = "completed" <=> \A k \in steps : Complete(t, k)
    <2> DEFINE t == Merged(timeline)
               m == timeline.mode
               done == Done(timeline)
    <2>1. Stored(timeline) /\ Columns(timeline, project) /\ InOrder(m, done)
      BY <1>1, DoneOfStored DEF Tended, Kept
    <2>2. /\ t.mode = m /\ t.current = CurrentStep(m, done)
          /\ \A k : Complete(t, k) <=> k \in done
          /\ Status(t, "documents_approved") = "completed" <=> "documents_approved" \in done
      BY <2>1, ShownOfStored, CommonSteps
    <2>3. Says(project, m, done)
      BY <2>1 DEF Columns
    <2>4. /\ "payment_mode" \in done <=> /\ m # NoMode /\ "documents_approved" \in done
                                         /\ CurrentStep(m, done) # "final_registration"
          /\ "project_completed" \in done <=> Definition(m) \subseteq done
      BY <2>1, PaymentStep, LastStep
    <2> HIDE DEF t, m, done
    <2>5. \A j, k \in Definition(m) : Rank[j] < Rank[k] /\ Complete(t, k) => Complete(t, j)
      BY <2>1, <2>2 DEF InOrder
    <2>6. /\ \A k \in Milestones : Complete(t, k) => k \in project.reached
          /\ Complete(t, "documents_approved") => project.documents = "approved"
          /\ project.status = "completed" <=> \A k \in Definition(m) : Complete(t, k)
      BY <2>2, <2>3, <2>4 DEF Says
    <2>7. Complete(t, "payment_mode") <=>
             /\ t.mode # NoMode /\ Status(t, "documents_approved") = "completed"
             /\ t.current # "final_registration"
      BY <2>2, <2>4
    <2> QED
      BY <2>2, <2>5, <2>6, <2>7 DEF t
  <1>2. Tended => TimelineAgrees
    BY <1>1 DEF TimelineAgrees
  <1> QED
    BY <1>2, AlwaysTended, PTL

LEMMA StepsAreFew ==
    ASSUME NEW mode
    PROVE  /\ IsFiniteSet(Definition(mode))
           /\ Cardinality(Definition(mode)) \in 1..18
  <1> DEFINE f == [k \in Definition(mode) |-> Rank[k]]
  <1>1. Definition(mode) \subseteq Keys /\ "project_completed" \in Definition(mode)
    BY CommonSteps
  <1>2. f \in Injection(Definition(mode), 0..17)
    <2>1. f \in [Definition(mode) -> 0..17]
      BY <1>1, RankOfKeys
    <2>2. \A j, k \in Definition(mode) : f[j] = f[k] => j = k
      BY <1>1, RankOfKeys
    <2> HIDE DEF f
    <2> QED
      BY <2>1, <2>2, Fun_IsInj
  <1>3. IsFiniteSet(0..17) /\ Cardinality(0..17) = 18
    <2>1. 0 \in Int /\ 17 \in Int /\ ~(0 > 17) /\ 17 - 0 + 1 = 18
      OBVIOUS
    <2>2. /\ IsFiniteSet(0..17)
          /\ Cardinality(0..17) = IF 0 > 17 THEN 0 ELSE 17 - 0 + 1
      BY <2>1, FS_Interval
    <2> QED
      BY <2>1, <2>2
  <1>4. IsFiniteSet(Definition(mode)) /\ Cardinality(Definition(mode)) <= 18
    BY <1>2, <1>3, FS_Injection
  <1>5. Cardinality(Definition(mode)) \in Nat /\ Cardinality(Definition(mode)) # 0
    BY <1>1, <1>4, FS_CardinalityType, FS_EmptySet
  <1> QED
    BY <1>4, <1>5

\* The percentage is rounded, but not up to 100.
LEMMA RoundedShare ==
    ASSUME NEW n \in 1..18, NEW c \in 0..n
    PROVE  (100 * c) \div n + (IF \/ 2 * ((100 * c) % n) > n
                                  \/ 2 * ((100 * c) % n) = n /\ ((100 * c) \div n) % 2 = 1
                               THEN 1 ELSE 0) = 100 <=> c = n
  <1> DEFINE q == (100 * c) \div n
             rest == (100 * c) % n
  <1>1. c = n => q = 100 /\ rest = 0
    BY SMTT(30)
  <1>2. c < n => q \in Int /\ q <= 98
    BY SMTT(30)
  <1> HIDE DEF q, rest
  <1>3. c = n \/ c < n
    OBVIOUS
  <1>4. CASE c = n
    BY <1>1, <1>4
  <1>5. CASE c < n
    BY <1>2, <1>5
  <1> QED
    BY <1>3, <1>4, <1>5 DEF q, rest

\* Between requests, the stored row is the one that is shown, and the dashboard
\* counts a project as completed exactly when its page shows 100 percent
\* (workflow_service.py, get_summary).
THEOREM ReadersAlwaysAgree == PacksSpec => []ReadersAgree
  <1>1. ASSUME Tended, Undisturbed, DOMAIN timeline.steps # {}
        PROVE  /\ timeline = Merged(timeline)
               /\ "completed_projects" \in Dashboard <=> ShownProgress(timeline) = 100
    <2> DEFINE m == timeline.mode
               done == Done(timeline)
               n == Cardinality(Definition(m))
               c == Cardinality(done)
    <2>1. Stored(timeline) /\ Columns(timeline, project) /\ Repaired(timeline)
      BY <1>1 DEF Tended, Kept, Undisturbed
    <2>2. ~Unused(timeline)
      BY <1>1 DEF Unused
    <2>3. /\ Finished(timeline) = done /\ timeline = Laid(m, done)
          /\ InOrder(m, done)
      BY <2>1, <2>2 DEF Stored, Repaired
    <2>4. timeline = Merged(timeline)
      BY <2>3, MergedIsLaid
    <2>5. project.status = "completed" <=> Definition(m) \subseteq done
      BY <2>1, <2>3, LastStep DEF Columns, Says
    <2>6. "completed_projects" \in Dashboard <=> project.status = "completed"
      BY DEF Dashboard
    <2>7. /\ IsFiniteSet(Definition(m)) /\ n \in 1..18
          /\ done \in SUBSET Definition(m)
      BY <2>3, StepsAreFew DEF InOrder
    <2>8. c \in 0..n /\ (c = n <=> Definition(m) \subseteq done)
      <3>1. IsFiniteSet(done) /\ c <= n /\ (n = c => Definition(m) = done)
        BY <2>7, FS_Subset
      <3>2. c \in Nat
        BY <3>1, FS_CardinalityType
      <3>3. Definition(m) \subseteq done => Definition(m) = done
        BY <2>7
      <3> QED
        BY <2>7, <3>1, <3>2, <3>3
    <2>9. ShownProgress(timeline) =
             (100 * c) \div n + (IF \/ 2 * ((100 * c) % n) > n
                                    \/ 2 * ((100 * c) % n) = n /\ ((100 * c) \div n) % 2 = 1
                                 THEN 1 ELSE 0)
      <3>1. {k \in DOMAIN timeline.steps : timeline.steps[k] = "completed"} = done
        BY <2>3 DEF Finished
      <3> HIDE DEF done
      <3> QED
        BY <3>1 DEF ShownProgress
    <2>10. ShownProgress(timeline) = 100 <=> c = n
      <3> HIDE DEF n, c
      <3>1. n \in 1..18 /\ c \in 0..n
        BY <2>7, <2>8
      <3>2. (100 * c) \div n + (IF \/ 2 * ((100 * c) % n) > n
                                   \/ 2 * ((100 * c) % n) = n /\ ((100 * c) \div n) % 2 = 1
                                THEN 1 ELSE 0) = 100 <=> c = n
        BY <3>1, RoundedShare
      <3> QED
        BY <2>9, <3>2
    <2> QED
      BY <2>4, <2>5, <2>6, <2>8, <2>10
  <1>2. Tended => ReadersAgree
    BY <1>1 DEF ReadersAgree
  <1> QED
    BY <1>2, AlwaysTended, PTL
==============================================================================
