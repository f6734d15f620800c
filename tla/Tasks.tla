--------------------------------- MODULE Tasks ---------------------------------
(***************************************************************************)
(* Tasks, their assignments and what the members see of them               *)
(* (tasks_service.py, notifications_service.py).  Every change locks the   *)
(* task's row before it reads the task and its assignments, and holds the  *)
(* lock until it commits: each is one step.  What interleaves are the      *)
(* members' clients: a client shows the task as it was when it was opened, *)
(* and sends its version with every change.                                *)
(***************************************************************************)
EXTENDS Integers, FiniteSets, FiniteSetsExt

CONSTANTS Members, Roles,  \* memberships of the company, roles tasks are given to
          RoleOf,          \* the role of every member
          Managers,        \* members whose role has tasks.manage
          TaskIds,
          Progress,        \* percentages the progress form sends
          MaxVersion       \* bound: versions of a task

None == "none"
NotSent == -1
Statuses == {"todo", "in_progress", "blocked", "done"}

ASSUME TasksAssumption ==
    /\ RoleOf \in [Members -> Roles]
    /\ Managers \subseteq Members
    /\ Progress \subseteq 0..100
    /\ MaxVersion \in Nat \ {0}

VARIABLES task,      \* rows of tasks, each with its assignments
          active,    \* members whose membership and user are active
          visible,   \* whether the customer some tasks are about is not deleted
          now,       \* before (0) or after (1) the time tasks may be due
          shown      \* what each member's client shows of each task

vars == <<task, active, visible, now, shown>>

Percent == Progress \cup {0, 10, 100}
Assignment == [status: Statuses, progress: Percent, completed: BOOLEAN,
               role: Roles \cup {None}]
Missing == [version |-> 0]
Task == [version: 1..MaxVersion, creator: Members, due: {None, "today"},
         context: {"general", "customers"},
         assigned: UNION {[S -> Assignment] : S \in SUBSET Members}]

TypeOK == /\ task \in [TaskIds -> Task \cup {Missing}]
          /\ active \subseteq Members
          /\ visible \in BOOLEAN /\ now \in 0..1
          /\ shown \in [Members -> [TaskIds -> Task \cup {Missing}]]

Init == /\ task = [t \in TaskIds |-> Missing]
        /\ active = Members
        /\ visible = TRUE /\ now = 0
        /\ shown = [m \in Members |-> task]

----------------------------------------------------------------------------
(* What a request may do. *)

\* _operational_task_filter: tasks about a deleted customer are hidden.
Operational(t) == task[t] # Missing /\ (task[t].context = "customers" => visible)
MaySee(m, t) == \/ m \in Managers
                \/ m = task[t].creator
                \/ m \in DOMAIN task[t].assigned
MayEdit(m, t) == m \in Managers \/ m = task[t].creator
\* The checks of every change: the task is there, shown to the member, and the
\* version the client sends is the one of the row.
Current(m, t) == /\ m \in active /\ Operational(t) /\ MaySee(m, t)
                 /\ shown[m][t] # Missing
                 /\ shown[m][t].version = task[t].version

\* _resolve_assignees: explicit members first, then the active members of the
\* roles; the member who asks when nobody was selected.  Refused when an explicit
\* member is inactive, or when the selection comes to nobody.
Targets(m, ids, roles) ==
    LET ofRoles == {a \in active : RoleOf[a] \in roles} \ ids
        selected == ids \cup ofRoles
    IN IF ids = {} /\ roles = {} THEN [a \in {m} |-> None]
       ELSE [a \in selected |-> IF a \in ids THEN None ELSE RoleOf[a]]
Selectable(m, ids, roles) ==
    /\ m \notin Managers => ids \subseteq {m} /\ roles = {}
    /\ ids \subseteq active
    /\ DOMAIN Targets(m, ids, roles) # {}

NewAssignment(role) ==
    [status |-> "todo", progress |-> 0, completed |-> FALSE, role |-> role]

\* Mutant: progress does not follow a status that is sent alone.
UpdatedAsSent(a, status, progress) ==
    LET s == IF status = None THEN a.status ELSE status
        p == IF progress = NotSent THEN a.progress ELSE progress
    IN IF p >= 100 \/ s = "done"
       THEN [a EXCEPT !.status = "done", !.progress = 100, !.completed = TRUE]
       ELSE [a EXCEPT !.status = s, !.progress = p, !.completed = FALSE]

\* update_assignment: what a status (or None) and a progress (or NotSent) make of
\* an assignment.
Updated(a, status, progress) ==
    LET s == IF status = None THEN a.status ELSE status
        p == IF progress = NotSent THEN a.progress ELSE progress
    IN IF p >= 100 \/ s = "done"
       THEN [a EXCEPT !.status = "done", !.progress = 100, !.completed = TRUE]
       ELSE [a EXCEPT
               !.completed = FALSE,
               !.status = IF s = "todo" /\ p > 0 /\ status # "todo" THEN "in_progress" ELSE s,
               !.progress = IF status = "todo" THEN 0
                            ELSE IF s = "in_progress" /\ p = 0 THEN 10 ELSE p]

----------------------------------------------------------------------------
(* Requests; each answers with the task as it is afterwards, or with an error *)
(* when that is about a customer who is deleted, though the change is made.   *)

Answer(m, t) ==
    shown' = IF task'[t] # Missing /\ task'[t].context = "customers" /\ ~visible THEN shown
             ELSE [shown EXCEPT ![m][t] = task'[t]]

Create(m, t) ==
    /\ m \in active /\ task[t] = Missing
    /\ \A n \in Members : shown[n][t] = Missing     \* identifiers are used once
    /\ \E ids \in SUBSET Members, roles \in SUBSET Roles, due \in {None, "today"},
          context \in {"general", "customers"} :
        /\ Selectable(m, ids, roles)
        /\ LET targets == Targets(m, ids, roles)
           IN task' = [task EXCEPT ![t] =
                 [version |-> 1, creator |-> m, due |-> due, context |-> context,
                  assigned |-> [a \in DOMAIN targets |-> NewAssignment(targets[a])]]]
    /\ Answer(m, t) /\ UNCHANGED <<active, visible, now>>

Open(m, t) ==
    /\ m \in active /\ Operational(t) /\ MaySee(m, t)
    /\ shown' = [shown EXCEPT ![m][t] = task[t]]
    /\ shown' # shown
    /\ UNCHANGED <<task, active, visible, now>>

EditFields(m, t) ==
    /\ Current(m, t) /\ MayEdit(m, t) /\ task[t].version < MaxVersion
    /\ \E due \in {None, "today"}, context \in {"general", "customers"} :
          task' = [task EXCEPT ![t].due = due, ![t].context = context, ![t].version = @ + 1]
    /\ Answer(m, t) /\ UNCHANGED <<active, visible, now>>

\* Assignees who stay keep their progress; the others lose it.
Reassign(m, t) ==
    /\ Current(m, t) /\ m \in Managers /\ task[t].version < MaxVersion
    /\ \E ids \in SUBSET Members, roles \in SUBSET Roles :
        /\ Selectable(m, ids, roles)
        /\ LET targets == Targets(m, ids, roles)
               old == task[t].assigned
           IN task' = [task EXCEPT
                 ![t].version = @ + 1,
                 ![t].assigned = [a \in DOMAIN targets |->
                    IF a \in DOMAIN old THEN [old[a] EXCEPT !.role = targets[a]]
                    ELSE NewAssignment(targets[a])]]
    /\ Answer(m, t) /\ UNCHANGED <<active, visible, now>>

\* Mutant: progress leaves the version alone.
AdvanceSameVersion(m, t) ==
    /\ Current(m, t)
    /\ \E a \in DOMAIN task[t].assigned, status \in Statuses \cup {None},
          progress \in Progress \cup {NotSent} :
        /\ m = a \/ m \in Managers
        /\ task' = [task EXCEPT ![t].assigned[a] = Updated(@, status, progress)]
    /\ Answer(m, t) /\ UNCHANGED <<active, visible, now>>

\* update_assignment: one's own, or anybody's for a manager.
Advance(m, t) ==
    /\ Current(m, t) /\ task[t].version < MaxVersion
    /\ \E a \in DOMAIN task[t].assigned, status \in Statuses \cup {None},
          progress \in Progress \cup {NotSent} :
        /\ m = a \/ m \in Managers
        /\ task' = [task EXCEPT ![t].assigned[a] = Updated(@, status, progress),
                                ![t].version = @ + 1]
    /\ Answer(m, t) /\ UNCHANGED <<active, visible, now>>

Delete(m, t) ==
    /\ Current(m, t) /\ MayEdit(m, t)
    /\ task' = [task EXCEPT ![t] = Missing]
    /\ Answer(m, t) /\ UNCHANGED <<active, visible, now>>

\* An administrator deactivates or activates a member; the lifecycle deletes or
\* restores the customer; the day passes.
Toggle(m) == /\ active' = IF m \in active THEN active \ {m} ELSE active \cup {m}
             /\ UNCHANGED <<task, visible, now, shown>>
DeleteOrRestore == /\ visible' = ~visible /\ UNCHANGED <<task, active, now, shown>>
DayPasses == /\ now = 0 /\ now' = 1 /\ UNCHANGED <<task, active, visible, shown>>

Next == \/ \E m \in Members, t \in TaskIds :
              \/ Create(m, t) \/ Open(m, t) \/ EditFields(m, t) \/ Reassign(m, t)
              \/ Advance(m, t) \/ Delete(m, t)
        \/ \E m \in Members : Toggle(m)
        \/ DeleteOrRestore \/ DayPasses

Spec == Init /\ [][Next]_vars

----------------------------------------------------------------------------
(* What is shown: the summary of a task, the filters of the list, the       *)
(* numbers on the pages.                                                    *)

StatusesOf(t) == {task[t].assigned[a].status : a \in DOMAIN task[t].assigned}
Overall(t) == CASE StatusesOf(t) = {"done"}     -> "done"
                [] "blocked" \in StatusesOf(t)  -> "blocked"
                [] StatusesOf(t) \cap {"in_progress", "done"} # {}
                   /\ "blocked" \notin StatusesOf(t)
                   /\ StatusesOf(t) # {"done"}  -> "in_progress"
                [] OTHER                        -> "todo"
Late(t) == task[t].due # None /\ now = 1
Overdue(t) == Late(t) /\ Overall(t) # "done"

\* Some assignment of the task has one of the statuses.
Some(t, S) == \E a \in DOMAIN task[t].assigned : task[t].assigned[a].status \in S

\* Mutant: one finished assignment is enough for the filter.
SelectedByAny(status) ==
    {t \in TaskIds : Operational(t) /\ Some(t, {status})}

\* list_tasks, scope team: what the status filter selects.
Selected(status) ==
    {t \in TaskIds :
        /\ Operational(t)
        /\ CASE status = "done"        -> ~Some(t, Statuses \ {"done"})
             [] status = "blocked"     -> Some(t, {"blocked"})
             [] status = "in_progress" -> /\ ~Some(t, {"blocked"})
                                          /\ Some(t, {"in_progress", "done"})
                                          /\ Some(t, Statuses \ {"done"})
             [] status = "todo"        -> ~Some(t, Statuses \ {"todo"})}

\* list_tasks, scope mine: the status of one's own assignment.
Mine(m, status) == {t \in TaskIds : /\ Operational(t) /\ m \in DOMAIN task[t].assigned
                                    /\ task[t].assigned[m].status = status}

\* The badge of the notifications, and task_metrics.
Badge(m) == Cardinality({t \in TaskIds : /\ Operational(t) /\ m \in DOMAIN task[t].assigned
                                         /\ task[t].assigned[m].status # "done"})
TeamOpen == Cardinality({t \in TaskIds : Operational(t) /\ Some(t, Statuses \ {"done"})})
TeamOverdue == Cardinality({t \in TaskIds : /\ Operational(t) /\ Late(t)
                                            /\ Some(t, Statuses \ {"done"})})

----------------------------------------------------------------------------
(* Properties. *)

\* Status, progress and completion of an assignment always say the same,
\* whatever part of them a request sends.
ProgressMatchesStatus ==
    \A t \in TaskIds : task[t] # Missing =>
        \A a \in DOMAIN task[t].assigned :
            LET w == task[t].assigned[a] IN
            /\ w.status = "done" <=> w.progress = 100
            /\ w.status = "done" <=> w.completed
            /\ w.status = "todo" => w.progress = 0
            /\ w.status = "in_progress" => w.progress > 0

\* Nobody changes or deletes what he has not seen: whoever changes a task had
\* the task as it was on his screen, whichever of the operations of other
\* members came before; and he sees what he has made of it, but when it is hidden.
NothingUnseenIsChanged ==
    [][\A t \in TaskIds : task[t] # Missing /\ task'[t] # task[t] =>
          \E m \in Members : /\ shown[m][t] = task[t]
                             /\ shown'[m][t] = task'[t] \/ ~Operational(t)']_vars

\* Every task is found under the status its card shows and under no other, and
\* the team's numbers count what the cards show as open and overdue.
CardsFiltersAndCountsAgree ==
    LET operational == {t \in TaskIds : Operational(t)} IN
    /\ \A t \in operational, s \in Statuses : t \in Selected(s) <=> Overall(t) = s
    /\ \A m \in Members :
          Badge(m) = Cardinality(UNION {Mine(m, s) : s \in Statuses \ {"done"}})
    /\ TeamOpen = Cardinality({t \in operational : Overall(t) # "done"})
    /\ TeamOverdue = Cardinality({t \in operational : Overdue(t)})
================================================================================
