---------------------------- MODULE ProjectTimeline ----------------------------
(***************************************************************************)
(* The timeline of one project (workflow_service.py).  Its steps are kept  *)
(* as a JSON text that every reader merges with the steps its payment mode *)
(* calls for, and every writer writes back as a whole, next to columns of  *)
(* the project that say the same in other words.  Nothing is locked: a     *)
(* request reads both rows, computes, and commits the columns that differ  *)
(* from what it has read.                                                  *)
(***************************************************************************)
EXTENDS Integers, FiniteSets

CONSTANTS Sessions,        \* concurrent requests
          Administrators,  \* the sessions that work on the timeline
          Keys,          \* the steps of this instance
          LoanStatuses   \* what the form of the customer's loan may send

NoMode == "none"
Modes == {"cash", "loan"}

\* The order of the steps.  No timeline has those of both branches.
Rank == [customer_registration |-> 1, quotation_created |-> 2, quotation_approved |-> 3,
         project_created |-> 4, documents_uploaded |-> 5, documents_approved |-> 6,
         final_registration |-> 7, payment_mode |-> 8,
         cash_payment |-> 9, loan_application |-> 10, bank_approval |-> 11,
         material_arrival |-> 12, installation |-> 13, dcr_upload |-> 14,
         second_payment |-> 15, subsidy |-> 16, project_completed |-> 17]
CashSteps == {"cash_payment"}
LoanSteps == {"loan_application", "bank_approval"}
\* _timeline_definition
Definition(mode) == {k \in Keys : /\ k \in CashSteps => mode = "cash"
                                  /\ k \in LoanSteps => mode = "loan"}
\* Steps from before the timeline: always completed, and locked.
Historical == {"customer_registration", "quotation_created", "quotation_approved",
               "project_created"}
\* Steps that complete a status column of their own.
Milestones == {"final_registration", "material_arrival", "installation", "dcr_upload",
               "subsidy"} \cap Keys

ASSUME TimelineAssumption ==
    /\ Administrators \subseteq Sessions
    /\ Keys \subseteq DOMAIN Rank
    /\ {"documents_uploaded", "documents_approved", "final_registration", "payment_mode",
        "project_completed"} \subseteq Keys

VARIABLES timeline,     \* the row of project_timelines
          project,      \* the columns of customer_projects the timeline is about
          request,      \* what every session is doing
          overwritten   \* history: a request committed over rows it had not read

StepStatuses == {"pending", "current", "completed"}
Timelines == [mode: Modes \cup {NoMode}, current: Keys,
              steps: UNION {[S -> StepStatuses] : S \in SUBSET Keys}]
Projects == [status: {"planning", "in_progress", "completed"}, mode: Modes \cup {NoMode},
             loan: {"not_required", "draft", "applied", "approved"} \cup LoanStatuses,
             documents: {"pending", "in_progress", "approved"}, reached: SUBSET Milestones]
Idle == [op |-> "idle"]

\* There is no row yet; _ensure_timeline creates it on the first access.
TimelineInit ==
    /\ timeline = [mode |-> NoMode, current |-> "documents_uploaded",
                   steps |-> [k \in {} |-> "pending"]]
    /\ project = [status |-> "planning", mode |-> NoMode, loan |-> "not_required",
                  documents |-> "pending", reached |-> {}]
    /\ request = [s \in Sessions |-> Idle]
    /\ overwritten = FALSE

----------------------------------------------------------------------------

\* Mutant: the repair of old confirmations is left out.
DoneUnrepaired(t) ==
    {k \in Definition(t.mode) :
        k \in Historical \/ (k \in DOMAIN t.steps /\ t.steps[k] = "completed")}

\* The steps that count as completed when the stored ones are laid over those of
\* the mode: the payment step of a timeline that has a mode also when it is the
\* current one, which repairs old confirmations.
Done(t) ==
    {k \in Definition(t.mode) :
        \/ k \in Historical
        \/ /\ k \in DOMAIN t.steps
           /\ \/ t.steps[k] = "completed"
              \/ k = "payment_mode" /\ t.mode # NoMode /\ t.steps[k] = "current"}

FirstOf(steps) == CHOOSE k \in steps : \A j \in steps : Rank[k] <= Rank[j]
\* first_open
CurrentStep(mode, done) ==
    LET open == Definition(mode) \ done
    IN IF open = {} THEN "project_completed" ELSE FirstOf(open)

\* _merge_timeline_steps: the first open step is the current one.
Merged(t) ==
    LET done == Done(t)
        current == CurrentStep(t.mode, done)
    IN [mode |-> t.mode, current |-> current,
        steps |-> [k \in Definition(t.mode) |-> IF k \in done THEN "completed"
                                               ELSE IF k = current THEN "current" ELSE "pending"]]

Status(t, k) == Merged(t).steps[k]
With(t, steps) == Merged([Merged(t) EXCEPT !.steps = steps])
From(t, k) == {j \in Definition(t.mode) : Rank[k] <= Rank[j]}

----------------------------------------------------------------------------
(* What the three operations of an administrator, and the documents, make of *)
(* the two rows they have read.                                              *)

CanComplete(t, k) == /\ k \in DOMAIN Merged(t).steps /\ Status(t, k) = "current"
                     /\ k = "payment_mode" => t.mode # NoMode
CompletedTimeline(t, k) == With(t, [Merged(t).steps EXCEPT ![k] = "completed"])
CompletedProject(p, k) ==
    [p EXCEPT !.status = IF k = "project_completed" THEN "completed" ELSE "in_progress",
              !.documents = CASE k = "documents_uploaded" -> "in_progress"
                              [] k = "documents_approved" -> "approved" [] OTHER -> @,
              !.loan = CASE k = "loan_application" -> "applied"
                         [] k = "bank_approval" -> "approved" [] OTHER -> @,
              !.reached = @ \cup ({k} \cap Milestones)]

\* The columns of the project keep what they say.
CanReopen(t, k) == /\ k \in DOMAIN Merged(t).steps \ Historical
                   /\ Status(t, k) = "completed"
ReopenedTimeline(t, k) ==
    LET steps == [j \in DOMAIN Merged(t).steps |->
                     IF j \notin From(t, k) THEN Merged(t).steps[j]
                     ELSE IF j = k THEN "current" ELSE "pending"]
    IN With([t EXCEPT !.mode = IF k = "payment_mode" THEN NoMode ELSE @], steps)
ReopenedProject(p) == [p EXCEPT !.status = "in_progress"]

\* set_project_payment_mode; the mode that is already set is no error.
CanChoose(t, m) == Status(t, "payment_mode") = "current" \/ t.mode = m
ChosenTimeline(t, m) ==
    IF Status(t, "payment_mode") # "current" THEN Merged(t)
    ELSE With([t EXCEPT !.mode = m], [Merged(t).steps EXCEPT !["payment_mode"] = "completed"])
ChosenProject(t, p, m) ==
    IF Status(t, "payment_mode") # "current" THEN p
    ELSE [p EXCEPT !.mode = m, !.loan = IF m = "loan" THEN "draft" ELSE "not_required"]

\* sync_documentation_progress
DocumentRank == [pending |-> 0, in_progress |-> 1, approved |-> 2]
SystemSteps(d) == IF d = "approved" THEN {"documents_uploaded", "documents_approved"}
                  ELSE {"documents_uploaded"}
Advances(t, p, d) == /\ DocumentRank[p.documents] <= DocumentRank[d]
                     /\ \/ p.documents # d
                        \/ \E k \in SystemSteps(d) : Status(t, k) # "completed"
SyncedTimeline(t, p, d) ==
    IF ~Advances(t, p, d)
    THEN IF DocumentRank[p.documents] > DocumentRank[d] THEN t ELSE Merged(t)
    ELSE With(t, [k \in DOMAIN Merged(t).steps |->
                     IF k \in SystemSteps(d) THEN "completed" ELSE Merged(t).steps[k]])
SyncedProject(t, p, d) ==
    IF ~Advances(t, p, d) THEN p
    ELSE [p EXCEPT !.documents = d,
                   !.status = IF @ = "planning" THEN "in_progress" ELSE @]

----------------------------------------------------------------------------
(* Requests. *)

\* Only columns that differ from what was read are written.
WriteTimeline(seen, new) ==
    timeline' = [c \in DOMAIN timeline |-> IF new[c] = seen[c] THEN timeline[c] ELSE new[c]]
WriteProject(seen, new) ==
    project' = [c \in DOMAIN project |->
                   IF c = "reached" THEN project.reached \cup (new.reached \ seen.reached)
                   ELSE IF new[c] = seen[c] THEN project[c] ELSE new[c]]
Note(r) == overwritten' = (overwritten \/ r.timeline # timeline \/ r.project # project)

Start(s, op, arg) ==
    /\ request[s] = Idle
    /\ request' = [request EXCEPT ![s] = [op |-> op, arg |-> arg,
                                          timeline |-> timeline, project |-> project]]
    /\ UNCHANGED <<timeline, project, overwritten>>

StartStep(s) == \E k \in Keys : \/ CanComplete(timeline, k) /\ Start(s, "complete", k)
                                \/ CanReopen(timeline, k) /\ Start(s, "reopen", k)
StartMode(s) == \E m \in Modes : CanChoose(timeline, m) /\ Start(s, "mode", m)

\* Every change answers with get_project_timeline.
Commit(s) ==
    /\ request[s].op \in {"complete", "reopen", "mode"}
    /\ LET r == request[s] IN
        /\ \/ /\ r.op = "complete"
              /\ WriteTimeline(r.timeline, CompletedTimeline(r.timeline, r.arg))
              /\ WriteProject(r.project, CompletedProject(r.project, r.arg))
           \/ /\ r.op = "reopen"
              /\ WriteTimeline(r.timeline, ReopenedTimeline(r.timeline, r.arg))
              /\ WriteProject(r.project, ReopenedProject(r.project))
           \/ /\ r.op = "mode"
              /\ WriteTimeline(r.timeline, ChosenTimeline(r.timeline, r.arg))
              /\ WriteProject(r.project, ChosenProject(r.timeline, r.project, r.arg))
        /\ Note(r)
    /\ request' = [request EXCEPT ![s] = [op |-> "answer"]]

\* Mutant: what was merged for the answer is not stored.
ViewUnstored == UNCHANGED <<timeline, project, overwritten>>

\* get_project_timeline: reading stores the merged steps.
View == /\ timeline' = Merged(timeline)
        /\ UNCHANGED <<project, overwritten>>
ShowAnswer(s) == /\ request[s].op = "answer" /\ View
                 /\ request' = [request EXCEPT ![s] = Idle]
Read == /\ View /\ timeline' # timeline /\ UNCHANGED request

\* upsert_customer_loan (finance_service.py) writes the project past its timeline.
SaveLoan == \E l \in LoanStatuses : /\ project' = [project EXCEPT !.mode = "loan", !.loan = l]
                                    /\ UNCHANGED <<timeline, request, overwritten>>

TimelineNext ==
    \/ \E s \in Administrators : StartStep(s) \/ StartMode(s) \/ Commit(s) \/ ShowAnswer(s)
    \/ Read \/ SaveLoan

----------------------------------------------------------------------------
(* What is shown. *)

\* The percentage of completed steps; Python rounds halves to the even number.
ShownProgress(t) ==
    LET n == Cardinality(Definition(t.mode))
        done == 100 * Cardinality({k \in DOMAIN t.steps : t.steps[k] = "completed"})
        rest == done % n
    IN done \div n + (IF 2 * rest > n \/ (2 * rest = n /\ (done \div n) % 2 = 1) THEN 1 ELSE 0)

\* get_summary of the dashboard: what the project counts for.
PendingLoans == {"draft", "applied", "documents_pending", "submitted_to_bank",
                 "under_review", "conditionally_approved"}
Dashboard ==
    IF project.status = "completed" THEN {"completed_projects"}
    ELSE {"active_projects"}
         \cup (IF project.documents = "approved" THEN {} ELSE {"pending_documents"})
         \cup (IF project.mode = "loan" /\ project.loan \in PendingLoans
               THEN {"loan_approvals_pending"} ELSE {})
         \cup (IF timeline.current = "material_arrival" THEN {"material_arrivals_pending"} ELSE {})
         \cup (IF timeline.current = "installation" THEN {"installations_in_progress"} ELSE {})
         \cup (IF "dcr_upload" \in project.reached THEN {} ELSE {"dcr_pending"})
         \cup (IF "subsidy" \in project.reached THEN {} ELSE {"subsidy_pending"})

----------------------------------------------------------------------------

Undisturbed == ~overwritten /\ \A s \in Sessions : request[s].op # "answer"
Complete(t, k) == k \in DOMAIN Merged(t).steps /\ Status(t, k) = "completed"

\* As long as no request has overwritten rows it had not read: the steps are
\* completed in their order, the payment step only with a mode, the columns of
\* the project say so of every completed step, and the project is completed
\* exactly when all of its steps are.
TimelineAgrees ==
    ~overwritten =>
        LET t == Merged(timeline)
            steps == Definition(t.mode)
        IN /\ \A j, k \in steps : Rank[j] < Rank[k] /\ Complete(t, k) => Complete(t, j)
           /\ Complete(t, "payment_mode") <=> t.mode # NoMode
                                              /\ Status(t, "documents_approved") = "completed"
                                              /\ t.current # "final_registration"
           /\ \A k \in Milestones : Complete(t, k) => k \in project.reached
           /\ Complete(t, "documents_approved") => project.documents = "approved"
           /\ project.status = "completed" <=> \A k \in steps : Complete(t, k)

\* Between requests the stored row is what its next reader makes of it: the
\* dashboard and the customer's page, which take it as it is, show the step the
\* timeline shows.
ReadersAgree ==
    Undisturbed /\ DOMAIN timeline.steps # {} =>
        /\ timeline = Merged(timeline)
        /\ "completed_projects" \in Dashboard <=> ShownProgress(timeline) = 100
================================================================================
