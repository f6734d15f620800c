# Solar ERP: specification, model checking and proofs

Solar ERP is the back office of a solar installer: a FastAPI service over
PostgreSQL (`src/backend/app`) and a single-page client (`src/frontend`). Every
state change is an HTTP request that runs a service function in one database
session and, with two exceptions (stored files and idempotency records), in one
transaction. There is no queue and no background worker: what is hard is what
happens when such requests interleave, fail or are repeated, and what long
sequences of legal requests leave behind.

## The system

| component | state | operations | interactions | hard behaviour | what makes it correct |
|---|---|---|---|---|---|
| finance ledger (`services/finance_service.py`) | transactions, bills, bill payments, company loans, accounts | create, pay, transfer, reverse, delete, void, take, repay and edit loans; reports | bills and loans keep totals of ledger rows; activity re-opens customers | lost updates on unlocked reads; lock orders that differ; reversals of reversals; reports with queries of their own | every effect is undone exactly once; columns never contradict each other; transfers are whole; reports tell one story |
| inventory (`services/operations_service.py`) | items, balances, movements | create an item, post one movement or a note, reverse, correct | movements re-open customers | rows that do not exist cannot be locked; opposite lock orders; all-or-nothing notes | serializable; never below zero; stock is what the movements say |
| customer lifecycle (`services/customer_lifecycle_service.py`) | the customer's status and its time stamps | complete, reactivate, archive, delete, restore, purge | counts projects, bills, requests; called by finance, inventory, workflow | stale objects survive `FOR UPDATE` | no activity on deleted customers; history keeps its owner |
| quotation workflow (`services/workflow_service.py`) | requests, quotations, projects | request, quote, decide | writes the customer's status and balance; creates projects | everything is unlocked | a project stands for one approved quotation |
| customer details (`services/customer_flow_service.py`) | none of its own | edit form, directory, customer page | reads all of the above | lists of statuses kept in several places | every screen shows one customer |
| project timeline (`services/workflow_service.py`) | the steps of a project, as JSON, beside columns of the project | payment mode, complete, reopen, synchronize from documents | sets `project.status` | unlocked read-modify-write of one text; every reader repairs it | steps in order; columns and steps agree |
| document packs (`services/operations_service.py`) | numbered versions | draft, generate, finalize, list | move the timeline | next number read without a lock | only the latest is a draft; final stays final |
| agent ledger (`services/agent_service.py`) | transactions of agents, their approvals, corrections | submit, post, edit, delete, decide, correct a customer | decided in the workflow | decisions and edits unlocked | decided once; three balances agree |
| tasks (`services/tasks_service.py`) | tasks and assignments | create, edit, reassign, advance, delete | hidden with their customer | stale screens; five operations on one row | nobody changes what he has not seen |
| authentication (`services/auth_service.py`) | sessions, token hashes | log in, refresh, log out, revoke | resets revoke; browsers retry | rotation with a grace period; login races reset | a lost answer signs nobody out; a reset ends sessions |
| administration (`services/admin_service.py`) | users, memberships, roles | create, update, reset, roles | revokes sessions | count of super administrators | one always remains |
| files (`services/file_service.py`, `storage.py`) | rows and blobs | upload, replace, delete | bills and posters point to files | two stores, one transaction; crashes; a storage that refuses | no row without its blob, nothing left behind |
| retries (`core/middleware.py`) | idempotency records | claim, replay, take over, complete, clean up | wraps every request with a key | three transactions per request; crashes; timeouts | a repeated request takes effect once |
| rate limits (`core/rate_limit.py`) | buckets and windows in memory | check, clear | middleware | eviction at the limit | limits hold per key |
| dashboard, notifications, health check, audit | none that decides anything | queries, append-only audit | read all of the above | conditions written a second time | counts agree with what they count |
| HTTP layer, schema, scripts, client | none that decides anything, but the client's session | | | | |

### The database the models assume

`db/session.py` opens sessions with `autoflush=False` and
`expire_on_commit=False` on PostgreSQL's default isolation, READ COMMITTED. Four
consequences are built into the actions of all modules:

* A read without `FOR UPDATE` may be stale when its value is written. The models
  split such a request into a step that reads and a step that commits, and keep
  what was read in the request's record.
* `FOR UPDATE` waits for the row's lock, then sees the committed row. But an
  object the session has already loaded is not refreshed by it, and the code
  then goes on with the old values.
* A commit writes only the columns whose assigned value differs from the loaded
  one (operator `Saved` of `CustomerWorkflow`).
* A cycle of waiting sessions is broken by the database, which aborts one of
  them; a request that fails or is refused rolls back everything.

## Modules

| module | what it is |
|---|---|
| `FinanceLedger` | transactions, bills, payments, transfers and loans, with the row locks of every request |
| `FinanceReports` | what the finance pages compute from it, each by a query of its own |
| `StockEffects` | what a movement, a reversal and a correction do to balances: pure operators shared by the next two |
| `StockBook` | abstract specification of the inventory: one request after another, each at once |
| `Inventory` | the inventory as the code runs it, row lock by row lock; implements `StockBook` |
| `CustomerStanding` | abstract specification of what the lifecycle promises |
| `CustomerWorkflow` | lifecycle, quotations, projects and edits of one customer; implements `CustomerStanding` when requests do not overlap |
| `CustomerDirectory` | where that customer can be found: directory, customer page, agent page, dashboard, notifications, health check |
| `AgentLedger` | transactions of agents, the decisions on them, statements and balances |
| `Tasks` | tasks, assignments and the members' screens |
| `Accounts` | users, memberships and roles, with their administration |
| `AuthSession` | sessions and browsers, composed with `Accounts` |
| `ProjectTimeline` | the steps of one project and the columns beside them |
| `DocumentPack` | the versions of the document pack, composed with `ProjectTimeline` |
| `FileStore` | rows and blobs of stored files, with crashes and refusals of the storage |
| `Idempotency` | idempotency records, with retries, crashes and timeouts |
| `...Proofs` | theorems about `FinanceLedger`, `Inventory`, `CustomerWorkflow` with `CustomerDirectory`, `Tasks` with `ProjectTimeline` and `DocumentPack` (in `ProjectWorkProofs`), `AgentLedger`, `AuthSession`, `FileStore` and `Idempotency` |
| `MC...` | the small instances of each for TLC |

Definitions named in a comment `Mutant` are deliberate faults: they replace the
definition that follows to make sure that the properties can fail.

### FinanceLedger and FinanceReports

State: `tx` (ledger rows, `Missing` where the identifier is free), `bill`, `loan`,
`req` (what each session is doing) and `locks` (the rows it holds). Bill payments
are the original rows whose source is `bill_payment`; transfers are two rows with
one `group`.

* Requests that read without locks take `Start...` (`seen` keeps what was read) and
  `Commit...`: `record_bill_payment`, `pay_company_loan`, `transfer_accounts`. For
  these the code subtracts from what it has read, so updates can be lost.
* Requests that lock (`reverse_transaction`, `delete_transaction`,
  `reverse_bill_payment`, `void_bill`, `update_company_loan`) take `StartLocking`,
  then `Lock` row by row in the order of the code (`GuardStages`), `Check` what they
  have read, `Lock` what their effects touch (`EffectStages`), and commit or are
  refused.
* `create_transaction`, `create_bill`, `create_company_loan` only insert: one step.
* `BreakDeadlock` aborts one session of a minimal cycle of waiting ones.

The guard `Operations` chooses which endpoints an instance exercises; together
the runs exercise all of them, and `ledger_sequential` all at once. `FinanceReports`
has no state: `list_accounts`, `finance_kpis`, the overview, the profitability and
the filtered bills are operators with the conditions of their queries.

### Inventory

State: `balance` (`Absent` where there is no row), `movement`, `item`, `req`. A
request works through its movements one by one, locking source and destination
(`LockBalance`), skipping rows it already holds (`SkipBalance`), inserting rows that
do not exist (`MissBalance`, `InsertBalance`; `DuplicateBalance` is the unique
constraint), then applying the effect to its own `view`, which `Commit` writes. The
refinement maps the balances to the stock of `StockBook` (a missing row is a
stock of zero); only `Commit` and `CreateItem` change it.

### CustomerWorkflow and CustomerDirectory

State: one customer (all that relates two customers is left out), its `deals` (a
request with its quotation and its project: at most one of each, by unique
constraints), its bills as the lifecycle sees them, and `req`. Lifecycle operations
lock the customer's row first, and the rows they count are inserted under foreign
keys that wait for this lock, so each is one step. The workflow and the edit form
load first (`Load`) and commit later (`Commit`). The balance owed is only ever set
by an approval: nothing in the code reduces it, so a customer with a priced project
is only completed by force, and the instances include quotations of zero.
`CustomerDirectory` adds what each screen selects, with the list of statuses it keeps.

### AgentLedger

State: `entry` and `approval` (the two rows of each transaction), `hidden` (projects
whose customer is deleted), `edits` and `req`. What an agent submits waits for a
decision, what a manager enters does not. `Start...` reads a row and judges its
approval; `Commit...` writes the columns that differ from what was read, so two edits of
a pending row merge column by column, as in the database. `StartCorrect` and
`CommitCorrect` are `update_agent_customer`, with its search and its unique constraint.
Statement, pages, overview, list and approval center are operators with the
filters of their queries. The statement is a set of lines, each with its place in the
order of the query and the running balance up to it; a page takes places by offset and
limit. The three balances add up the same `PostedDelta` (the signed amount of an approved
row, nothing of any other) over different selections, like the `case` of their queries.

### Tasks

State: `task` (each row with its assignments), `active` members, `visible` (the
customer some tasks are about), `now`, and `shown`: what each member's client shows.
The code locks the row first, so every operation is one step; a member acts on what
he is shown and sends its version. `Advance` accepts status and percentage together
or apart, as the form does. `Overall` is the status on the card, `Selected` the
condition of the filter, and badge and numbers have conditions of their own.

### Accounts and AuthSession

`Accounts`: users with role, flag, activity and a counter for the password; roles with
permissions; a request of an administrator that edits a user reads it, judges it, and
commits the columns that differ. Two histories say what a commit relied on: `counted`, the
super administrators the request had counted, and `outdated`, whether a commit has ever
found its row changed or a counted administrator gone. `AuthSession` adds the rows of `auth_sessions` with
the current and the previous token, and browsers: a login verifies the password
(`Verify`) and inserts its session later (`LogIn`); a refresh is one step under the
lock of the session, but its answer may be lost (`Refresh`); `GraceEnds` and `Expire` are
the clock. Tokens are numbered per session, their hashes are left out.

### ProjectTimeline and DocumentPack

State: the stored text (`mode`, `current`, the status of every step), the columns of
`customer_projects` it is kept beside, and `request`. `Rank` orders all steps there are,
`Definition` selects those a payment mode calls for. `Merged` is what every reader
makes of the text: of these steps the completed ones (`Done`, with the repair of old
confirmations) and the first open step as the current one; `Read` also writes it back.
`overwritten` is the history of lost updates. `StartStep`,
`StartMode` and `Commit` are the requests of an administrator, `SaveLoan` is
`upsert_customer_loan`. `DocumentPack` adds the versions: `StartSave` reads the latest,
`CommitSave` writes it or inserts the next, `StartFinalize`/`CommitFinalize` alike, and each
of them, and `List`, moves the document steps forward (`Sync`).

### FileStore

State: rows (`file`, the `bill`'s reference, `poster`s), objects (`blob`, `staged`), what each
request is doing, and three history variables that say which files a crash or the
storage left half done (`interrupted`), which were removed by two requests at once
(`contested`), and whether an attachment was replaced by one who had read another
(`overlapped`). An upload is `Put`, `ReadBill`, `CommitUpload`, `DropReplaced`; a
deletion is `Stage` (a rename in a directory, a copy followed by `StageOriginal` in a
bucket), `ReadReferences`, `CommitDelete`, `Finalize`; `FailUpload`, `FailDelete` and
`Restore` are what happens when a step fails, `Crash` may end a request anywhere.

### Idempotency

State: `record` (the row of each key), `request`, and history: what has taken
`effect`, what was `told`, which keys a crash left, and for which a second effect is
possible (`excused`). A request reads the row (`Read`: free, replayed, refused, or
abandoned), inserts or takes over its claim (`Claim`), runs (`Run`, which commits the
effect or fails), and stores or releases (`Finish`). `Age` is the clock: past the
processing timeout, then past the time to live.

## Runs

Every run explores its whole bounded state space; all of them pass.

| run | instance | question |
|---|---|---|
| `ledger_records` | two sessions, one bill, one loan, four rows | on stale reads: types, reversed at most once, columns of the bill agree, never more outstanding than borrowed, history kept |
| `ledger_transfers` | two sessions, two accounts, one bill, four rows | locking in opposite orders: no money appears or disappears, every request is answered |
| `ledger_sequential` | all endpoints, one request at a time | bills and loans agree with the rows behind them, the reports with the accounts, the bills and each other |
| `inventory` | two sessions, one item at two places, five movements | serializable (refinement of `StockBook`), never negative, stock matches movements, every request answered |
| `customer_sequential` | one session, two requests, no forced completion | screens agree, projects stand for approved quotations, completion is settled, no activity when deleted, implements `CustomerStanding` |
| `customer_concurrent` | two sessions on stale reads, forced completions | history keeps its owner, projects stand |
| `agents` | two sessions, two agents, two transactions | balances and pages agree, a customer is corrected once, what is finalized stays unless overlapped |
| `tasks` | a manager and a member on stale screens, three versions | progress matches status, cards, filters and counts agree, nothing unseen is changed |
| `accounts` | two administrators, one browser, two sessions | an administrator remains and flags agree with roles unless an outdated update commits, one lost answer is tolerated, a reset ends sessions |
| `projects` | an administrator and two clerks, six steps, two versions | steps and columns agree, stored and merged timeline agree, only the latest version is a draft, final stays unless overlapped |
| `files` | two requests, three names, directory and bucket | rows have blobs, nothing left behind, the attachment can be reached |
| `retries` | three requests, one key, two payloads, four claims | at most one effect, success is told of one's own data, only crashes block a key |

The properties of the two sequential runs are what two overlapping requests can
break in this code, for the one reason that the bill, the loan, the quotation and the
customer are read without a lock: they fail as soon as the same instance gets a second session. The runs with two
sessions check what survives even that. Where a property excuses something
(`FinalizedUnlessOverlapped`, `FinalUnlessOverlapped`, `AtMostOnce`, `NothingLeftBehind`,
`AttachmentReachable`, `RemainsUnlessOutdated`, `TimelineAgrees` up to the first lost update), the excuse is a
state or a history variable that names the exact overlap, crash or refusal, and the
run reaches both sides of it.

The type invariants that no run lists are those of the modules whose `TypeCorrect` is
proved (`AgentLedger`, `Tasks`, `CustomerWorkflow`, `AuthSession`, `FileStore`,
`Idempotency`; `PacksTypeCorrect` for `DocumentPack`).

### Known deviations

What the models show of the code where a message, a comment or a screen of the
repository expects something else. The properties above are stated so that they
hold beside these.

* Two payments of one bill, or of a bill and its void, that overlap may exceed the bill
  or be lost on it (`finance_service.py:1164`, the refusal is at line 1167); the check of
  the source balance of a transfer is not protected either (line 839).
* Deleting a transaction whose reversal was reversed leaves the second reversal in the
  books (line 792, the docstring at 760). Reversing the reversal of a bill payment puts the
  money in the account but not on the bill (`PaidBehindTheBill` in `ReportsAgree`).
* An adjustment sets a balance; reversing an older movement then subtracts what the count
  had already corrected (`operations_service.py:742`; `StockMatchesMovements` leaves slots
  that were counted out).
* Items, locations and posters compare a version without a lock: of two edits both may
  be accepted (`operations_service.py:1331`).
* A rejected request can be quoted again after a new one was opened, which leaves two
  open requests (`workflow_service.py:166`). Approving a quotation of an archived
  customer re-opens him past the lifecycle (line 256); a request can be created for a
  customer deleted while it was under way (line 114); an edit that overlaps a deletion leaves
  status and tombstone apart.
* Completion and health check count six statuses of a project as open, but not
  `in_progress`, the one the timeline writes (`customer_lifecycle_service.py:42`,
  `data_health_service.py:88`).
* A customer whose quotation was declined has a status that no list and no filter of
  the directory knows, only "all" (`customer_flow_service.py:61`). The compact customer page
  shows no project as soon as a newer request exists (limit of one request).
* Two administrators at once can take the role of each other, or two edits of one user set
  role and flag apart (`admin_service.py:159`). With two requests in `Admins`,
  `AdministratorRemains` alone fails; `RemainsUnlessOutdated` says that nothing else breaks it.
* A login that rehashes a password writes it over a reset that came in between
  (`auth_service.py:98`; the rehash is not in the model).
* Timeline: reopening a step never resets the status column it set; `upsert_customer_loan`
  sets a payment mode the timeline did not choose; after an earlier step was reopened the
  repair may complete the payment step; listing the packs completes document steps that an
  administrator has reopened (`operations_service.py:1234`).
* Two edits of a pending agent transaction merge by column (`agent_service.py:876`). The
  address of a new customer is compared without lower-casing it (line 647).
* A task about a customer that is deleted meanwhile is created although the answer is 404.
* Notifications count bills with status `partial`, while finance writes `partially_paid`
  (`notifications_service.py:101`, `finance_service.py:604`).
* A rate-limit bucket that is evicted at the limit of the map returns full
  (`rate_limit.py:80`). The fingerprint of a multipart request is its type and length only
  (`middleware.py`), so two uploads of equal length under one key count as the same request.

### Bounds

* Two sessions: every race here is between two requests that share a row, and
  the lock cycles of the code have length two. Interchangeable sessions, accounts,
  clerks, keys and payloads are declared symmetric where only safety is checked.
* `MaxTx` 4 ledger rows: a payment with its reversal and a second payment with its
  own take four, as do a loan, two repayments and one reversal, and a transfer with its
  reversal. Amounts of 1 against totals of 2 tell part payment, full payment and
  overpayment apart.
* `MaxMovements` 5 rows: an opening, a two-line note and a correction (two rows), or
  a movement corrected twice.
* `MaxDeals` 2 with one session, 1 with two: two requests are needed for the rule on
  open requests, one for every race on its quotation. Totals 0 and 1, or 1 and 2, tell
  apart what an edit or the balance owed can tell apart.
* `agents`: two transactions, one of them about a project that can be hidden, and a page
  of one line, so that there are two pages.
* `tasks`: one task; three versions let a screen be two changes behind; percentages 0, 50
  and 100 stand for the three statuses that follow from one.
* `accounts`: `MaxSessions` 2, `MaxToken` 3 (two rotations, the second of which forgets the
  first token), `MaxPassword` 1 reset per user, two users and one role that may be created
  with or without the permission. Two users are what it takes to remove each
  other. `Bounded` has two requests of administrators under way only before the first login and
  reset; after it one, and none while there is a custom role: sessions depend on the administration
  only through who exists, is active and may reset a password. It ends at the first outdated commit,
  behind which `RemainsUnlessOutdated` claims nothing.
* `projects`: the steps of the loan branch with one milestone (`final_registration`); two versions of
  the pack. `Bounded` (`~overwritten`) stops after the first lost update: behind it
  `TimelineAgrees` and `ReadersAgree` claim nothing.
* `files`: three names, so that an attachment, its replacement and a poster's file exist
  together; `Bounded` lets at most one file suffer from crashes, refusals or overlaps, which
  keeps the excuses of one file from covering another.
* `retries`: four claims let an abandoned claim be taken over twice, or expire and be
  repeated.

`CHECK_DEADLOCK FALSE` appears where the system may stop for a bound or for good: tables of
movements, transactions, sessions, names, versions and claims that are full, a task whose
versions are used up, a customer that has been purged.

### Fairness

`LiveSpec` of `FinanceLedger` and of `Inventory` assumes strong fairness of each
request's own steps (the server runs the request on its thread pool, and
PostgreSQL serves the waiters of a row in order of arrival) and weak fairness of
the deadlock detector, which runs after a timeout. It assumes nothing of new
requests. Statement and idle timeouts are rollbacks and may always happen. The other
modules make no progress claim: their requests never wait for each other.

## Proofs

Each theorem holds for every value of the constants of its module, under the named
assumptions in that module alone (sizes are natural numbers, amounts are positive, the
founder is a user, and the like); TLC evaluates them in every run.

None of the invariants is inductive alone. Each module states its `Inductive` invariant,
one lemma per action that preserves it, and before those what the types say of a record
and what the operators of the model return. `AlwaysInductive` puts them together.

| module | theorems | what the inductive invariant adds, and why |
|---|---|---|
| `FinanceLedgerProofs` | `TypeCorrect`, `BillColumnsAlwaysAgree`, `LoanAlwaysWithinPrincipal`, `AlwaysReversedOnce`, `HistoryAlwaysKept`, `TransfersAlwaysConserveMoney`; on fresh commits `OnlyStaleReadsUnmatchBills`, `OnlyStaleReadsUnmatchLoans`, `OnlyStaleReadsSplitReports`; with one session `BillsMatchOneAtATime`, `LoansMatchOneAtATime`, `ReportsAgreeOneAtATime` | `RequestSound`: what a request has seen is still true as far as it matters. `ReferencesResolve`: a row names a bill or a loan that exists. `Books`: exclusion of locks and what it protects. `Matched`: columns are sums over rows. `Filed`: rows are what the queries of the reports take them for. See below. |
| `InventoryProofs` | `TypeCorrect`, `RequestsAreSerializable` (refinement of `StockBook`), `StockAlwaysMatchesMovements` | `Sound`: what each stage of a request says of its progress, and `Trail`. `Exclusive`, `KnownItems`, `Inserting`. See below. |
| `CustomerWorkflowProofs` | `TypeCorrect`, `HistoryAlwaysHasOwner`, `ProjectsAlwaysStand`; on fresh commits `OnlyStaleReadsUnapproveProjects`, `OnlyStaleReadsSplitScreens`, `CompletedAlwaysSettled`, `OnlyStaleReadsServeTheDeleted`, `WorkflowImplementsStanding` (refinement of `CustomerStanding`); `OneAtATimeIsFresh` | `DealIsThere`: who quotes or decides does so for a request that has not been removed. `Stands` is what every step does to a project, stale columns included. `Consistent`: which statuses of customer, request, quotation and project occur together. |
| `ProjectWorkProofs`, about `Tasks` | `TypeCorrect`, `ProgressAlwaysMatches`, `NothingUnseenIsEverChanged`, `CardsFiltersAndCountsAlwaysAgree` | `ShownIsOlder`: a screen with the row's version shows the row, because versions only grow. `SomebodyIsAssigned`: the status on the card is that of at least one assignment. |
| the same, about `DocumentPack` | `OnlyLatestIsEverDraft`, `FinalUnlessSavedOver` | `Packed`: only the last version is a draft, and a save edits what it read as a draft or begins the version after one that was generated, unless another request has begun that one already. Then the unique constraint on the number refuses it. |
| the same, about `ProjectTimeline` under `DocumentPack` | `PacksTypeCorrect`, `TimelineAlwaysAgrees`, `ReadersAlwaysAgree` | `Tended`: `Stored`, the row is a merged one; `Columns`, the project says what its completed steps say; `Repaired`, or somebody is about to answer with the repair; `Knowing`, a change was allowed on what it read. See below. |
| `AgentLedgerProofs` | `TypeCorrect`, `StatementsAlwaysAgree`, `AlwaysCorrectedOnce`, `AlwaysFinalizedUnlessOverlapped` | `LetInPending`: who works on a transaction had judged it pending. `OneRowOneCorrection`: the row under the unique constraint stands for the one correction. The statement needs the types alone, see below. |
| `AuthSessionProofs` | `TypeCorrect`, `LostAnswerAlwaysTolerated`, `ResetAlwaysEndsSessions`, `OnlyOutdatedUpdatesRemoveTheLast`, `AdministratorRemainsAlone` | `OwnersExist`, `TargetsExist`; `OwnSession`: nobody else has the session a browser works with; `TokenKnown`: what a browser holds after no or one lost answer. `Justified`: what a request has judged follows from what it read, and for an administrator it takes away it had counted another one (`Judged`). The last theorem assumes that `Admins` has at most one element: then nothing it read is ever outdated (`UpToDate`). |
| `FileStoreProofs` | `TypeCorrect`, `RowsAlwaysHaveBlobs`, `NothingEverLeftBehind`, `AttachmentAlwaysReachable` | `Fresh`: nobody knows the name of what is being uploaded. `TwoRemove`: two requests remove one file only where that was noticed. `Gone`, `Kept`, `BlobAway`, `OwnStaged`: what each stage of a deletion says of row, blob and staged object. `BlobOrRestorer`: a row without its blob has a request that can put it back. |
| `IdempotencyProofs` | `TypeCorrect`, `AtMostOnceAlways`, `SuccessAlwaysOwn`, `OnlyCrashesEverBlock` | `IdsFresh`, `OwnRow`, `OldRow`: identifiers of claims are never given twice, so a request can only complete its own claim and a take-over only deletes the row it found. `GivenUp`, `Expired`, `Lost`: where no second effect is possible, nobody works without his claim. `OneEffect`, `EffectBehind`: the one effect is recorded, or about to be. |

Action properties (`HistoryKept`, `ProjectsStand`, `NothingUnseenIsChanged`,
`FinalizedUnlessOverlapped`, `FinalUnlessOverlapped`) and the two refinements follow
from the invariant by one more lemma per action.

### The ledger

`Grows` (rows are only added or keep everything but their status) carries
`RequestSound` and `ReferencesResolve` over every step at once: totals never change and
at most the seen balance is paid, so a lost update cannot break the columns of one
bill. `WithoutPaymentAgrees` and `WithoutRepaymentAgrees` say that undoing a payment keeps
columns in agreement, clamps included.

`Books` adds four parts. `Exclusion`: no row is locked twice. `CheckedHeld`: a request
past `Check` holds what it checked, and what it checked is still so; another session
would need the lock to change it. `OneReversal`: a row has at most one reversal, has it
exactly when its status says so, and is not posted then. `WholeTransfers`: a row with a
group has its other leg, with the same amount, the other direction and a status that
moves with it. All commits are of one shape, `Rewrites(W, status)`: the rows of `W` become reversed
or deleted, all other rows stay, and a new row reverses a posted row of `W` or none. One lemma per
commit says so, `RewritesKeepsBooks` does the rest for all of them.

`BillMatchesPayments` and `LoanMatchesRepayments` are not true of overlapping requests. The
theorem states what breaks them: `FreshCommits` says of a step that a payment or
repayment is not computed from a bill or a loan that has changed since it was read, and
`Spec /\ FreshCommits` implies the agreement for any number of sessions. `OneAtATime` then
shows that one session never commits anything stale.

`ReportsAgree` compares sums that select different rows: per account, over all accounts, over
payments and other rows, over bills. It follows from `Matched` and `Filed`. `Filed` says what
ties the rows together: a payment has the direction of its bill's kind, a reversal
mirrors its original, both count or neither does (as long as no reversal of a payment
was reversed), and a cancelled bill is marked void. Then the rows of a payment and of its
reversal cancel, what remains is the sum of the payments in force of each bill, and that is
the paid column. `LedgerMoves` and `BillsMove` say of every step the little that `Filed`
needs to know: rows are undone with their reversals, the rest of a chain is deleted, or rows
are entered. Accounts and bills are assumed to be finite sets.

### The inventory

A request applies effects to its own `view` while others change the balances, so the
view alone says nothing of the present. `Trail` does: the effects applied so far are
allowed on *every* stock that has today's levels in the slots the request has locked,
and lead from it to the view in these slots and to what was there in all others. A
commit of somebody else leaves the locked slots alone by `Exclusive`; `Inserting` says that a
row about to be inserted is not held yet, `KnownItems` that balances and movements are of
items that exist. At `Commit` the trail is the whole list, its intermediate stocks are the
`Levels` of `StockBook`, and the step is one of its steps; every other step is a stutter.
`StockMatchesMovements` is proved of the abstract effects: each changes the sum of the movements in
force of a slot by what it adds to the stock.

### Fresh commits of the workflow

`ProjectsAreApproved`, `ScreensAgree`, `CompletedIsSettled`, `NoActivityWhenDeleted` and the
refinement of `CustomerStanding` hold as long as no `Commit` writes over a customer or a deal
that has changed since its `Load` (`FreshCommits` of that module); then a commit is one atomic move
made now, and `Rules` lists those moves. `OneAtATimeIsFresh` discharges the assumption for one
session, where the five theorems hold of every behaviour. `CompletedAlwaysSettled` assumes
`~MayForce` besides: forcing is the administrator's way past the very rule.

### The timeline

In the order of `Rank` the completed steps of a timeline are a beginning of its definition
(`InOrder`), so a row that was merged is given by its mode and its completed steps (`Laid`). The
lemmas say for each operation what it makes of these: completing the current step adds the first
open one, reopening a step takes back all that follow, the documents complete steps up to a
rank, choosing a mode exchanges a branch that was not entered. Merging repairs at most the payment step, and
merging what was merged changes nothing; that is why page, list and dashboard can each take
the row as they like. `Columns` then follows step by step for the columns of the project:
every step the timeline completes has set its column, and nothing resets one. A commit that
overwrites nothing works on the rows of that moment, so `Knowing` is true of them. The theorems
hold for every selection of steps that contains the five that the operations name.

### The statement of an agent

A line's place is the number of lines before it, the order of the query is total, so places
are exactly the numbers below the number of lines (`PlacesOfLines`). The line at place 0 has
every other line before it in time, so its running balance is the sum over all; and the lists of the
other two queries differ from that only in rows for which `PostedDelta` is nothing. A place
is on one page (`PageOfPlace`), and a page of places is mapped one to one to its lines, which
counts them. Places are found by minimal counterexample, as sums are.

### Concurrent administrators

An update that finds its row as it was loaded, and everybody it had counted still there,
changes nobody else: whoever it takes away leaves the one it had counted beside him, and the flag it
writes belongs to the role it writes. All other requests only add users or leave role, flag and
activity alone (`RanksStay`).

### Sums

Sums over sets of rows are folds. What is needed of them (the empty sum, one more element,
equal summands, the difference of two sums, summands that are nothing) is proved by minimal counterexample:
strict inclusion of finite sets is well founded (`FS_StrictSubsetOrderingWellFounded`), so a
set for which a statement about sums fails has a least failing subset, one element less.
Statements about sequences use the least natural number in the same way. The few lemmas are
repeated in the modules that need them.

### What the proofs changed in the model

`SiteStatus` of `CustomerDirectory` was a CASE with overlapping guards, whose value is
not defined for two of its states; it is now the chain of conditions of `_site_summary`.
`TimelineAssumption` states that administrators are sessions. `Levels` of `StockBook` is a
recursive function, so that it can be reasoned about. The steps of `ProjectTimeline` are ranked sets
instead of sequences built by folds, and `TimelineAssumption` names the steps without which its
operations make no sense. The statement of `AgentLedger` is a set of lines with places instead of a
sorted sequence, closer to the window functions and the offset of the query. `Accounts` has the
histories `counted` and `outdated`: the agreement of `AdministratorRemains` among concurrent
requests could not be stated without them.

### Model-checked only

`EveryRequestEnds` of `FinanceLedger` and of `Inventory` needs fairness and `ENABLED`, which the
prover does not handle; it is the only property of the runs that no theorem states. The theorems
on fresh commits, and those up to the first stale one, do not say what is left after it; the runs
with two sessions check what survives.

## Plan

Done: the ledger with its reports, the inventory with its refinement, lifecycle and
workflow with their screens, agents, tasks, accounts with sessions, timeline with packs,
files, retries; and the theorems above.

Every invariant and action property of the runs is proved. Left, most important first:

1. The timeline composed with `CustomerWorkflow` through `project.status`, so that the completion of a
   customer is judged by projects that move.
2. What a stale commit leaves behind: the weakest statement about bills, loans and timelines that
   holds after one.
3. `RateLimit`: token buckets against a reference definition, login windows, eviction.

## Not modelled

* Rate limits and login limits: what they promise is a rate over real time, and no other
  state depends on them.
* Versions of pricing, posters, templates, items and locations: one comparison without
  a lock per edit, see the deviations. Of posters only what ties them to files is modelled.
* Edits of descriptions and dates of transactions and bills, accounts and categories.
* Of notifications and the health check, the counts of finance and documents; exports,
  search and paging other than an agent's statement; the audit, which is only written.
* Migrations, seeding, scripts and deployment, which are not part of the running program;
  routing and schemas beyond what they refuse; the client beyond its session.

Within the modelled components, descriptions, names, dates and visibility filters by
agent are left out unless a property is about them; amounts are whole units instead of two
decimals, which the code keeps exact with `Decimal`.
