------------------------------ MODULE Idempotency ------------------------------
(***************************************************************************)
(* Requests that carry an Idempotency-Key (core/middleware.py).  A request *)
(* claims its key with a row of idempotency_records, runs, and stores its  *)
(* answer in that row, each in a transaction of its own; a retry with the  *)
(* same key is answered from the row.  A claim that has been processing    *)
(* for longer than the timeout is given up for lost and taken over.        *)
(***************************************************************************)
EXTENDS Naturals, FiniteSets, Sequences

CONSTANTS Keys,        \* keys of one member, method and path
          Data,        \* what is sent with a key: its fingerprint
          Requests,    \* requests the server is working on
          MaxRecords   \* bound: claims

ASSUME IdempotencyAssumption == MaxRecords \in Nat

VARIABLES record,     \* idempotency_records, by key
          inserted,   \* claims so far: the next identifier
          request,    \* what the server does for every request
          effect,     \* history: the data that took effect, by key
          told,       \* history: what a client was told had succeeded
          crashed,    \* history: keys whose request ended without releasing its claim
          excused     \* history: keys for which a second effect is possible

vars == <<record, inserted, request, effect, told, crashed, excused>>
history == <<effect, told, crashed, excused>>

NoRecord == [id |-> 0]
\* age: 1 past idempotency_processing_timeout_seconds, 2 past idempotency_ttl_hours.
Record == [id: 1..MaxRecords, data: Data, status: {"processing", "completed"}, age: 0..2]
Idle == [at |-> "idle"]
Request == [at: {"claiming"}, key: Keys, data: Data, old: Record \cup {NoRecord}]
           \cup [at: {"running"}, key: Keys, data: Data, id: 1..MaxRecords]
           \cup [at: {"ran"}, key: Keys, data: Data, id: 1..MaxRecords,
                 answer: {"ok", "large", "failed"}]

TypeOK == /\ record \in [Keys -> Record \cup {NoRecord}]
          /\ inserted \in 0..MaxRecords
          /\ request \in [Requests -> Request \cup {Idle}]
          /\ effect \in [Keys -> Seq(Data)]
          /\ told \subseteq Keys \X Data
          /\ crashed \subseteq Keys /\ excused \subseteq Keys

Init == /\ record = [k \in Keys |-> NoRecord] /\ inserted = 0
        /\ request = [r \in Requests |-> Idle]
        /\ effect = [k \in Keys |-> <<>>]
        /\ told = {} /\ crashed = {} /\ excused = {}

----------------------------------------------------------------------------

Go(r, state) == request' = [request EXCEPT ![r] = state]
\* The request whose claim is the row of the key.
Holds(r, k) == /\ request[r].at \in {"running", "ran"}
               /\ request[r].key = k /\ request[r].id = record[k].id

\* The deletion of expired rows that a claim does first, now and then.
Cleaned(rows) == [k \in Keys |-> IF rows[k] # NoRecord /\ rows[k].age = 2
                                 THEN NoRecord ELSE rows[k]]

\* Mutant: the fingerprint is not compared.
ReplayableAnyData(row, d) == row # NoRecord /\ row.status = "completed"
\* A completed row answers the same data; other data is refused.
Replayable(row, d) == row # NoRecord /\ row.status = "completed" /\ row.data = d
\* Free, or claimed by a request that is taken for lost.
Claimable(row, d) ==
    row # NoRecord => row.data = d /\ row.status = "processing" /\ row.age > 0

\* _claim_idempotency up to the row it finds.  What cannot be claimed is
\* answered: with the stored answer, or as a conflict, or as still in progress.
Read(r) ==
    /\ request[r] = Idle
    /\ \E k \in Keys, d \in Data, rows \in {record, Cleaned(record)} :
        /\ record' = rows
        /\ IF Claimable(rows[k], d)
           THEN /\ Go(r, [at |-> "claiming", key |-> k, data |-> d, old |-> rows[k]])
                /\ UNCHANGED told
           ELSE /\ told' = IF Replayable(rows[k], d) THEN told \cup {<<k, d>>} ELSE told
                /\ UNCHANGED request
    /\ UNCHANGED <<inserted, effect, crashed, excused>>

\* Mutant: without uq_idempotency_scope the later claim hides the earlier.
ClaimAnyway(r) ==
    /\ request[r].at = "claiming" /\ inserted < MaxRecords
    /\ LET q == request[r]
       IN /\ record' = [record EXCEPT ![q.key] = [id |-> inserted + 1, data |-> q.data,
                                                  status |-> "processing", age |-> 0]]
          /\ Go(r, [at |-> "running", key |-> q.key, data |-> q.data, id |-> inserted + 1])
    /\ inserted' = inserted + 1
    /\ UNCHANGED history

\* The row that was found is deleted, a new one inserted.  Another request's
\* row fails the unique constraint, and the request is answered as in progress.
Claim(r) ==
    /\ request[r].at = "claiming" /\ inserted < MaxRecords
    /\ LET q == request[r]
           row == record[q.key]
       IN IF row # NoRecord /\ row.id # q.old.id
          THEN Go(r, Idle) /\ UNCHANGED <<record, inserted>>
          ELSE /\ record' = [record EXCEPT ![q.key] =
                     [id |-> inserted + 1, data |-> q.data, status |-> "processing", age |-> 0]]
               /\ inserted' = inserted + 1
               /\ Go(r, [at |-> "running", key |-> q.key, data |-> q.data, id |-> inserted + 1])
    /\ UNCHANGED history

\* The endpoint: it commits and answers, or is refused, or fails after it has
\* committed.  Answers above IDEMPOTENCY_RESPONSE_LIMIT are not stored.
Run(r) ==
    /\ request[r].at = "running"
    /\ LET q == request[r]
       IN \E commits \in BOOLEAN, answer \in {"ok", "large", "failed"} :
            /\ answer # "failed" => commits
            /\ Go(r, [at |-> "ran", key |-> q.key, data |-> q.data, id |-> q.id,
                      answer |-> answer])
            /\ effect' = IF commits THEN [effect EXCEPT ![q.key] = Append(@, q.data)] ELSE effect
            /\ excused' = IF commits /\ answer # "ok" THEN excused \cup {q.key} ELSE excused
    /\ UNCHANGED <<record, inserted, told, crashed>>

\* Mutant: a failure keeps its claim.
RecordedKeeping(row, answer) ==
    IF answer = "ok" THEN [row EXCEPT !.status = "completed"] ELSE row
\* _complete_idempotency and _discard_idempotency: only a success is kept.
Recorded(row, answer) ==
    IF answer = "ok" THEN [row EXCEPT !.status = "completed"] ELSE NoRecord

\* The row is found by its identifier: one that was taken over is left alone.
\* The client may never see the answer; that does not matter here.
Finish(r) ==
    /\ request[r].at = "ran"
    /\ LET q == request[r]
       IN /\ record' = IF Holds(r, q.key)
                       THEN [record EXCEPT ![q.key] = Recorded(@, q.answer)] ELSE record
          /\ told' = IF q.answer # "failed" THEN told \cup {<<q.key, q.data>>} ELSE told
    /\ Go(r, Idle)
    /\ UNCHANGED <<inserted, effect, crashed, excused>>

\* The process ends, or the database refuses the last transaction.
Crash(r) ==
    /\ request[r] # Idle
    /\ Go(r, Idle)
    /\ IF request[r].at = "claiming" THEN UNCHANGED <<crashed, excused>>
       ELSE /\ crashed' = crashed \cup {request[r].key}
            /\ excused' = IF request[r].at = "ran" THEN excused \cup {request[r].key} ELSE excused
    /\ UNCHANGED <<record, inserted, effect, told>>

\* Time passes.  A request that is still at work when its claim is given up,
\* and an answer that is forgotten, make a second effect possible.
Age(k) ==
    /\ record[k] # NoRecord /\ record[k].age < 2
    /\ record' = [record EXCEPT ![k].age = @ + 1]
    /\ excused' = IF record[k].age = 1 \/ \E r \in Requests : Holds(r, k)
                  THEN excused \cup {k} ELSE excused
    /\ UNCHANGED <<inserted, request, effect, told, crashed>>

Next == \/ \E r \in Requests : Read(r) \/ Claim(r) \/ Run(r) \/ Finish(r) \/ Crash(r)
        \/ \E k \in Keys : Age(k)

Spec == Init /\ [][Next]_vars

----------------------------------------------------------------------------

\* "Retried requests with the same idempotency key never create duplicate
\* records" (docs/workflow.md), as far as the code goes: a second effect takes
\* an answer that was not recorded after the effect was committed, a request
\* that outlived the processing timeout, or a row past its time to live.
AtMostOnce == \A k \in Keys : k \notin excused => Len(effect[k]) <= 1

\* Whoever is told that a request has succeeded, from the row or by the
\* request itself, is told of his own data: it has taken effect.
SuccessIsOwn == \A a \in told : \E i \in DOMAIN effect[a[1]] : effect[a[1]][i] = a[2]

\* A key stays claimed only by a request at work, or after a crash: every
\* refusal and every failure leaves it free for a retry.
OnlyCrashesBlock ==
    \A k \in Keys : record[k] # NoRecord /\ record[k].status = "processing" =>
        k \in crashed \/ \E r \in Requests : Holds(r, k)
================================================================================
