-------------------------- MODULE IdempotencyProofs --------------------------
(* Theorems about Idempotency, for every set of keys, payloads and requests *)
(* and every number of claims.                                              *)
EXTENDS Idempotency, TLAPS

Working(r) == request[r].at \in {"running", "ran"}
\* d has taken effect under the key k.
Took(k, d) == \E i \in DOMAIN effect[k] : effect[k][i] = d

\* Identifiers are never given twice.
IdsFresh ==
    /\ \A k \in Keys : record[k].id <= inserted
    /\ \A r \in Requests : /\ Working(r) => request[r].id <= inserted
                           /\ request[r].at = "claiming" => request[r].old.id <= inserted
    /\ \A r, q \in Requests : Working(r) /\ Working(q) /\ request[r].id = request[q].id => r = q

\* A claim that is held waits for the answer to its own data.
OwnRow ==
    \A r \in Requests, k \in Keys : Holds(r, k) =>
        record[k].status = "processing" /\ record[k].data = request[r].data

\* A row that is to be taken over is still the one that was found abandoned.
OldRow ==
    \A r \in Requests :
        LET k == request[r].key
        IN  request[r].at = "claiming" /\ request[r].old # NoRecord
            /\ record[k].id = request[r].old.id =>
                record[k].age > 0 /\ (record[k].status = "processing" \/ k \in excused)

\* Where no second effect is possible, claims have not aged under a request ...
GivenUp ==
    \A k \in Keys : record[k] # NoRecord /\ record[k].age > 0 /\ k \notin excused =>
        \A r \in Requests : ~Holds(r, k)
\* ... no row is about to be forgotten ...
Expired == \A k \in Keys : record[k] # NoRecord /\ record[k].age = 2 => k \in excused
\* ... no request works without its claim ...
Lost == \A r \in Requests : Working(r) /\ ~Holds(r, request[r].key) => request[r].key \in excused

\* ... and the one effect is in the row, or about to be recorded there.
Answered(k) ==
    \/ record[k] # NoRecord /\ record[k].status = "completed"
    \/ \E r \in Requests : /\ Holds(r, k)
                           /\ request[r].at = "ran" /\ request[r].answer = "ok"
OneEffect ==
    \A k \in Keys : k \notin excused /\ effect[k] # <<>> => Len(effect[k]) = 1 /\ Answered(k)

\* What is or will be told has taken effect.
EffectBehind ==
    /\ \A k \in Keys : record[k] # NoRecord /\ record[k].status = "completed" =>
                           Took(k, record[k].data)
    /\ \A r \in Requests : request[r].at = "ran" /\ request[r].answer # "failed" =>
                               Took(request[r].key, request[r].data)

Inductive == /\ TypeOK /\ IdsFresh /\ OwnRow /\ OldRow /\ GivenUp /\ Expired /\ Lost
             /\ OneEffect /\ EffectBehind /\ SuccessIsOwn /\ OnlyCrashesBlock

----------------------------------------------------------------------------
(* What the types say of a row and of a request. *)

LEMMA RowColumns ==
    ASSUME TypeOK, NEW k \in Keys
    PROVE  /\ record[k] \in Record \cup {NoRecord}
           /\ record[k].id \in Nat /\ (record[k] # NoRecord <=> record[k].id > 0)
           /\ record[k] # NoRecord => record[k] \in Record
  BY IdempotencyAssumption DEF TypeOK, Record, NoRecord

LEMMA RequestColumns ==
    ASSUME TypeOK, NEW r \in Requests
    PROVE  /\ Working(r) => /\ request[r].key \in Keys /\ request[r].data \in Data
                            /\ request[r].id \in 1..MaxRecords
           /\ request[r].at = "ran" => request[r].answer \in {"ok", "large", "failed"}
           /\ request[r].at = "claiming" =>
                 /\ request[r].key \in Keys /\ request[r].data \in Data
                 /\ request[r].old \in Record \cup {NoRecord}
           /\ request[r] = Idle <=> ~Working(r) /\ request[r].at # "claiming"
  BY DEF TypeOK, Request, Idle, Working

LEMMA InitInductive == Init => Inductive
  BY IdempotencyAssumption
  DEF Init, Inductive, TypeOK, IdsFresh, OwnRow, OldRow, GivenUp, Expired, Lost, OneEffect,
      EffectBehind, SuccessIsOwn, OnlyCrashesBlock, Working, Holds, NoRecord, Idle, Record

LEMMA Stuttering == Inductive /\ UNCHANGED vars => Inductive'
  BY DEF vars, Inductive, TypeOK, IdsFresh, OwnRow, OldRow, GivenUp, Expired, Lost, OneEffect,
         EffectBehind, SuccessIsOwn, OnlyCrashesBlock, Working, Holds, Took, Answered

(***************************************************************************)
(* Read: rows past their time may disappear; the request, idle before, now *)
(* waits to claim or is answered.                                          *)
(***************************************************************************)
LEMMA ReadStep ==
    ASSUME Inductive, NEW r \in Requests, Read(r)
    PROVE  Inductive'
  <1>1. PICK k \in Keys, d \in Data, rows \in {record, Cleaned(record)} :
           /\ record' = rows
           /\ IF Claimable(rows[k], d)
              THEN /\ Go(r, [at |-> "claiming", key |-> k, data |-> d, old |-> rows[k]])
                   /\ UNCHANGED told
              ELSE /\ told' = IF Replayable(rows[k], d) THEN told \cup {<<k, d>>} ELSE told
                   /\ UNCHANGED request
    BY DEF Read
  <1>2. request[r] = Idle /\ UNCHANGED <<inserted, effect, crashed, excused>>
    BY DEF Read
  <1>3. TypeOK
    BY DEF Inductive
  <1>4. \A j \in Keys : \/ record'[j] = record[j]
                        \/ record'[j] = NoRecord /\ record[j] # NoRecord /\ record[j].age = 2
    BY <1>1, <1>3 DEF Cleaned, TypeOK
  <1>5. record' \in [Keys -> Record \cup {NoRecord}]
    BY <1>1, <1>3 DEF Cleaned, TypeOK
  <1>6. \A q \in Requests : q # r => request'[q] = request[q]
    BY <1>1, <1>3 DEF Go, TypeOK
  <1>7. \/ request'[r] = request[r]
        \/ /\ request'[r] = [at |-> "claiming", key |-> k, data |-> d, old |-> record'[k]]
           /\ Claimable(record'[k], d)
    BY <1>1, <1>3 DEF Go, TypeOK
  <1>8. ~Working(r) /\ ~Working(r)'
    BY <1>2, <1>7 DEF Working, Idle
  <1>9. \A q \in Requests : Working(q)' <=> Working(q)
    BY <1>6, <1>8 DEF Working
  <1>10. \A q \in Requests, j \in Keys : Holds(q, j)' => Holds(q, j) /\ record'[j] = record[j]
    <2> SUFFICES ASSUME NEW q \in Requests, NEW j \in Keys, Holds(q, j)'
                 PROVE  Holds(q, j) /\ record'[j] = record[j]
      OBVIOUS
    <2>1. q # r /\ Working(q)
      BY <1>8, <1>9 DEF Holds, Working
    <2>2. request[q].id \in 1..MaxRecords /\ request'[q].id = record'[j].id
      BY <2>1, <1>3, RequestColumns DEF Holds
    <2>3. record'[j] # NoRecord
      BY <2>1, <2>2, <1>6 DEF NoRecord
    <2> QED
      BY <2>1, <2>3, <1>4, <1>6 DEF Holds
  <1>11. \A q \in Requests, j \in Keys : Holds(q, j) /\ record'[j] = record[j] => Holds(q, j)'
    BY <1>6, <1>8 DEF Holds, Working
  <1>12. TypeOK'
    <2>1. request' \in [Requests -> Request \cup {Idle}]
      <3>1. record'[k] \in Record \cup {NoRecord}
        BY <1>5
      <3>2. request'[r] \in Request \cup {Idle}
        BY <3>1, <1>2, <1>7 DEF Request
      <3> QED
        BY <3>2, <1>1, <1>3 DEF TypeOK, Go
    <2>2. told' \subseteq Keys \X Data
      BY <1>1, <1>3 DEF TypeOK
    <2> QED
      BY <1>2, <1>3, <1>5, <2>1, <2>2 DEF TypeOK
  <1>13. IdsFresh'
    <2>1. \A j \in Keys : record'[j].id <= inserted
      BY <1>3, <1>4 DEF Inductive, IdsFresh, NoRecord, TypeOK
    <2> QED
      BY <2>1, <1>2, <1>6, <1>7, <1>9 DEF Inductive, IdsFresh, Working, Idle
  <1>14. OwnRow'
    BY <1>6, <1>8, <1>10 DEF Inductive, OwnRow, Holds, Working
  <1>15. OldRow'
    <2> SUFFICES ASSUME NEW q \in Requests, request'[q].at = "claiming",
                        request'[q].old # NoRecord,
                        record'[request'[q].key].id = request'[q].old.id
                 PROVE  /\ record'[request'[q].key].age > 0
                        /\ \/ record'[request'[q].key].status = "processing"
                           \/ request'[q].key \in excused'
      BY DEF OldRow
    <2>1. CASE request'[q] = request[q]
      <3>1. request[q].key \in Keys /\ request[q].old \in Record
        BY <2>1, <1>3, RequestColumns
      <3>2. record'[request[q].key] # NoRecord
        BY <2>1, <3>1 DEF NoRecord, Record
      <3> QED
        BY <2>1, <3>1, <3>2, <1>2, <1>4 DEF Inductive, OldRow
    <2>2. CASE q = r /\ request'[r] # request[r]
      BY <2>2, <1>7 DEF Claimable
    <2> QED
      BY <2>1, <2>2, <1>6
  <1>16. GivenUp' /\ Expired'
    BY <1>2, <1>4, <1>10 DEF Inductive, GivenUp, Expired
  <1>17. Lost'
    <2> SUFFICES ASSUME NEW q \in Requests, Working(q)', ~Holds(q, request[q].key)'
                 PROVE  request'[q].key \in excused
      BY <1>2 DEF Lost
    <2>1. Working(q) /\ request'[q] = request[q]
      BY <1>6, <1>8
      DEF Working
    <2>2. request[q].key \in Keys
      BY <2>1, <1>3, RequestColumns
    <2>3. CASE Holds(q, request[q].key)
      <3>1. record'[request[q].key] # record[request[q].key]
        BY <2>1, <2>2, <2>3 DEF Holds
      <3> QED
        BY <3>1, <2>1, <2>2, <1>4 DEF Inductive, Expired
    <2> QED
      BY <2>1, <2>3 DEF Inductive, Lost
  <1>18. OneEffect'
    <2> SUFFICES ASSUME NEW j \in Keys, j \notin excused, effect[j] # <<>>
                 PROVE  Len(effect[j]) = 1 /\ Answered(j)'
      BY <1>2 DEF OneEffect
    <2>1. record'[j] = record[j]
      BY <1>4 DEF Inductive, Expired
    <2>2. Len(effect[j]) = 1 /\ Answered(j)
      BY DEF Inductive, OneEffect
    <2> QED
      BY <2>1, <2>2, <1>6, <1>8, <1>11 DEF Answered, Holds, Working
  <1>19. EffectBehind'
    BY <1>2, <1>4, <1>6, <1>8 DEF Inductive, EffectBehind, Took, Working
  <1>20. SuccessIsOwn'
    <2>1. Replayable(record'[k], d) => Took(k, d)
      BY <1>4 DEF Inductive, EffectBehind, Replayable
    <2> QED
      BY <2>1, <1>1, <1>2 DEF Inductive, SuccessIsOwn, Took
  <1>21. OnlyCrashesBlock'
    BY <1>2, <1>4, <1>11 DEF Inductive, OnlyCrashesBlock
  <1> QED
    BY <1>12, <1>13, <1>14, <1>15, <1>16, <1>17, <1>18, <1>19, <1>20, <1>21 DEF Inductive

(***************************************************************************)
(* A request that does not work yet is given up: nothing depends on it.    *)
(***************************************************************************)
LEMMA WithdrawnStep ==
    ASSUME Inductive, NEW r \in Requests, ~Working(r),
           request' = [request EXCEPT ![r] = Idle],
           UNCHANGED <<record, inserted, effect, told, crashed, excused>>
    PROVE  Inductive'
  <1>1. TypeOK
    BY DEF Inductive
  <1>2. request'[r] = Idle /\ \A q \in Requests : q # r => request'[q] = request[q]
    BY <1>1 DEF TypeOK
  <1>3. ~Working(r)' /\ \A q \in Requests : Working(q)' => q # r /\ Working(q)
    BY <1>2 DEF Working, Idle
  <1>4. \A q \in Requests, j \in Keys : Holds(q, j)' <=> Holds(q, j)
    BY <1>2, <1>3 DEF Holds, Working
  <1>5. \A q \in Requests : request'[q].at \in {"claiming", "ran"} => request'[q] = request[q]
    BY <1>2 DEF Idle
  <1>6. TypeOK'
    BY <1>1 DEF TypeOK
  <1>7. IdsFresh'
    BY <1>2, <1>3, <1>5 DEF Inductive, IdsFresh
  <1>8. OwnRow'
    <2>1. \A q \in Requests, j \in Keys : Holds(q, j) => request'[q] = request[q]
      BY <1>2 DEF Holds, Working
    <2> QED
      BY <2>1, <1>4 DEF Inductive, OwnRow
  <1>9. OldRow'
    BY <1>5 DEF Inductive, OldRow
  <1>10. GivenUp' /\ Expired'
    BY <1>4 DEF Inductive, GivenUp, Expired
  <1>11. Lost'
    BY <1>2, <1>3 DEF Inductive, Lost, Holds
  <1>12. OneEffect'
    <2>1. \A q \in Requests : request[q].at = "ran" => request'[q] = request[q]
      BY <1>2 DEF Working
    <2> QED
      BY <2>1, <1>4 DEF Inductive, OneEffect, Answered
  <1>13. EffectBehind'
    BY <1>5 DEF Inductive, EffectBehind, Took
  <1>14. SuccessIsOwn' /\ OnlyCrashesBlock'
    BY <1>4 DEF Inductive, SuccessIsOwn, OnlyCrashesBlock
  <1> QED
    BY <1>6, <1>7, <1>8, <1>9, <1>10, <1>11, <1>12, <1>13, <1>14 DEF Inductive

(***************************************************************************)
(* Claim, when the row is free or still the one that was found: the new    *)
(* row replaces one that, by OldRow and GivenUp, nobody works for.         *)
(***************************************************************************)
LEMMA ClaimStep ==
    ASSUME Inductive, NEW r \in Requests, Claim(r)
    PROVE  Inductive'
  <1>1. TypeOK /\ request[r].at = "claiming" /\ inserted < MaxRecords
    BY DEF Inductive, Claim
  <1>2. /\ request[r].key \in Keys /\ request[r].data \in Data
        /\ request[r].old \in Record \cup {NoRecord}
    BY <1>1, RequestColumns
  <1>0. inserted + 1 \in Nat
    BY <1>1, IdempotencyAssumption DEF TypeOK
  <1> PICK k \in Keys, d \in Data, n \in Nat :
         k = request[r].key /\ d = request[r].data /\ n = inserted + 1
    BY <1>0, <1>2
  <1>3. CASE record[k] # NoRecord /\ record[k].id # request[r].old.id
    <2>1. request' = [request EXCEPT ![r] = Idle] /\ UNCHANGED <<record, inserted>>
      BY <1>3 DEF Claim, Go
    <2>2. UNCHANGED history
      BY DEF Claim
    <2> QED
      BY <1>1, <2>1, <2>2, WithdrawnStep DEF history, Working
  <1>4. CASE record[k] = NoRecord \/ record[k].id = request[r].old.id
    <2>1. /\ record' = [record EXCEPT ![k] = [id |-> n, data |-> d, status |-> "processing",
                                              age |-> 0]]
          /\ inserted' = n
          /\ request' = [request EXCEPT ![r] = [at |-> "running", key |-> k, data |-> d, id |-> n]]
      BY <1>4 DEF Claim, Go
    <2>2. UNCHANGED <<effect, told, crashed, excused>>
      BY DEF Claim, history
    <2>3. /\ record'[k] = [id |-> n, data |-> d, status |-> "processing", age |-> 0]
          /\ \A j \in Keys : j # k => record'[j] = record[j]
          /\ request'[r] = [at |-> "running", key |-> k, data |-> d, id |-> n]
          /\ \A q \in Requests : q # r => request'[q] = request[q]
      BY <1>1, <1>2, <2>1 DEF TypeOK
    <2>4. n \in 1..MaxRecords /\ inserted \in Nat /\ n \notin 0..inserted
      BY <1>1, IdempotencyAssumption DEF TypeOK
    <2>5. ~Working(r) /\ Working(r)' /\ \A q \in Requests : q # r => (Working(q)' <=> Working(q))
      BY <1>1, <2>3 DEF Working
    <2>6. \A q \in Requests : Working(q) => request[q].id \in 1..inserted
      BY <1>1, <2>4, RequestColumns DEF Inductive, IdsFresh
    <2>7. \A q \in Requests : ~Holds(q, k)' \/ q = r
      BY <2>3, <2>4, <2>5, <2>6 DEF Holds, Working
    <2>8. \A q \in Requests, j \in Keys : q # r /\ j # k => (Holds(q, j)' <=> Holds(q, j))
      BY <2>3 DEF Holds
    <2>9. /\ Holds(r, k)' /\ \A j \in Keys : Holds(r, j)' => j = k
          /\ \A j \in Keys : ~Holds(r, j)
      BY <2>3, <2>5 DEF Holds, Working
    <2>10. k \notin excused => \A q \in Requests : ~Holds(q, k)
      <3>1. CASE record[k] = NoRecord
        BY <3>1, <2>6 DEF Holds, Working, NoRecord
      <3>2. CASE record[k] # NoRecord /\ record[k].id = request[r].old.id
        <4>1. request[r].old # NoRecord
          BY <3>2, <1>1, <1>2, RowColumns DEF NoRecord
        <4> QED
          BY <4>1, <3>2, <1>1, <1>2 DEF Inductive, OldRow, GivenUp
      <3> QED
        BY <3>1, <3>2, <1>4
    <2>11. TypeOK'
      <3>1. [id |-> n, data |-> d, status |-> "processing", age |-> 0] \in Record
        BY <1>2, <2>4 DEF Record
      <3>2. request'[r] \in Request
        BY <1>2, <2>3, <2>4 DEF Request
      <3> QED
        BY <3>1, <3>2, <1>1, <1>2, <2>1, <2>2, <2>3, <2>4 DEF TypeOK
    <2>12. IdsFresh'
      <3>1. \A j \in Keys : record'[j].id <= inserted'
        BY <1>1, <2>1, <2>3, <2>4, RowColumns DEF Inductive, IdsFresh
      <3>2. ASSUME NEW q \in Requests
            PROVE  /\ Working(q)' => request'[q].id <= inserted'
                   /\ request'[q].at = "claiming" => request'[q].old.id <= inserted'
        <4>1. CASE q = r
          BY <4>1, <2>1, <2>3, <2>4
        <4>2. CASE q # r
          <5>1. request[q].at = "claiming" => request[q].old.id \in Nat
            BY <1>1, RequestColumns DEF Record, NoRecord
          <5> QED
            BY <4>2, <5>1, <2>1, <2>3, <2>4, <2>5, <2>6 DEF Inductive, IdsFresh
        <4> QED
          BY <4>1, <4>2
      <3>3. \A p, q \in Requests : Working(p)' /\ Working(q)' /\ request'[p].id = request'[q].id
                                       => p = q
        BY <2>3, <2>4, <2>5, <2>6 DEF Inductive, IdsFresh
      <3> QED
        BY <3>1, <3>2, <3>3 DEF IdsFresh
    <2>13. OwnRow'
      BY <2>3, <2>7, <2>8, <2>9 DEF Inductive, OwnRow
    <2>14. OldRow'
      <3> SUFFICES ASSUME NEW q \in Requests, request'[q].at = "claiming",
                          request'[q].old # NoRecord,
                          record'[request'[q].key].id = request'[q].old.id
                   PROVE  /\ record'[request'[q].key].age > 0
                          /\ \/ record'[request'[q].key].status = "processing"
                             \/ request'[q].key \in excused'
        BY DEF OldRow
      <3>1. q # r /\ request'[q] = request[q]
        BY <2>3
      <3>2. request[q].key \in Keys /\ request[q].old.id \in 0..inserted
        <4>1. request[q].old.id \in Nat /\ request[q].key \in Keys
          BY <3>1, <1>1, RequestColumns DEF Record, NoRecord
        <4> QED
          BY <4>1, <3>1, <2>4 DEF Inductive, IdsFresh
      <3>3. request[q].key # k
        BY <3>1, <3>2, <2>3, <2>4
      <3> QED
        BY <3>1, <3>2, <3>3, <2>2, <2>3 DEF Inductive, OldRow
    <2>15. GivenUp' /\ Expired'
      <3>1. record'[k].age = 0
        BY <2>3
      <3>2. GivenUp'
        BY <3>1, <2>2, <2>3, <2>8, <2>9 DEF Inductive, GivenUp
      <3>3. Expired'
        BY <3>1, <2>2, <2>3 DEF Inductive, Expired
      <3> QED
        BY <3>2, <3>3
    <2>16. Lost'
      <3> SUFFICES ASSUME NEW q \in Requests, Working(q)', ~Holds(q, request[q].key)'
                   PROVE  request'[q].key \in excused
        BY <2>2 DEF Lost
      <3>1. q # r /\ request'[q] = request[q] /\ Working(q)
        BY <2>3, <2>5, <2>9
      <3>2. request[q].key \in Keys
        BY <3>1, <1>1, RequestColumns
      <3>3. CASE request[q].key = k /\ Holds(q, k)
        BY <3>1, <3>3, <2>10
      <3>4. CASE request[q].key = k /\ ~Holds(q, k)
        BY <3>1, <3>4 DEF Inductive, Lost
      <3>5. CASE request[q].key # k
        BY <3>1, <3>2, <3>5, <2>8 DEF Inductive, Lost
      <3> QED
        BY <3>3, <3>4, <3>5
    <2>17. OneEffect'
      <3> SUFFICES ASSUME NEW j \in Keys, j \notin excused, effect[j] # <<>>
                   PROVE  Len(effect[j]) = 1 /\ Answered(j)'
        BY <2>2 DEF OneEffect
      <3>1. Len(effect[j]) = 1 /\ Answered(j)
        BY DEF Inductive, OneEffect
      <3>2. j # k
        <4> SUFFICES ASSUME j = k
                     PROVE  FALSE
          OBVIOUS
        <4>1. record[k] # NoRecord /\ record[k].status = "completed"
          BY <3>1, <2>10 DEF Answered
        <4>2. request[r].old # NoRecord /\ record[k].id = request[r].old.id
          BY <4>1, <1>1, <1>2, <1>4, RowColumns DEF NoRecord
        <4> QED
          BY <4>1, <4>2, <1>1 DEF Inductive, OldRow
      <3>3. \A q \in Requests : Holds(q, j) => q # r
        BY <2>9
      <3> QED
        BY <3>1, <3>2, <3>3, <2>3, <2>8 DEF Answered
    <2>18. EffectBehind'
      BY <1>1, <2>2, <2>3 DEF Inductive, EffectBehind, Took
    <2>19. SuccessIsOwn'
      BY <2>2 DEF Inductive, SuccessIsOwn
    <2>20. OnlyCrashesBlock'
      BY <2>2, <2>3, <2>8, <2>9 DEF Inductive, OnlyCrashesBlock
    <2> QED
      BY <2>11, <2>12, <2>13, <2>14, <2>15, <2>16, <2>17, <2>18, <2>19, <2>20 DEF Inductive
  <1> QED
    BY <1>3, <1>4

(***************************************************************************)
(* Run: where no second effect is possible the request holds its claim, so *)
(* nothing has been answered yet and there is no effect before this one.   *)
(***************************************************************************)
LEMMA RunStep ==
    ASSUME Inductive, NEW r \in Requests, Run(r)
    PROVE  Inductive'
  <1>1. TypeOK /\ request[r].at = "running" /\ Working(r)
    BY DEF Inductive, Run, Working
  <1>2. PICK k \in Keys, d \in Data, n \in 1..MaxRecords :
           k = request[r].key /\ d = request[r].data /\ n = request[r].id
    BY <1>1, RequestColumns
  <1>3. PICK commits \in BOOLEAN, answer \in {"ok", "large", "failed"} :
           /\ answer # "failed" => commits
           /\ Go(r, [at |-> "ran", key |-> k, data |-> d, id |-> n, answer |-> answer])
           /\ effect' = IF commits THEN [effect EXCEPT ![k] = Append(@, d)] ELSE effect
           /\ excused' = IF commits /\ answer # "ok" THEN excused \cup {k} ELSE excused
    BY <1>2 DEF Run
  <1>4. UNCHANGED <<record, inserted, told, crashed>>
    BY DEF Run
  <1>5. /\ request'[r] = [at |-> "ran", key |-> k, data |-> d, id |-> n, answer |-> answer]
        /\ \A q \in Requests : q # r => request'[q] = request[q]
    BY <1>1, <1>3 DEF Go, TypeOK
  <1>6. \A q \in Requests : /\ Working(q)' <=> Working(q)
                           /\ Working(q) => /\ request'[q].key = request[q].key
                                            /\ request'[q].data = request[q].data
                                            /\ request'[q].id = request[q].id
    BY <1>1, <1>2, <1>5 DEF Working
  <1>7. \A q \in Requests, j \in Keys : Holds(q, j)' <=> Holds(q, j)
    <2> SUFFICES ASSUME NEW q \in Requests, NEW j \in Keys
                 PROVE  Holds(q, j)' <=> Holds(q, j)
      OBVIOUS
    <2>1. CASE q = r
      BY <2>1, <1>1, <1>2, <1>4, <1>5 DEF Holds
    <2>2. CASE q # r
      BY <2>2, <1>4, <1>5 DEF Holds
    <2> QED
      BY <2>1, <2>2
  <1>8. excused \subseteq excused' /\ \A j \in Keys : j # k => (j \in excused' <=> j \in excused)
    BY <1>3
  <1>9. \A j \in Keys : effect[j] \in Seq(Data)
    BY <1>1 DEF TypeOK
  <1>10. /\ \A j \in Keys : j # k => effect'[j] = effect[j]
         /\ effect'[k] = IF commits THEN Append(effect[k], d) ELSE effect[k]
    BY <1>1, <1>2, <1>3 DEF TypeOK
  <1>11. \A j \in Keys, e \in Data : Took(j, e) => Took(j, e)'
    <2> SUFFICES ASSUME NEW j \in Keys, NEW e \in Data, Took(j, e)
                 PROVE  Took(j, e)'
      OBVIOUS
    <2>1. CASE effect'[j] = effect[j]
      BY <2>1 DEF Took
    <2>2. CASE j = k /\ effect'[k] = Append(effect[k], d)
      <3>1. PICK i \in DOMAIN effect[k] : effect[k][i] = e
        BY <2>2 DEF Took
      <3>2. i \in DOMAIN effect'[k] /\ effect'[k][i] = e
        BY <3>1, <2>2, <1>9
      <3> QED
        BY <3>2, <2>2 DEF Took
    <2> QED
      BY <2>1, <2>2, <1>10
  <1>12. commits => \E i \in DOMAIN effect'[k] : effect'[k][i] = d
    <2> SUFFICES ASSUME commits
                 PROVE  \E i \in DOMAIN effect'[k] : effect'[k][i] = d
      OBVIOUS
    <2>1. effect'[k] = Append(effect[k], d) /\ effect[k] \in Seq(Data)
      BY <1>2, <1>9, <1>10
    <2>2. Len(effect[k]) + 1 \in DOMAIN effect'[k] /\ effect'[k][Len(effect[k]) + 1] = d
      BY <2>1, <1>2
    <2> QED
      BY <2>2
  <1>13. TypeOK'
    <2>1. effect' \in [Keys -> Seq(Data)]
      BY <1>1, <1>2, <1>3, <1>9 DEF TypeOK
    <2>2. request'[r] \in Request
      BY <1>2, <1>5 DEF Request
    <2>3. request' \in [Requests -> Request \cup {Idle}]
      BY <2>2, <1>1, <1>3 DEF TypeOK, Go
    <2>4. excused' \subseteq Keys
      BY <1>1, <1>2, <1>3 DEF TypeOK
    <2> QED
      BY <2>1, <2>3, <2>4, <1>1, <1>4 DEF TypeOK
  <1>14. IdsFresh'
    <2>1. \A q \in Requests : Working(q)' => request'[q].id <= inserted
      BY <1>1, <1>2, <1>5 DEF Inductive, IdsFresh, Working
    <2>2. \A q \in Requests : request'[q].at = "claiming" => request'[q].old.id <= inserted
      BY <1>5 DEF Inductive, IdsFresh
    <2>3. \A p, q \in Requests : Working(p)' /\ Working(q)' /\ request'[p].id = request'[q].id
                                     => p = q
      BY <1>1, <1>2, <1>5 DEF Inductive, IdsFresh, Working
    <2> QED
      BY <2>1, <2>2, <2>3, <1>4 DEF Inductive, IdsFresh
  <1>15. OwnRow'
    BY <1>4, <1>6, <1>7 DEF Inductive, OwnRow, Holds, Working
  <1>16. OldRow'
    BY <1>4, <1>5, <1>8 DEF Inductive, OldRow
  <1>17. GivenUp' /\ Expired'
    BY <1>4, <1>7, <1>8 DEF Inductive, GivenUp, Expired
  <1>18. Lost'
    <2> SUFFICES ASSUME NEW q \in Requests, Working(q)', ~Holds(q, request[q].key)'
                 PROVE  request'[q].key \in excused'
      BY DEF Lost
    <2>1. Working(q) /\ request'[q].key = request[q].key
      BY <1>1, <1>2, <1>5 DEF Working
    <2>2. request[q].key \in Keys
      BY <2>1, <1>1, RequestColumns
    <2> QED
      BY <2>1, <2>2, <1>7, <1>8 DEF Inductive, Lost
  <1>19. OneEffect'
    <2> SUFFICES ASSUME NEW j \in Keys, j \notin excused', effect'[j] # <<>>
                 PROVE  Len(effect'[j]) = 1 /\ Answered(j)'
      BY DEF OneEffect
    <2>1. j \notin excused
      BY <1>8
    <2>2. CASE effect'[j] = effect[j]
      <3>1. Len(effect[j]) = 1 /\ Answered(j)
        BY <2>1, <2>2 DEF Inductive, OneEffect
      <3>2. \A q \in Requests : request[q].at = "ran" => request'[q] = request[q]
        BY <1>1, <1>5
      <3> QED
        BY <2>2, <3>1, <3>2, <1>4, <1>7 DEF Answered
    <2>3. CASE j = k /\ commits
      <3>1. answer = "ok" /\ effect'[k] = Append(effect[k], d)
        BY <2>3, <1>3, <1>10
      <3>2. Holds(r, k)
        BY <2>1, <2>3, <1>1, <1>2 DEF Inductive, Lost
      <3>3. effect[k] = <<>>
        <4>1. ~(record[k] # NoRecord /\ record[k].status = "completed")
          BY <3>2, <1>2 DEF Inductive, OwnRow
        <4>2. \A q \in Requests : Holds(q, k) => q = r
          BY <3>2 DEF Inductive, IdsFresh, Holds, Working
        <4>3. ~Answered(k)
          BY <4>1, <4>2, <1>1 DEF Answered
        <4> QED
          BY <4>3, <2>1, <2>3 DEF Inductive, OneEffect
      <3>4. Len(effect'[k]) = 1
        BY <3>1, <3>3, <1>2
      <3> QED
        BY <2>3, <3>1, <3>2, <3>4, <1>5, <1>7 DEF Answered
    <2> QED
      BY <2>2, <2>3, <1>10
  <1>20. EffectBehind'
    <2>1. ASSUME NEW j \in Keys, record'[j] # NoRecord, record'[j].status = "completed"
          PROVE  Took(j, record[j].data)'
      <3>1. record[j].data \in Data /\ Took(j, record[j].data)
        BY <2>1, <1>1, <1>4, RowColumns DEF Inductive, EffectBehind, Record
      <3> QED
        BY <3>1, <1>4, <1>11 DEF Took
    <2>2. ASSUME NEW q \in Requests, request'[q].at = "ran", request'[q].answer # "failed"
          PROVE  Took(request[q].key, request[q].data)'
      <3>1. CASE q = r
        BY <3>1, <2>2, <1>3, <1>5, <1>12 DEF Took
      <3>2. CASE q # r
        <4>1. request'[q] = request[q] /\ Working(q)
          BY <2>2, <3>2, <1>5 DEF Working
        <4>2. request[q].key \in Keys /\ request[q].data \in Data
          BY <4>1, <1>1, RequestColumns
        <4> QED
          BY <4>1, <4>2, <2>2, <1>11 DEF Inductive, EffectBehind, Took
      <3> QED
        BY <3>1, <3>2
    <2> QED
      BY <2>1, <2>2 DEF EffectBehind
  <1>21. SuccessIsOwn'
    <2>1. \A a \in told : a[1] \in Keys /\ a[2] \in Data
      BY <1>1 DEF TypeOK
    <2>2. \A a \in told : Took(a[1], a[2])
      BY DEF Inductive, SuccessIsOwn, Took
    <2>3. \A a \in told : Took(a[1], a[2])'
      BY <2>1, <2>2, <1>11
    <2> QED
      BY <2>3, <1>4 DEF SuccessIsOwn, Took
  <1>22. OnlyCrashesBlock'
    BY <1>4, <1>7 DEF Inductive, OnlyCrashesBlock
  <1> QED
    BY <1>13, <1>14, <1>15, <1>16, <1>17, <1>18, <1>19, <1>20, <1>21, <1>22 DEF Inductive

(***************************************************************************)
(* Finish: the row that is completed or deleted is the request's own.      *)
(***************************************************************************)
LEMMA FinishStep ==
    ASSUME Inductive, NEW r \in Requests, Finish(r)
    PROVE  Inductive'
  <1>1. TypeOK /\ request[r].at = "ran" /\ Working(r)
    BY DEF Inductive, Finish, Working
  <1>2. PICK k \in Keys, d \in Data :
           /\ k = request[r].key /\ d = request[r].data
           /\ request[r].id \in 1..MaxRecords
           /\ request[r].answer \in {"ok", "large", "failed"}
    BY <1>1, RequestColumns
  <1>3. /\ record' = IF Holds(r, k) THEN [record EXCEPT ![k] = Recorded(@, request[r].answer)]
                    ELSE record
        /\ told' = IF request[r].answer # "failed" THEN told \cup {<<k, d>>} ELSE told
        /\ request' = [request EXCEPT ![r] = Idle]
        /\ UNCHANGED <<inserted, effect, crashed, excused>>
    BY <1>2 DEF Finish, Go
  <1>4. request'[r] = Idle /\ \A q \in Requests : q # r => request'[q] = request[q]
    BY <1>1, <1>3 DEF TypeOK
  <1>5. /\ \A j \in Keys : j # k \/ ~Holds(r, k) => record'[j] = record[j]
        /\ Holds(r, k) => record'[k] = Recorded(record[k], request[r].answer)
    BY <1>1, <1>3 DEF TypeOK
  <1>6. Holds(r, k) => /\ record[k] \in Record /\ record[k].status = "processing"
                       /\ record[k].data = d
    <2> SUFFICES ASSUME Holds(r, k)
                 PROVE  /\ record[k] \in Record /\ record[k].status = "processing"
                        /\ record[k].data = d
      OBVIOUS
    <2>1. record[k].id # 0
      BY <1>2, IdempotencyAssumption DEF Holds
    <2> QED
      BY <2>1, <1>1, <1>2, RowColumns DEF Inductive, OwnRow
  <1>7. Holds(r, k) => \/ record'[k] = NoRecord
                       \/ /\ request[r].answer = "ok" /\ record'[k] \in Record
                          /\ record'[k].status = "completed" /\ record'[k].data = d
                          /\ record'[k].id = record[k].id /\ record'[k].age = record[k].age
    BY <1>5, <1>6 DEF Recorded, Record
  <1>8. ~Working(r)' /\ \A q \in Requests : request'[q] # Idle => q # r
    BY <1>4 DEF Working, Idle
  <1>9. \A q \in Requests : Holds(q, k) /\ Holds(r, k) => q = r
    BY DEF Inductive, IdsFresh, Holds, Working
  <1>10. \A q \in Requests, j \in Keys :
            Holds(q, j)' <=> q # r /\ Holds(q, j)
    <2> SUFFICES ASSUME NEW q \in Requests, NEW j \in Keys
                 PROVE  Holds(q, j)' <=> q # r /\ Holds(q, j)
      OBVIOUS
    <2>1. CASE q = r
      BY <2>1, <1>4 DEF Holds, Idle
    <2>2. CASE q # r /\ record'[j] = record[j]
      BY <2>2, <1>4 DEF Holds
    <2>3. CASE q # r /\ j = k /\ Holds(r, k)
      <3>1. ~Holds(q, k)
        BY <2>3, <1>9
      <3>2. Holds(q, k)' => Working(q) /\ request[q].id = record'[k].id
        BY <2>3, <1>4 DEF Holds, Working
      <3>3. Working(q) => request[q].id # 0
        BY <1>1, IdempotencyAssumption, RequestColumns
      <3>4. Holds(q, k)' => record'[k].id = record[k].id /\ request'[q] = request[q]
        BY <3>2, <3>3, <2>3, <1>4, <1>7 DEF NoRecord
      <3> QED
        BY <3>1, <3>4, <2>3 DEF Holds
    <2> QED
      BY <2>1, <2>2, <2>3, <1>5
  <1>11. TypeOK'
    <2>1. record' \in [Keys -> Record \cup {NoRecord}]
      BY <1>1, <1>3, <1>5, <1>7 DEF TypeOK
    <2>2. told' \subseteq Keys \X Data
      BY <1>1, <1>3 DEF TypeOK
    <2> QED
      BY <2>1, <2>2, <1>1, <1>3 DEF TypeOK
  <1>12. IdsFresh'
    <2>1. ASSUME NEW j \in Keys
          PROVE  record'[j].id <= inserted
      <3>1. inserted \in Nat
        BY <1>1, IdempotencyAssumption DEF TypeOK
      <3> QED
        BY <3>1, <1>5, <1>7 DEF Inductive, IdsFresh, NoRecord
    <2>2. \A q \in Requests : request'[q].at \in {"claiming", "running", "ran"} =>
                                 request'[q] = request[q]
      BY <1>4 DEF Idle
    <2> QED
      BY <2>1, <2>2, <1>3 DEF Inductive, IdsFresh, Working
  <1>13. OwnRow'
    <2> SUFFICES ASSUME NEW q \in Requests, NEW j \in Keys, Holds(q, j)'
                 PROVE  record'[j].status = "processing" /\ record'[j].data = request'[q].data
      BY DEF OwnRow
    <2>1. q # r /\ Holds(q, j)
      BY <1>10
    <2>2. record'[j] = record[j]
      BY <2>1, <1>5, <1>9
    <2> QED
      BY <2>1, <2>2, <1>4 DEF Inductive, OwnRow
  <1>14. OldRow'
    <2> SUFFICES ASSUME NEW q \in Requests, request'[q].at = "claiming",
                        request'[q].old # NoRecord,
                        record'[request'[q].key].id = request'[q].old.id
                 PROVE  /\ record'[request'[q].key].age > 0
                        /\ \/ record'[request'[q].key].status = "processing"
                           \/ request'[q].key \in excused'
      BY DEF OldRow
    <2>1. request'[q] = request[q]
      BY <1>4 DEF Idle
    <2>2. request[q].key \in Keys /\ request[q].old \in Record
      BY <2>1, <1>1, RequestColumns
    <2>3. request[q].old.id # 0
      BY <2>2, IdempotencyAssumption DEF Record
    <2>4. CASE request[q].key = k /\ Holds(r, k)
      <3>1. record'[k].id = record[k].id /\ record'[k].age = record[k].age
        BY <2>1, <2>3, <2>4, <1>7 DEF NoRecord
      <3>2. record[k].age > 0
        BY <3>1, <2>1, <2>4 DEF Inductive, OldRow
      <3>3. k \in excused
        <4>1. record[k] # NoRecord
          BY <2>1, <2>3, <2>4, <3>1 DEF NoRecord
        <4> QED
          BY <4>1, <3>2, <2>4 DEF Inductive, GivenUp
      <3> QED
        BY <3>1, <3>2, <3>3, <2>1, <2>4, <1>3
    <2>5. CASE record'[request[q].key] = record[request[q].key]
      BY <2>1, <2>5, <1>3 DEF Inductive, OldRow
    <2> QED
      BY <2>2, <2>4, <2>5, <1>5
  <1>15. GivenUp' /\ Expired'
    <2>1. \A j \in Keys : record'[j] # NoRecord => record'[j].age = record[j].age
                                                 /\ record[j] # NoRecord
      BY <1>5, <1>6, <1>7 DEF Record, NoRecord
    <2>2. GivenUp'
      BY <2>1, <1>3, <1>10 DEF Inductive, GivenUp
    <2>3. Expired'
      BY <2>1, <1>3 DEF Inductive, Expired
    <2> QED
      BY <2>2, <2>3
  <1>16. Lost'
    <2> SUFFICES ASSUME NEW q \in Requests, Working(q)', ~Holds(q, request[q].key)'
                 PROVE  request'[q].key \in excused
      BY <1>3 DEF Lost
    <2>1. q # r /\ request'[q] = request[q] /\ Working(q)
      BY <1>4, <1>8 DEF Working
    <2>2. request[q].key \in Keys
      BY <2>1, <1>1, RequestColumns
    <2> QED
      BY <2>1, <2>2, <1>10 DEF Inductive, Lost
  <1>17. OneEffect'
    <2> SUFFICES ASSUME NEW j \in Keys, j \notin excused, effect[j] # <<>>
                 PROVE  Len(effect[j]) = 1 /\ Answered(j)'
      BY <1>3 DEF OneEffect
    <2>1. Len(effect[j]) = 1 /\ Answered(j)
      BY DEF Inductive, OneEffect
    <2>2. CASE j = k
      <3>1. Holds(r, k)
        BY <2>2, <1>1, <1>2 DEF Inductive, Lost
      <3>2. request[r].answer = "ok"
        BY <3>1, <2>1, <2>2, <1>6, <1>9 DEF Answered
      <3>3. record'[k] # NoRecord /\ record'[k].status = "completed"
        BY <3>1, <3>2, <1>5, <1>6 DEF Recorded, Record, NoRecord
      <3> QED
        BY <3>3, <2>1, <2>2 DEF Answered
    <2>3. CASE j # k
      <3>1. record'[j] = record[j] /\ ~Holds(r, j)
        BY <2>3, <1>2, <1>5 DEF Holds
      <3> QED
        BY <3>1, <2>1, <1>4, <1>10 DEF Answered
    <2> QED
      BY <2>2, <2>3
  <1>18. EffectBehind'
    <2>1. request[r].answer # "failed" => Took(k, d)
      BY <1>1, <1>2 DEF Inductive, EffectBehind
    <2>2. ASSUME NEW j \in Keys, record'[j] # NoRecord, record'[j].status = "completed"
          PROVE  Took(j, record'[j].data)
      <3>1. CASE record'[j] = record[j]
        BY <3>1, <2>2 DEF Inductive, EffectBehind
      <3>2. CASE j = k /\ Holds(r, k)
        BY <3>2, <2>1, <2>2, <1>7
      <3> QED
        BY <3>1, <3>2, <1>5
    <2>3. ASSUME NEW q \in Requests, request'[q].at = "ran", request'[q].answer # "failed"
          PROVE  Took(request'[q].key, request'[q].data)
      BY <2>3, <1>4 DEF Inductive, EffectBehind, Idle
    <2> QED
      BY <2>2, <2>3, <1>3 DEF EffectBehind, Took
  <1>19. SuccessIsOwn'
    <2>1. request[r].answer # "failed" => Took(k, d)
      BY <1>1, <1>2 DEF Inductive, EffectBehind
    <2> QED
      BY <2>1, <1>3 DEF Inductive, SuccessIsOwn, Took
  <1>20. OnlyCrashesBlock'
    <2> SUFFICES ASSUME NEW j \in Keys, record'[j] # NoRecord,
                        record'[j].status = "processing", j \notin crashed
                 PROVE  \E q \in Requests : Holds(q, j)'
      BY <1>3 DEF OnlyCrashesBlock
    <2>1. record'[j] = record[j] /\ ~Holds(r, j)
      BY <1>2, <1>5, <1>7 DEF Holds
    <2> QED
      BY <2>1, <1>10 DEF Inductive, OnlyCrashesBlock
  <1> QED
    BY <1>11, <1>12, <1>13, <1>14, <1>15, <1>16, <1>17, <1>18, <1>19, <1>20 DEF Inductive

LEMMA CrashStep ==
    ASSUME Inductive, NEW r \in Requests, Crash(r)
    PROVE  Inductive'
  <1>1. TypeOK /\ request[r] # Idle /\ request' = [request EXCEPT ![r] = Idle]
        /\ UNCHANGED <<record, inserted, effect, told>>
    BY DEF Inductive, Crash, Go
  <1>2. CASE request[r].at = "claiming"
    BY <1>1, <1>2, WithdrawnStep DEF Crash, Working
  <1>3. CASE request[r].at # "claiming"
    <2>1. Working(r)
      BY <1>1, <1>3, RequestColumns
    <2>2. PICK k \in Keys : k = request[r].key
      BY <1>1, <2>1, RequestColumns
    <2>3. /\ crashed' = crashed \cup {k}
          /\ excused' = IF request[r].at = "ran" THEN excused \cup {k} ELSE excused
      BY <1>3, <2>2 DEF Crash
    <2>4. request'[r] = Idle /\ \A q \in Requests : q # r => request'[q] = request[q]
      BY <1>1 DEF TypeOK
    <2>5. \A q \in Requests, j \in Keys : Holds(q, j)' <=> q # r /\ Holds(q, j)
      BY <1>1, <2>4 DEF Holds, Idle
    <2>6. \A q \in Requests : request'[q].at \in {"claiming", "running", "ran"} =>
                               q # r /\ request'[q] = request[q]
      BY <2>4 DEF Idle
    <2>7. TypeOK'
      BY <1>1, <2>3 DEF TypeOK
    <2>8. IdsFresh'
      BY <1>1, <2>6 DEF Inductive, IdsFresh, Working
    <2>9. OwnRow'
      BY <1>1, <2>4, <2>5 DEF Inductive, OwnRow
    <2>10. OldRow'
      BY <1>1, <2>3, <2>6 DEF Inductive, OldRow
    <2>11. GivenUp' /\ Expired'
      BY <1>1, <2>3, <2>5 DEF Inductive, GivenUp, Expired
    <2>12. Lost'
      <3> SUFFICES ASSUME NEW q \in Requests, Working(q)', ~Holds(q, request[q].key)'
                   PROVE  request'[q].key \in excused'
        BY DEF Lost
      <3>1. q # r /\ request'[q] = request[q] /\ Working(q)
        BY <2>6 DEF Working
      <3>2. request[q].key \in Keys
        BY <3>1, <1>1, RequestColumns
      <3> QED
        BY <3>1, <3>2, <2>3, <2>5 DEF Inductive, Lost
    <2>13. OneEffect'
      <3> SUFFICES ASSUME NEW j \in Keys, j \notin excused', effect[j] # <<>>
                   PROVE  Len(effect[j]) = 1 /\ Answered(j)'
        BY <1>1 DEF OneEffect
      <3>1. Len(effect[j]) = 1 /\ Answered(j)
        BY <2>3 DEF Inductive, OneEffect
      <3>2. ~(Holds(r, j) /\ request[r].at = "ran")
        BY <2>2, <2>3 DEF Holds
      <3> QED
        BY <3>1, <3>2, <1>1, <2>4, <2>5 DEF Answered
    <2>14. EffectBehind'
      BY <1>1, <2>6 DEF Inductive, EffectBehind, Took
    <2>15. SuccessIsOwn'
      BY <1>1 DEF Inductive, SuccessIsOwn
    <2>16. OnlyCrashesBlock'
      <3>1. \A j \in Keys : Holds(r, j) => j = k
        BY <2>2 DEF Holds
      <3> QED
        BY <3>1, <1>1, <2>3, <2>5 DEF Inductive, OnlyCrashesBlock
    <2> QED
      BY <2>7, <2>8, <2>9, <2>10, <2>11, <2>12, <2>13, <2>14, <2>15, <2>16 DEF Inductive
  <1> QED
    BY <1>2, <1>3

LEMMA AgeStep ==
    ASSUME Inductive, NEW k \in Keys, Age(k)
    PROVE  Inductive'
  <1>1. /\ TypeOK /\ record[k] # NoRecord /\ record[k].age < 2
        /\ record' = [record EXCEPT ![k].age = @ + 1]
        /\ excused' = IF record[k].age = 1 \/ \E r \in Requests : Holds(r, k)
                      THEN excused \cup {k} ELSE excused
        /\ UNCHANGED <<inserted, request, effect, told, crashed>>
    BY DEF Inductive, Age
  <1>2. record[k] \in Record /\ record[k].age \in 0..1
    BY <1>1, RowColumns DEF Record
  <1>3. /\ record'[k] = [record[k] EXCEPT !.age = @ + 1]
        /\ \A j \in Keys : j # k => record'[j] = record[j]
    BY <1>1 DEF TypeOK
  <1>4. /\ record'[k] \in Record /\ record'[k].age = record[k].age + 1
        /\ record'[k].id = record[k].id /\ record'[k].data = record[k].data
        /\ record'[k].status = record[k].status
    BY <1>2, <1>3 DEF Record
  <1>5. /\ \A j \in Keys : /\ record'[j].id = record[j].id
                           /\ record'[j] # NoRecord <=> record[j] # NoRecord
                           /\ record'[j].status = record[j].status \/ record[j] = NoRecord
                           /\ record'[j].data = record[j].data \/ record[j] = NoRecord
    BY <1>1, <1>3, <1>4 DEF Record, NoRecord
  <1>6. \A q \in Requests, j \in Keys : Holds(q, j)' <=> Holds(q, j)
    BY <1>1, <1>5 DEF Holds
  <1>7. TypeOK'
    <2>1. record' \in [Keys -> Record \cup {NoRecord}]
      BY <1>1, <1>3, <1>4 DEF TypeOK
    <2> QED
      BY <2>1, <1>1 DEF TypeOK
  <1>8. IdsFresh'
    BY <1>1, <1>5 DEF Inductive, IdsFresh, Working
  <1>9. OwnRow'
    <2> SUFFICES ASSUME NEW q \in Requests, NEW j \in Keys, Holds(q, j)
                 PROVE  record'[j].status = "processing" /\ record'[j].data = request[q].data
      BY <1>1, <1>6 DEF OwnRow
    <2>1. request[q].id \in 1..MaxRecords
      BY <1>1, RequestColumns DEF Holds, Working
    <2>2. record[j] # NoRecord
      BY <2>1, IdempotencyAssumption DEF Holds, NoRecord
    <2> QED
      BY <2>2, <1>5 DEF Inductive, OwnRow
  <1>10. OldRow'
    <2> SUFFICES ASSUME NEW q \in Requests, request[q].at = "claiming",
                        request[q].old # NoRecord,
                        record'[request[q].key].id = request[q].old.id
                 PROVE  /\ record'[request[q].key].age > 0
                        /\ \/ record'[request[q].key].status = "processing"
                           \/ request[q].key \in excused'
      BY <1>1 DEF OldRow
    <2>1. request[q].key \in Keys /\ request[q].old \in Record
      BY <1>1, RequestColumns
    <2>2. record[request[q].key].id = request[q].old.id /\ record[request[q].key] # NoRecord
      BY <2>1, <1>5, IdempotencyAssumption DEF Record, NoRecord
    <2>3. record[request[q].key].status = "processing" \/ request[q].key \in excused
      BY <2>2 DEF Inductive, OldRow
    <2>4. record[request[q].key].age > 0
      BY <2>2 DEF Inductive, OldRow
    <2>5. record'[request[q].key].age > 0
      <3>1. CASE request[q].key = k
        BY <3>1, <1>2, <1>4
      <3>2. CASE request[q].key # k
        BY <3>2, <2>1, <2>4, <1>3
      <3> QED
        BY <3>1, <3>2
    <2> QED
      BY <2>1, <2>2, <2>3, <2>5, <1>1, <1>5
  <1>11. GivenUp'
    BY <1>1, <1>3, <1>6 DEF Inductive, GivenUp
  <1>12. Expired'
    BY <1>1, <1>2, <1>3, <1>4 DEF Inductive, Expired
  <1>13. Lost'
    <2>1. \A q \in Requests : Working(q) => request[q].key \in Keys
      BY <1>1, RequestColumns
    <2> QED
      BY <2>1, <1>1, <1>6 DEF Inductive, Lost, Working
  <1>14. OneEffect'
    <2> SUFFICES ASSUME NEW j \in Keys, j \notin excused, effect[j] # <<>>
                 PROVE  Len(effect[j]) = 1 /\ Answered(j)'
      BY <1>1 DEF OneEffect
    <2>1. Len(effect[j]) = 1 /\ Answered(j)
      BY DEF Inductive, OneEffect
    <2> QED
      BY <2>1, <1>1, <1>5, <1>6 DEF Answered
  <1>15. EffectBehind'
    BY <1>1, <1>5 DEF Inductive, EffectBehind, Took
  <1>16. SuccessIsOwn'
    BY <1>1 DEF Inductive, SuccessIsOwn
  <1>17. OnlyCrashesBlock'
    BY <1>1, <1>5, <1>6 DEF Inductive, OnlyCrashesBlock
  <1> QED
    BY <1>7, <1>8, <1>9, <1>10, <1>11, <1>12, <1>13, <1>14, <1>15, <1>16, <1>17 DEF Inductive

----------------------------------------------------------------------------
(* The theorems. *)

LEMMA AlwaysInductive == Spec => []Inductive
  <1>1. Inductive /\ [Next]_vars => Inductive'
    BY ReadStep, ClaimStep, RunStep, FinishStep, CrashStep, AgeStep, Stuttering DEF Next
  <1> QED
    BY <1>1, InitInductive, PTL DEF Spec

\* Every table of the model of core/middleware.py keeps its type.
THEOREM TypeCorrect == Spec => []TypeOK
  <1>1. Inductive => TypeOK
    BY DEF Inductive
  <1> QED
    BY <1>1, AlwaysInductive, PTL

\* However many retries of however many keys run, crash and are taken over, a
\* key takes effect a second time only where the first answer was never
\* recorded, outlived its claim or its time to live (_with_idempotency).
THEOREM AtMostOnceAlways == Spec => []AtMostOnce
  <1>1. Inductive => AtMostOnce
    <2> SUFFICES ASSUME Inductive, NEW k \in Keys, k \notin excused
                 PROVE  Len(effect[k]) <= 1
      BY DEF AtMostOnce
    <2>1. CASE effect[k] = <<>>
      BY <2>1
    <2>2. CASE effect[k] # <<>>
      BY <2>2 DEF Inductive, OneEffect
    <2> QED
      BY <2>1, <2>2
  <1> QED
    BY <1>1, AlwaysInductive, PTL

\* A success is told, from the row or by the request, only of what took effect
\* (_cached_response, _complete_idempotency).
THEOREM SuccessAlwaysOwn == Spec => []SuccessIsOwn
  <1>1. Inductive => SuccessIsOwn
    BY DEF Inductive
  <1> QED
    BY <1>1, AlwaysInductive, PTL

\* A key is kept from its retries only by a request at work or by a crash
\* (_discard_idempotency on every other way out).
THEOREM OnlyCrashesEverBlock == Spec => []OnlyCrashesBlock
  <1>1. Inductive => OnlyCrashesBlock
    BY DEF Inductive
  <1> QED
    BY <1>1, AlwaysInductive, PTL
==============================================================================
