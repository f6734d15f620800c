---------------------------- MODULE FileStoreProofs ----------------------------
(* Theorems about FileStore, for every set of identifiers and of concurrent  *)
(* requests, crashes and refusals of the storage included.                   *)
EXTENDS FileStore, TLAPS

\* A request that is removing the file i.
Removes(r, i) ==
    \/ /\ request[r].op \in {"copied", "deleting", "committing", "finalizing", "restoring",
                             "dropping"}
       /\ request[r].id = i
    \/ request[r].op = "replacing" /\ request[r].old = i

\* What is being uploaded has its blob, and nobody else knows its name.
Fresh ==
    \A r \in Requests : request[r].op \in {"stored", "replacing"} =>
        /\ request[r].id \in blob
        /\ request[r].id \notin DOMAIN file \cup contested
        /\ \A q \in Requests : q # r /\ request[q] # Idle => request[q].id # request[r].id
        /\ \A q \in Requests : request[q].op = "replacing" => request[q].old # request[r].id

\* What is to be replaced is an attachment, unless another request removes it too.
Replaced ==
    \A r \in Requests : request[r].op = "replacing" =>
        /\ request[r].owner # "bill" => request[r].old = None
        /\ request[r].old # None => request[r].old \in DOMAIN file \cup contested
        /\ request[r].old \in DOMAIN file => file[request[r].old] = "bill"

\* Two requests remove a file at once only where that was noticed.
TwoRemove ==
    \A r, q \in Requests, i \in FileIds :
        r # q /\ Removes(r, i) /\ Removes(q, i) => i \in contested

\* The row is gone after the commit, and not before it.
Gone == \A r \in Requests : request[r].op \in {"dropping", "finalizing"} =>
                                request[r].id \notin DOMAIN file
Kept == \A r \in Requests : request[r].op \in {"copied", "deleting", "committing", "restoring"} =>
                                request[r].id \in DOMAIN file \cup contested

\* What has been staged is not in its place, and staged by whoever says so.
BlobAway ==
    \A r \in Requests : request[r].op \in {"deleting", "committing", "finalizing", "restoring"} =>
        request[r].id \notin blob \/ request[r].id \in interrupted \cup contested
OwnStaged ==
    \A r \in Requests : request[r].op \in {"deleting", "committing"} /\ ~request[r].has =>
                            (<<request[r].id, r>> \in staged => request[r].id \in interrupted)

\* A row without its blob has a request that can put it back.
BlobOrRestorer ==
    \A i \in DOMAIN file :
        \/ i \in blob \cup interrupted
        \/ \E r \in Requests : /\ request[r].id = i
                               /\ \/ request[r].op = "restoring"
                                  \/ request[r].op \in {"deleting", "committing"} /\ request[r].has

\* Posters show files of their own kind.
PosterFiles == \A i \in poster : i \in DOMAIN file /\ file[i] = "poster"

Inductive == /\ TypeOK /\ Fresh /\ Replaced /\ TwoRemove /\ Gone /\ Kept /\ BlobAway
             /\ OwnStaged /\ BlobOrRestorer /\ PosterFiles /\ NothingLeftBehind
             /\ AttachmentReachable

----------------------------------------------------------------------------
(* What the types say of a request. *)

LEMMA RequestColumns ==
    ASSUME TypeOK, NEW r \in Requests
    PROVE  /\ request[r].op = "idle" <=> request[r] = Idle
           /\ request[r] # Idle => request[r].id \in FileIds
           /\ request[r].op \in {"stored", "replacing"} => request[r].owner \in Owners
           /\ request[r].op = "replacing" => request[r].old \in FileIds \cup {None}
           /\ request[r].op \in {"deleting", "committing"} => request[r].has \in BOOLEAN
           /\ request[r].op = "committing" => /\ request[r].detach \in BOOLEAN
                                              /\ request[r].posters \in SUBSET FileIds
  BY DEF TypeOK, Running, Idle

LEMMA NoneIsNoFile == None \notin FileIds
  BY FileAssumption

LEMMA GoType ==
    ASSUME TypeOK, NEW r \in Requests, NEW new \in Running \cup {Idle}, Go(r, new)
    PROVE  /\ request' \in [Requests -> Running \cup {Idle}]
           /\ request'[r] = new
           /\ \A q \in Requests : q # r => request'[q] = request[q]
  BY DEF TypeOK, Go

LEMMA EndingRemoves == \A i : Ending(i) <=> \E r \in Requests : Removes(r, i)
  BY DEF Ending, At, Removes

LEMMA InitInductive == Init => Inductive
  <1> SUFFICES ASSUME Init PROVE Inductive
    OBVIOUS
  <1>1. TypeOK
    BY DEF Init, TypeOK
  <1>2. \A r \in Requests : request[r] = Idle
    BY DEF Init
  <1>3. Fresh /\ Replaced /\ TwoRemove /\ Gone /\ Kept /\ BlobAway /\ OwnStaged
    BY <1>2 DEF Fresh, Replaced, TwoRemove, Removes, Gone, Kept, BlobAway, OwnStaged, Idle
  <1>4. BlobOrRestorer /\ PosterFiles /\ NothingLeftBehind /\ AttachmentReachable
    BY DEF Init, BlobOrRestorer, PosterFiles, NothingLeftBehind, AttachmentReachable
  <1> QED
    BY <1>1, <1>3, <1>4 DEF Inductive

----------------------------------------------------------------------------
(* Steps. *)

LEMMA PutStep ==
    ASSUME Inductive, NEW r \in Requests, Put(r)
    PROVE  Inductive'
  <1>1. PICK i \in FileIds, owner \in Owners :
              /\ request[r] = Idle /\ ~Touched(i)
              /\ Go(r, [op |-> "stored", id |-> i, owner |-> owner])
              /\ blob' = blob \cup {i}
    BY DEF Put
  <1>2. UNCHANGED <<backend, file, bill, poster, staged, interrupted, contested, overlapped>>
    BY DEF Put, rows
  <1>3. /\ request' \in [Requests -> Running \cup {Idle}]
        /\ request'[r] = [op |-> "stored", id |-> i, owner |-> owner]
        /\ \A q \in Requests : q # r => request'[q] = request[q]
    BY <1>1, GoType DEF Inductive, Running
  <1>4. /\ i \notin DOMAIN file \cup blob \cup contested
        /\ \A q \in Requests : request[q] # Idle => request[q].id # i
    BY <1>1 DEF Touched
  <1>5. /\ \A q \in Requests : request[q].op = "replacing" => request[q].old # i
        /\ \A q \in Requests : request[q].op # "idle" => request[q] # Idle
    BY <1>1, <1>4, NoneIsNoFile DEF Inductive, Replaced, Idle
  <1>6. TypeOK'
    BY <1>1, <1>2, <1>3 DEF Inductive, TypeOK
  <1>7. Fresh'
    BY <1>1, <1>2, <1>3, <1>4, <1>5 DEF Inductive, Fresh
  <1>8. Replaced'
    BY <1>2, <1>3 DEF Inductive, Replaced
  <1>9. TwoRemove'
    BY <1>2, <1>3 DEF Inductive, TwoRemove, Removes
  <1>10. Gone'
    BY <1>2, <1>3 DEF Inductive, Gone
  <1>11. Kept'
    BY <1>2, <1>3 DEF Inductive, Kept
  <1>12. BlobAway'
    BY <1>1, <1>2, <1>3, <1>4, <1>5 DEF Inductive, BlobAway
  <1>13. OwnStaged'
    BY <1>2, <1>3 DEF Inductive, OwnStaged
  <1>14. BlobOrRestorer'
    BY <1>1, <1>2, <1>3, <1>5 DEF Inductive, BlobOrRestorer
  <1>15. PosterFiles'
    BY <1>2 DEF Inductive, PosterFiles
  <1>16. NothingLeftBehind'
    BY <1>1, <1>2, <1>3, <1>5 DEF Inductive, NothingLeftBehind, At, Stored
  <1>17. AttachmentReachable'
    BY <1>2 DEF Inductive, AttachmentReachable, Stored
  <1> QED
    BY <1>6, <1>7, <1>8, <1>9, <1>10, <1>11, <1>12, <1>13, <1>14, <1>15, <1>16, <1>17
    DEF Inductive

LEMMA ReadBillStep ==
    ASSUME Inductive, NEW r \in Requests, ReadBill(r)
    PROVE  Inductive'
  <1>1. PICK i \in FileIds, owner \in Owners, old \in FileIds \cup {None} :
              /\ request[r].op = "stored" /\ i = request[r].id /\ owner = request[r].owner
              /\ old = IF owner = "bill" THEN bill ELSE None
              /\ Go(r, [op |-> "replacing", id |-> i, owner |-> owner, old |-> old])
              /\ Contest(old)
    BY RequestColumns DEF ReadBill, Inductive, TypeOK
  <1>2. UNCHANGED <<backend, file, bill, poster, blob, staged, interrupted, overlapped>>
    BY DEF ReadBill, rows, objects
  <1>3. /\ request' \in [Requests -> Running \cup {Idle}]
        /\ request'[r] = [op |-> "replacing", id |-> i, owner |-> owner, old |-> old]
        /\ \A q \in Requests : q # r => request'[q] = request[q]
    BY <1>1, GoType DEF Inductive, Running
  <1>4. /\ contested \subseteq contested'
        /\ contested' \subseteq contested \cup (DOMAIN file \cap {old})
        /\ old # None => old \in DOMAIN file /\ file[old] = "bill"
        /\ \A q \in Requests : old # None /\ Removes(q, old) => old \in contested'
    BY <1>1, EndingRemoves DEF Contest, Inductive, AttachmentReachable, Stored
  <1>5. None \notin FileIds /\ (\A q \in Requests : request[q].op # "idle" => request[q] # Idle)
    BY NoneIsNoFile DEF Idle
  <1>6. /\ request'[r].op = "replacing" /\ request'[r].id = i /\ request'[r].owner = owner
        /\ request'[r].old = old /\ old # i
        /\ i \in blob /\ i \notin DOMAIN file \cup contested'
        /\ \A q \in Requests : q # r /\ request[q] # Idle => request[q].id # i
        /\ \A q \in Requests : request[q].op = "replacing" => request[q].old # i
    BY <1>1, <1>3, <1>4, <1>5 DEF Inductive, Fresh
  <1>7. \A q \in Requests : request[q] # Idle => request[q].id \in FileIds
    BY RequestColumns DEF Inductive
  <1>8. TypeOK'
    BY <1>2, <1>3, <1>4 DEF Inductive, TypeOK
  <1>9. Fresh'
    BY <1>2, <1>3, <1>4, <1>5, <1>6, <1>7 DEF Inductive, Fresh
  <1>10. Replaced'
    <2>1. /\ owner # "bill" => old = None
          /\ old # None => old \in DOMAIN file /\ file[old] = "bill"
      BY <1>1, <1>4
    <2>2. old \in DOMAIN file => file[old] = "bill"
      BY <1>5, <2>1 DEF Inductive, TypeOK
    <2>3. \A q \in Requests : q # r => request'[q] = request[q]
      BY <1>3
    <2> QED
      BY <1>2, <1>4, <1>6, <2>1, <2>2, <2>3 DEF Inductive, Replaced
  <1>11. TwoRemove'
    BY <1>3, <1>4, <1>5 DEF Inductive, TwoRemove, Removes
  <1>12. Gone'
    BY <1>2, <1>3 DEF Inductive, Gone
  <1>13. Kept'
    BY <1>2, <1>3, <1>4 DEF Inductive, Kept
  <1>14. BlobAway'
    BY <1>2, <1>3, <1>4 DEF Inductive, BlobAway
  <1>15. OwnStaged'
    BY <1>2, <1>3 DEF Inductive, OwnStaged
  <1>16. BlobOrRestorer'
    BY <1>1, <1>2, <1>3 DEF Inductive, BlobOrRestorer
  <1>17. PosterFiles'
    BY <1>2 DEF Inductive, PosterFiles
  <1>18. NothingLeftBehind'
    BY <1>1, <1>2, <1>3, <1>4 DEF Inductive, NothingLeftBehind, At, Stored
  <1>19. AttachmentReachable'
    BY <1>2 DEF Inductive, AttachmentReachable, Stored
  <1> QED
    BY <1>8, <1>9, <1>10, <1>11, <1>12, <1>13, <1>14, <1>15, <1>16, <1>17, <1>18, <1>19
    DEF Inductive

LEMMA CommitUploadStep ==
    ASSUME Inductive, NEW r \in Requests, CommitUpload(r)
    PROVE  Inductive'
  <1>1. PICK i \in FileIds, owner \in Owners, old \in FileIds \cup {None} :
              /\ request[r].op = "replacing" /\ i = request[r].id /\ owner = request[r].owner
              /\ old = request[r].old
              /\ file' = [j \in (DOMAIN file \ {old}) \cup {i} |->
                             IF j = i THEN owner ELSE file[j]]
              /\ bill' = IF owner = "bill" THEN i ELSE bill
              /\ overlapped' = (overlapped \/ (owner = "bill" /\ bill # old))
              /\ Go(r, IF old = None THEN Idle ELSE [op |-> "dropping", id |-> old])
    BY RequestColumns DEF CommitUpload, Inductive
  <1>2. UNCHANGED <<backend, poster, blob, staged, interrupted, contested>>
    BY DEF CommitUpload, objects
  <1>3. /\ request' \in [Requests -> Running \cup {Idle}]
        /\ request'[r] = IF old = None THEN Idle
                                         ELSE [op |-> "dropping", id |-> old]
        /\ \A q \in Requests : q # r => request'[q] = request[q]
    BY <1>1, GoType DEF Inductive, Running
  <1>4. /\ DOMAIN file' = (DOMAIN file \ {old}) \cup {i} /\ file'[i] = owner
        /\ \A j \in DOMAIN file \ {old} : j # i => file'[j] = file[j]
    BY <1>1
  <1>5. /\ i \in blob /\ i \notin DOMAIN file \cup contested /\ old # i
        /\ \A q \in Requests : q # r /\ request[q] # Idle => request[q].id # i
        /\ \A q \in Requests : request[q].op = "replacing" => request[q].old # i
        /\ owner # "bill" => old = None
        /\ old \in DOMAIN file => file[old] = "bill"
        /\ \A q \in Requests : q # r /\ old # None /\ Removes(q, old) => old \in contested
    BY <1>1 DEF Inductive, Fresh, Replaced, TwoRemove, Removes
  <1>6. /\ None \notin FileIds /\ DOMAIN file \subseteq FileIds
        /\ \A q \in Requests : request[q].op # "idle" => request[q] # Idle
    BY NoneIsNoFile DEF Idle, Inductive, TypeOK
  <1>7. /\ request'[r].op \in {"idle", "dropping"}
        /\ request'[r].op = "dropping" => request'[r].id = old /\ old # None
    BY <1>3 DEF Idle
  <1>8. TypeOK'
    BY <1>1, <1>2, <1>3 DEF Inductive, TypeOK
  <1>9. Fresh'
    BY <1>1, <1>2, <1>3, <1>6, <1>7 DEF Inductive, Fresh
  <1>10. Replaced'
    BY <1>2, <1>3, <1>4, <1>5, <1>7 DEF Inductive, Replaced, Removes
  <1>11. TwoRemove'
    BY <1>2, <1>3, <1>5, <1>7 DEF Inductive, TwoRemove, Removes
  <1>12. Gone'
    BY <1>3, <1>4, <1>5, <1>6, <1>7 DEF Inductive, Gone
  <1>13. Kept'
    BY <1>2, <1>3, <1>4, <1>5, <1>6, <1>7 DEF Inductive, Kept, Removes
  <1>14. BlobAway'
    BY <1>2, <1>3, <1>7 DEF Inductive, BlobAway
  <1>15. OwnStaged'
    BY <1>2, <1>3, <1>7 DEF Inductive, OwnStaged
  <1>16. BlobOrRestorer'
    BY <1>1, <1>2, <1>3, <1>5 DEF Inductive, BlobOrRestorer
  <1>17. PosterFiles'
    BY <1>2, <1>4, <1>5 DEF Inductive, PosterFiles
  <1>18. NothingLeftBehind'
    BY <1>1, <1>2, <1>3, <1>6 DEF Inductive, NothingLeftBehind, At, Stored
  <1>19. AttachmentReachable'
    BY <1>1, <1>2, <1>3, <1>5
    DEF Inductive, AttachmentReachable, Stored, PosterFiles
  <1> QED
    BY <1>8, <1>9, <1>10, <1>11, <1>12, <1>13, <1>14, <1>15, <1>16, <1>17, <1>18, <1>19
    DEF Inductive

LEMMA FailUploadStep ==
    ASSUME Inductive, NEW r \in Requests, FailUpload(r)
    PROVE  Inductive'
  <1>1. PICK i \in FileIds : /\ request[r].op \in {"stored", "replacing"} /\ i = request[r].id
                             /\ DropBlob(i) /\ Go(r, Idle)
    BY RequestColumns DEF FailUpload, Inductive, Idle
  <1>2. UNCHANGED <<backend, file, bill, poster, staged, contested, overlapped>>
    BY DEF FailUpload, rows
  <1>3. /\ request' \in [Requests -> Running \cup {Idle}]
        /\ request'[r] = Idle
        /\ \A q \in Requests : q # r => request'[q] = request[q]
    BY <1>1, GoType DEF Inductive
  <1>4. \/ blob' = blob \ {i} /\ UNCHANGED interrupted
        \/ UNCHANGED blob /\ interrupted' = interrupted \cup {i}
    BY <1>1 DEF DropBlob
  <1>5. /\ i \notin DOMAIN file \cup contested
        /\ \A q \in Requests : q # r /\ request[q] # Idle => request[q].id # i
    BY <1>1 DEF Inductive, Fresh
  <1>6. None \notin FileIds /\ (\A q \in Requests : request[q].op # "idle" => request[q] # Idle)
    BY NoneIsNoFile DEF Idle
  <1>7. Idle.op = "idle"
    BY DEF Idle
  <1>8. TypeOK'
    BY <1>2, <1>3, <1>4 DEF Inductive, TypeOK
  <1>9. Fresh'
    BY <1>2, <1>3, <1>4, <1>5, <1>7 DEF Inductive, Fresh
  <1>10. Replaced'
    BY <1>2, <1>3, <1>7 DEF Inductive, Replaced
  <1>11. TwoRemove'
    BY <1>2, <1>3, <1>7 DEF Inductive, TwoRemove, Removes
  <1>12. Gone'
    BY <1>2, <1>3, <1>7 DEF Inductive, Gone
  <1>13. Kept'
    BY <1>2, <1>3, <1>7 DEF Inductive, Kept
  <1>14. BlobAway'
    BY <1>2, <1>3, <1>4, <1>7 DEF Inductive, BlobAway
  <1>15. OwnStaged'
    BY <1>2, <1>3, <1>4, <1>7 DEF Inductive, OwnStaged
  <1>16. BlobOrRestorer'
    BY <1>1, <1>2, <1>3, <1>4, <1>5 DEF Inductive, BlobOrRestorer
  <1>17. PosterFiles'
    BY <1>2 DEF Inductive, PosterFiles
  <1>18. NothingLeftBehind'
    BY <1>1, <1>2, <1>3, <1>4 DEF Inductive, NothingLeftBehind, At, Stored
  <1>19. AttachmentReachable'
    BY <1>2 DEF Inductive, AttachmentReachable, Stored
  <1> QED
    BY <1>8, <1>9, <1>10, <1>11, <1>12, <1>13, <1>14, <1>15, <1>16, <1>17, <1>18, <1>19
    DEF Inductive

LEMMA DropReplacedStep ==
    ASSUME Inductive, NEW r \in Requests, DropReplaced(r)
    PROVE  Inductive'
  <1>1. PICK i \in FileIds : /\ request[r].op = "dropping" /\ i = request[r].id
                             /\ DropBlob(i) /\ Go(r, Idle)
    BY RequestColumns DEF DropReplaced, Inductive, Idle
  <1>2. UNCHANGED <<backend, file, bill, poster, staged, contested, overlapped>>
    BY DEF DropReplaced, rows
  <1>3. /\ request' \in [Requests -> Running \cup {Idle}]
        /\ request'[r] = Idle
        /\ \A q \in Requests : q # r => request'[q] = request[q]
    BY <1>1, GoType DEF Inductive
  <1>4. \/ blob' = blob \ {i} /\ UNCHANGED interrupted
        \/ UNCHANGED blob /\ interrupted' = interrupted \cup {i}
    BY <1>1 DEF DropBlob
  <1>5. i \notin DOMAIN file
    BY <1>1 DEF Inductive, Gone
  <1>6. None \notin FileIds /\ (\A q \in Requests : request[q].op # "idle" => request[q] # Idle)
    BY NoneIsNoFile DEF Idle
  <1>7. Idle.op = "idle"
    BY DEF Idle
  <1>8. TypeOK'
    BY <1>2, <1>3, <1>4 DEF Inductive, TypeOK
  <1>9. Fresh'
    BY <1>1, <1>2, <1>3, <1>4, <1>7 DEF Inductive, Fresh
  <1>10. Replaced'
    BY <1>2, <1>3, <1>7 DEF Inductive, Replaced
  <1>11. TwoRemove'
    BY <1>2, <1>3, <1>7 DEF Inductive, TwoRemove, Removes
  <1>12. Gone'
    BY <1>2, <1>3, <1>7 DEF Inductive, Gone
  <1>13. Kept'
    BY <1>2, <1>3, <1>7 DEF Inductive, Kept
  <1>14. BlobAway'
    BY <1>2, <1>3, <1>4, <1>7 DEF Inductive, BlobAway
  <1>15. OwnStaged'
    BY <1>2, <1>3, <1>4, <1>7 DEF Inductive, OwnStaged
  <1>16. BlobOrRestorer'
    BY <1>1, <1>2, <1>3, <1>4, <1>5 DEF Inductive, BlobOrRestorer
  <1>17. PosterFiles'
    BY <1>2 DEF Inductive, PosterFiles
  <1>18. NothingLeftBehind'
    BY <1>1, <1>2, <1>3, <1>4 DEF Inductive, NothingLeftBehind, At, Stored
  <1>19. AttachmentReachable'
    BY <1>2 DEF Inductive, AttachmentReachable, Stored
  <1> QED
    BY <1>8, <1>9, <1>10, <1>11, <1>12, <1>13, <1>14, <1>15, <1>16, <1>17, <1>18, <1>19
    DEF Inductive

LEMMA StageStep ==
    ASSUME Inductive, NEW r \in Requests, Stage(r)
    PROVE  Inductive'
  <1>1. PICK i \in DOMAIN file :
              /\ request[r] = Idle /\ Contest(i)
              /\ \/ /\ i \notin blob
                    /\ Go(r, [op |-> "deleting", id |-> i, has |-> FALSE])
                    /\ UNCHANGED objects
                 \/ /\ i \in blob
                    /\ blob' = blob \ {i} /\ staged' = staged \cup {<<i, r>>}
                    /\ Go(r, [op |-> "deleting", id |-> i, has |-> TRUE])
                 \/ /\ i \in blob
                    /\ staged' = staged \cup {<<i, r>>} /\ UNCHANGED blob
                    /\ Go(r, [op |-> "copied", id |-> i])
    BY DEF Stage
  <1>2. UNCHANGED <<backend, file, bill, poster, interrupted, overlapped>>
    BY DEF Stage, rows
  <1>3. i \in FileIds
    BY DEF Inductive, TypeOK
  <1>4. PICK new \in Running :
              /\ Go(r, new) /\ new.id = i
              /\ \/ /\ new.op = "deleting" /\ ~new.has /\ i \notin blob
                    /\ UNCHANGED <<blob, staged>>
                 \/ /\ new.op = "deleting" /\ new.has /\ i \in blob
                    /\ blob' = blob \ {i} /\ staged' = staged \cup {<<i, r>>}
                 \/ /\ new.op = "copied" /\ i \in blob /\ UNCHANGED blob
                    /\ staged' = staged \cup {<<i, r>>}
    <2> DEFINE a == [op |-> "deleting", id |-> i, has |-> FALSE]
               b == [op |-> "deleting", id |-> i, has |-> TRUE]
               c == [op |-> "copied", id |-> i]
    <2>1. a \in Running /\ b \in Running /\ c \in Running
      BY <1>3 DEF Running
    <2>2. /\ a.id = i /\ a.op = "deleting" /\ ~a.has
          /\ b.id = i /\ b.op = "deleting" /\ b.has
          /\ c.id = i /\ c.op = "copied"
      OBVIOUS
    <2> HIDE DEF a, b, c
    <2>3. \/ i \notin blob /\ Go(r, a) /\ UNCHANGED <<blob, staged>>
          \/ /\ i \in blob /\ blob' = blob \ {i} /\ staged' = staged \cup {<<i, r>>}
             /\ Go(r, b)
          \/ i \in blob /\ staged' = staged \cup {<<i, r>>} /\ UNCHANGED blob /\ Go(r, c)
      BY <1>1 DEF a, b, c, objects
    <2> QED
      BY <2>1, <2>2, <2>3
  <1>5. /\ request' \in [Requests -> Running \cup {Idle}]
        /\ request'[r] = new
        /\ \A q \in Requests : q # r => request'[q] = request[q]
        /\ new # Idle
    BY <1>4, GoType DEF Inductive, Idle
  <1>6. /\ contested \subseteq contested' /\ contested' \subseteq contested \cup {i}
        /\ \A q \in Requests : Removes(q, i) => i \in contested'
    BY <1>1, <1>3, EndingRemoves, NoneIsNoFile DEF Contest
  <1>7. None \notin FileIds /\ (\A q \in Requests : request[q].op # "idle" => request[q] # Idle)
    BY NoneIsNoFile DEF Idle
  <1>8. \A q \in Requests : request[q].op \in {"stored", "replacing"} => q # r /\ request[q].id # i
    BY <1>1 DEF Inductive, Fresh, Idle
  <1>9. TypeOK'
    BY <1>2, <1>4, <1>5, <1>6 DEF Inductive, TypeOK
  <1>10. Fresh'
    BY <1>2, <1>4, <1>5, <1>6 DEF Inductive, Fresh
  <1>11. Replaced'
    BY <1>2, <1>4, <1>5, <1>6 DEF Inductive, Replaced
  <1>12. TwoRemove'
    BY <1>4, <1>5, <1>6 DEF Inductive, TwoRemove, Removes
  <1>13. Gone'
    BY <1>2, <1>4, <1>5 DEF Inductive, Gone
  <1>14. Kept'
    BY <1>2, <1>4, <1>5, <1>6 DEF Inductive, Kept
  <1>15. BlobAway'
    BY <1>2, <1>4, <1>5, <1>6 DEF Inductive, BlobAway
  <1>16. OwnStaged'
    BY <1>1, <1>2, <1>3, <1>4, <1>5, <1>7 DEF Inductive, OwnStaged, NothingLeftBehind
  <1>17. BlobOrRestorer'
    BY <1>1, <1>2, <1>4, <1>5, <1>7 DEF Inductive, BlobOrRestorer
  <1>18. PosterFiles'
    BY <1>2 DEF Inductive, PosterFiles
  <1>19. NothingLeftBehind'
    BY <1>1, <1>2, <1>4, <1>5, <1>6, <1>7
    DEF Inductive, NothingLeftBehind, At, Stored
  <1>20. AttachmentReachable'
    BY <1>2 DEF Inductive, AttachmentReachable, Stored
  <1> QED
    BY <1>9, <1>10, <1>11, <1>12, <1>13, <1>14, <1>15, <1>16, <1>17, <1>18, <1>19, <1>20
    DEF Inductive

LEMMA StageOriginalStep ==
    ASSUME Inductive, NEW r \in Requests, StageOriginal(r)
    PROVE  Inductive'
  <1>1. PICK i \in FileIds :
              /\ request[r].op = "copied" /\ i = request[r].id /\ request[r] # Idle
              /\ \/ /\ blob' = blob \ {i}
                    /\ Go(r, [op |-> "deleting", id |-> i, has |-> TRUE])
                    /\ UNCHANGED <<staged, interrupted>>
                 \/ DropStaged(i, r) /\ Go(r, Idle) /\ UNCHANGED blob
    BY RequestColumns DEF StageOriginal, Inductive, Idle
  <1>2. UNCHANGED <<backend, file, bill, poster, contested, overlapped>>
    BY DEF StageOriginal, rows
  <1>3. \/ /\ blob' = blob \ {i} /\ UNCHANGED <<staged, interrupted>>
           /\ request'[r] = [op |-> "deleting", id |-> i, has |-> TRUE]
        \/ /\ UNCHANGED blob /\ request'[r] = Idle
           /\ \/ staged' = staged \ {<<i, r>>} /\ UNCHANGED interrupted
              \/ UNCHANGED staged /\ interrupted' = interrupted \cup {i}
    BY <1>1, GoType DEF Inductive, Running, DropStaged
  <1>4. /\ request' \in [Requests -> Running \cup {Idle}]
        /\ \A q \in Requests : q # r => request'[q] = request[q]
    BY <1>1, GoType DEF Inductive, Running
  <1>5. \A q \in Requests : request[q].op \in {"stored", "replacing"} => q # r /\ request[q].id # i
    BY <1>1 DEF Inductive, Fresh
  <1>6. None \notin FileIds /\ (\A q \in Requests : request[q].op # "idle" => request[q] # Idle)
    BY NoneIsNoFile DEF Idle
  <1>7. Idle.op = "idle"
    BY DEF Idle
  <1>8. TypeOK'
    BY <1>2, <1>3, <1>4 DEF Inductive, TypeOK
  <1>9. Fresh'
    BY <1>2, <1>3, <1>4, <1>5, <1>7 DEF Inductive, Fresh
  <1>10. Replaced'
    BY <1>2, <1>3, <1>4, <1>7 DEF Inductive, Replaced
  <1>11. TwoRemove'
    BY <1>1, <1>2, <1>3, <1>4, <1>7 DEF Inductive, TwoRemove, Removes
  <1>12. Gone'
    BY <1>2, <1>3, <1>4, <1>7 DEF Inductive, Gone
  <1>13. Kept'
    BY <1>1, <1>2, <1>3, <1>4, <1>7 DEF Inductive, Kept
  <1>14. BlobAway'
    BY <1>2, <1>3, <1>4, <1>7 DEF Inductive, BlobAway
  <1>15. OwnStaged'
    BY <1>3, <1>4, <1>7 DEF Inductive, OwnStaged
  <1>16. BlobOrRestorer'
    BY <1>1, <1>2, <1>3, <1>4 DEF Inductive, BlobOrRestorer
  <1>17. PosterFiles'
    BY <1>2 DEF Inductive, PosterFiles
  <1>18. NothingLeftBehind'
    BY <1>1, <1>2, <1>3, <1>4 DEF Inductive, NothingLeftBehind, At, Stored
  <1>19. AttachmentReachable'
    BY <1>2 DEF Inductive, AttachmentReachable, Stored
  <1> QED
    BY <1>8, <1>9, <1>10, <1>11, <1>12, <1>13, <1>14, <1>15, <1>16, <1>17, <1>18, <1>19
    DEF Inductive

LEMMA ReadReferencesStep ==
    ASSUME Inductive, NEW r \in Requests, ReadReferences(r)
    PROVE  Inductive'
  <1>1. PICK i \in FileIds, has \in BOOLEAN, detach \in BOOLEAN, shown \in SUBSET FileIds :
              /\ request[r].op = "deleting" /\ request[r].id = i /\ request[r].has = has
              /\ request[r] # Idle
              /\ Go(r, [op |-> "committing", id |-> i, has |-> has, detach |-> detach,
                       posters |-> shown])
    BY RequestColumns DEF ReadReferences, Inductive, TypeOK, Idle
  <1>2. UNCHANGED <<backend, file, bill, poster, blob, staged, interrupted, contested, overlapped>>
    BY DEF ReadReferences, rows, objects
  <1>3. /\ request' \in [Requests -> Running \cup {Idle}]
        /\ request'[r] = [op |-> "committing", id |-> i, has |-> has, detach |-> detach,
                          posters |-> shown]
        /\ \A q \in Requests : q # r => request'[q] = request[q]
    BY <1>1, GoType DEF Inductive, Running
  <1>4. \A q \in Requests : request[q].op \in {"stored", "replacing"} => q # r /\ request[q].id # i
    BY <1>1 DEF Inductive, Fresh
  <1>5. None \notin FileIds /\ (\A q \in Requests : request[q].op # "idle" => request[q] # Idle)
    BY NoneIsNoFile DEF Idle
  <1>6. TypeOK'
    BY <1>2, <1>3 DEF Inductive, TypeOK
  <1>7. Fresh'
    BY <1>2, <1>3, <1>4 DEF Inductive, Fresh
  <1>8. Replaced'
    BY <1>2, <1>3 DEF Inductive, Replaced
  <1>9. TwoRemove'
    BY <1>1, <1>2, <1>3 DEF Inductive, TwoRemove, Removes
  <1>10. Gone'
    BY <1>2, <1>3 DEF Inductive, Gone
  <1>11. Kept'
    BY <1>1, <1>2, <1>3 DEF Inductive, Kept
  <1>12. BlobAway'
    BY <1>1, <1>2, <1>3 DEF Inductive, BlobAway
  <1>13. OwnStaged'
    BY <1>1, <1>2, <1>3 DEF Inductive, OwnStaged
  <1>14. BlobOrRestorer'
    BY <1>1, <1>2, <1>3 DEF Inductive, BlobOrRestorer
  <1>15. PosterFiles'
    BY <1>2 DEF Inductive, PosterFiles
  <1>16. NothingLeftBehind'
    BY <1>1, <1>2, <1>3 DEF Inductive, NothingLeftBehind, At, Stored
  <1>17. AttachmentReachable'
    BY <1>2 DEF Inductive, AttachmentReachable, Stored
  <1> QED
    BY <1>6, <1>7, <1>8, <1>9, <1>10, <1>11, <1>12, <1>13, <1>14, <1>15, <1>16, <1>17
    DEF Inductive

LEMMA CommitDeleteStep ==
    ASSUME Inductive, NEW r \in Requests, CommitDelete(r)
    PROVE  Inductive'
  <1>1. PICK i \in FileIds, has \in BOOLEAN, detach \in BOOLEAN :
              /\ request[r].op = "committing" /\ i = request[r].id /\ has = request[r].has
              /\ request[r] # Idle
              /\ file' = Without({i}) /\ poster' = poster \ {i}
              /\ bill' = IF detach \/ bill = i THEN None ELSE bill
              /\ overlapped' = (overlapped \/ (detach /\ bill # i))
              /\ Go(r, IF has THEN [op |-> "finalizing", id |-> i] ELSE Idle)
    BY RequestColumns DEF CommitDelete, Inductive, Idle
  <1>2. UNCHANGED <<backend, blob, staged, interrupted, contested>>
    BY DEF CommitDelete, objects
  <1>3. /\ request' \in [Requests -> Running \cup {Idle}]
        /\ request'[r] = IF has THEN [op |-> "finalizing", id |-> i] ELSE Idle
        /\ \A q \in Requests : q # r => request'[q] = request[q]
    BY <1>1, GoType DEF Inductive, Running
  <1>4. /\ DOMAIN file' = DOMAIN file \ {i}
        /\ \A j \in DOMAIN file \ {i} : file'[j] = file[j]
    BY <1>1 DEF Without
  <1>5. \A q \in Requests : q # r /\ Removes(q, i) => i \in contested
    BY <1>1 DEF Inductive, TwoRemove, Removes
  <1>6. \A q \in Requests : request[q].op \in {"stored", "replacing"} => q # r /\ request[q].id # i
    BY <1>1 DEF Inductive, Fresh
  <1>7. None \notin FileIds /\ (\A q \in Requests : request[q].op # "idle" => request[q] # Idle)
    BY NoneIsNoFile DEF Idle
  <1>8. Idle.op = "idle" /\ DOMAIN file \subseteq FileIds
    BY DEF Idle, Inductive, TypeOK
  <1>9. /\ request'[r].op \in {"idle", "finalizing"}
        /\ has => request'[r].op = "finalizing" /\ request'[r].id = i
        /\ i \in blob => i \in interrupted \cup contested
        /\ ~has /\ <<i, r>> \in staged => i \in interrupted
    BY <1>1, <1>3 DEF Idle, Inductive, BlobAway, OwnStaged
  <1>10. TypeOK'
    BY <1>1, <1>2, <1>3, <1>4 DEF Inductive, TypeOK
  <1>11. Fresh'
    BY <1>2, <1>3, <1>4, <1>6, <1>9 DEF Inductive, Fresh
  <1>12. Replaced'
    <2>1. \A q \in Requests : request'[q].op = "replacing" =>
                q # r /\ request'[q] = request[q]
      BY <1>3, <1>9
    <2>2. \A q \in Requests : q # r /\ request[q].op = "replacing" /\ request[q].old = i =>
                i \in contested
      BY <1>5 DEF Removes
    <2> QED
      BY <1>2, <1>4, <2>1, <2>2 DEF Inductive, Replaced
  <1>13. TwoRemove'
    BY <1>2, <1>3, <1>5, <1>8 DEF Inductive, TwoRemove, Removes
  <1>14. Gone'
    BY <1>3, <1>4, <1>8 DEF Inductive, Gone
  <1>15. Kept'
    BY <1>2, <1>3, <1>4, <1>5, <1>9 DEF Inductive, Kept, Removes
  <1>16. BlobAway'
    BY <1>2, <1>3, <1>8, <1>9 DEF Inductive, BlobAway
  <1>17. OwnStaged'
    BY <1>2, <1>3, <1>9 DEF Inductive, OwnStaged
  <1>18. BlobOrRestorer'
    BY <1>1, <1>2, <1>3, <1>4 DEF Inductive, BlobOrRestorer
  <1>19. PosterFiles'
    BY <1>1, <1>2, <1>4 DEF Inductive, PosterFiles
  <1>20. NothingLeftBehind'
    <2>1. \A j \in blob' : \/ Stored(j)' \/ At(j, {"stored", "replacing", "dropping"})'
                          \/ j \in interrupted' \cup contested'
      <3> SUFFICES ASSUME NEW j \in blob
                   PROVE  \/ j \in DOMAIN file'
                          \/ \E q \in Requests :
                                /\ request'[q].op \in {"stored", "replacing", "dropping"}
                                /\ request'[q].id = j
                          \/ j \in interrupted \cup contested
        BY <1>2 DEF Stored, At
      <3>1. CASE j = i
        BY <1>9, <3>1
      <3>2. CASE j # i
        <4>1. \/ j \in DOMAIN file \/ j \in interrupted \cup contested
              \/ \E q \in Requests : /\ request[q].op \in {"stored", "replacing", "dropping"}
                                     /\ request[q].id = j
          BY DEF Inductive, NothingLeftBehind, Stored, At
        <4> QED
          BY <1>1, <1>3, <1>4, <3>2, <4>1
      <3> QED
        BY <3>1, <3>2
    <2>2. ASSUME NEW j \in FileIds, NEW q \in Requests, <<j, q>> \in staged
          PROVE  \/ /\ request'[q].op \in {"copied", "deleting", "committing", "finalizing",
                                            "restoring"}
                    /\ request'[q].id = j
                 \/ j \in interrupted
      <3>1. CASE q = r
        BY <1>1, <1>9, <2>2, <3>1 DEF Inductive, NothingLeftBehind
      <3>2. CASE q # r
        BY <1>3, <2>2, <3>2 DEF Inductive, NothingLeftBehind
      <3> QED
        BY <3>1, <3>2
    <2> QED
      BY <1>2, <2>1, <2>2 DEF NothingLeftBehind
  <1>21. AttachmentReachable'
    BY <1>1, <1>4
    DEF Inductive, AttachmentReachable, Stored
  <1> QED
    BY <1>10, <1>11, <1>12, <1>13, <1>14, <1>15, <1>16, <1>17, <1>18, <1>19, <1>20, <1>21
    DEF Inductive

LEMMA FailDeleteStep ==
    ASSUME Inductive, NEW r \in Requests, FailDelete(r)
    PROVE  Inductive'
  <1>1. PICK i \in FileIds, has \in BOOLEAN :
              /\ request[r].op \in {"deleting", "committing"} /\ i = request[r].id
              /\ has = request[r].has /\ request[r] # Idle
              /\ Go(r, IF has THEN [op |-> "restoring", id |-> i] ELSE Idle)
    BY RequestColumns DEF FailDelete, Inductive, Idle
  <1>2. UNCHANGED <<backend, file, bill, poster, blob, staged, interrupted, contested, overlapped>>
    BY DEF FailDelete, rows, objects
  <1>3. /\ request' \in [Requests -> Running \cup {Idle}]
        /\ request'[r] = IF has THEN [op |-> "restoring", id |-> i] ELSE Idle
        /\ \A q \in Requests : q # r => request'[q] = request[q]
    BY <1>1, GoType DEF Inductive, Running
  <1>4. \A q \in Requests : request[q].op \in {"stored", "replacing"} => q # r /\ request[q].id # i
    BY <1>1 DEF Inductive, Fresh
  <1>5. None \notin FileIds /\ (\A q \in Requests : request[q].op # "idle" => request[q] # Idle)
    BY NoneIsNoFile DEF Idle
  <1>6. Idle.op = "idle"
    BY DEF Idle
  <1>7. TypeOK'
    BY <1>2, <1>3 DEF Inductive, TypeOK
  <1>8. Fresh'
    BY <1>2, <1>3, <1>4, <1>6 DEF Inductive, Fresh
  <1>9. Replaced'
    BY <1>2, <1>3, <1>6 DEF Inductive, Replaced
  <1>10. TwoRemove'
    BY <1>1, <1>2, <1>3, <1>6 DEF Inductive, TwoRemove, Removes
  <1>11. Gone'
    BY <1>2, <1>3, <1>6 DEF Inductive, Gone
  <1>12. Kept'
    BY <1>1, <1>2, <1>3, <1>6 DEF Inductive, Kept
  <1>13. BlobAway'
    BY <1>1, <1>2, <1>3, <1>6 DEF Inductive, BlobAway
  <1>14. OwnStaged'
    BY <1>2, <1>3, <1>6 DEF Inductive, OwnStaged
  <1>15. BlobOrRestorer'
    BY <1>1, <1>2, <1>3 DEF Inductive, BlobOrRestorer
  <1>16. PosterFiles'
    BY <1>2 DEF Inductive, PosterFiles
  <1>17. NothingLeftBehind'
    BY <1>1, <1>2, <1>3
    DEF Inductive, NothingLeftBehind, At, Stored, OwnStaged, BlobAway
  <1>18. AttachmentReachable'
    BY <1>2 DEF Inductive, AttachmentReachable, Stored
  <1> QED
    BY <1>7, <1>8, <1>9, <1>10, <1>11, <1>12, <1>13, <1>14, <1>15, <1>16, <1>17, <1>18
    DEF Inductive

LEMMA RestoreStep ==
    ASSUME Inductive, NEW r \in Requests, Restore(r)
    PROVE  Inductive'
  <1>1. PICK i \in FileIds :
              /\ request[r].op = "restoring" /\ i = request[r].id /\ request[r] # Idle
              /\ \/ blob' = blob \cup {i} /\ DropStaged(i, r)
                 \/ interrupted' = interrupted \cup {i} /\ UNCHANGED objects
              /\ Go(r, Idle)
    BY RequestColumns DEF Restore, Inductive, Idle
  <1>2. UNCHANGED <<backend, file, bill, poster, contested, overlapped>>
    BY DEF Restore, rows
  <1>3. /\ request' \in [Requests -> Running \cup {Idle}]
        /\ request'[r] = Idle
        /\ \A q \in Requests : q # r => request'[q] = request[q]
    BY <1>1, GoType DEF Inductive
  <1>4. \/ /\ blob' = blob \cup {i} /\ staged' = staged \ {<<i, r>>} /\ UNCHANGED interrupted
        \/ /\ blob' = blob \cup {i} /\ UNCHANGED staged /\ interrupted' = interrupted \cup {i}
        \/ UNCHANGED <<blob, staged>> /\ interrupted' = interrupted \cup {i}
    BY <1>1 DEF DropStaged, objects
  <1>5. /\ i \in DOMAIN file \cup contested
        /\ \A q \in Requests : q # r /\ Removes(q, i) => i \in contested
    BY <1>1 DEF Inductive, Kept, TwoRemove, Removes
  <1>6. \A q \in Requests : request[q].op \in {"stored", "replacing"} => q # r /\ request[q].id # i
    BY <1>1 DEF Inductive, Fresh
  <1>7. None \notin FileIds /\ (\A q \in Requests : request[q].op # "idle" => request[q] # Idle)
    BY NoneIsNoFile DEF Idle
  <1>8. Idle.op = "idle"
    BY DEF Idle
  <1>9. TypeOK'
    BY <1>2, <1>3, <1>4 DEF Inductive, TypeOK
  <1>10. Fresh'
    BY <1>2, <1>3, <1>4, <1>8 DEF Inductive, Fresh
  <1>11. Replaced'
    BY <1>2, <1>3, <1>8 DEF Inductive, Replaced
  <1>12. TwoRemove'
    BY <1>2, <1>3, <1>8 DEF Inductive, TwoRemove, Removes
  <1>13. Gone'
    BY <1>2, <1>3, <1>8 DEF Inductive, Gone
  <1>14. Kept'
    BY <1>2, <1>3, <1>8 DEF Inductive, Kept
  <1>15. BlobAway'
    BY <1>2, <1>3, <1>4, <1>5, <1>8 DEF Inductive, BlobAway, Removes
  <1>16. OwnStaged'
    BY <1>3, <1>4, <1>8 DEF Inductive, OwnStaged
  <1>17. BlobOrRestorer'
    BY <1>1, <1>2, <1>3, <1>4 DEF Inductive, BlobOrRestorer
  <1>18. PosterFiles'
    BY <1>2 DEF Inductive, PosterFiles
  <1>19. NothingLeftBehind'
    BY <1>1, <1>2, <1>3, <1>4, <1>5
    DEF Inductive, NothingLeftBehind, At, Stored
  <1>20. AttachmentReachable'
    BY <1>2 DEF Inductive, AttachmentReachable, Stored
  <1> QED
    BY <1>9, <1>10, <1>11, <1>12, <1>13, <1>14, <1>15, <1>16, <1>17, <1>18, <1>19, <1>20
    DEF Inductive

LEMMA FinalizeStep ==
    ASSUME Inductive, NEW r \in Requests, Finalize(r)
    PROVE  Inductive'
  <1>1. PICK i \in FileIds :
              /\ request[r].op = "finalizing" /\ i = request[r].id /\ request[r] # Idle
              /\ DropStaged(i, r) /\ Go(r, Idle)
    BY RequestColumns DEF Finalize, Inductive, Idle
  <1>2. UNCHANGED <<backend, file, bill, poster, blob, contested, overlapped>>
    BY DEF Finalize, rows
  <1>3. /\ request' \in [Requests -> Running \cup {Idle}]
        /\ request'[r] = Idle
        /\ \A q \in Requests : q # r => request'[q] = request[q]
    BY <1>1, GoType DEF Inductive
  <1>4. \/ staged' = staged \ {<<i, r>>} /\ UNCHANGED interrupted
        \/ UNCHANGED staged /\ interrupted' = interrupted \cup {i}
    BY <1>1 DEF DropStaged
  <1>5. \A q \in Requests : request[q].op \in {"stored", "replacing"} => q # r /\ request[q].id # i
    BY <1>1 DEF Inductive, Fresh
  <1>6. None \notin FileIds /\ (\A q \in Requests : request[q].op # "idle" => request[q] # Idle)
    BY NoneIsNoFile DEF Idle
  <1>7. Idle.op = "idle"
    BY DEF Idle
  <1>8. TypeOK'
    BY <1>2, <1>3, <1>4 DEF Inductive, TypeOK
  <1>9. Fresh'
    BY <1>2, <1>3, <1>7 DEF Inductive, Fresh
  <1>10. Replaced'
    BY <1>2, <1>3, <1>7 DEF Inductive, Replaced
  <1>11. TwoRemove'
    BY <1>2, <1>3, <1>7 DEF Inductive, TwoRemove, Removes
  <1>12. Gone'
    BY <1>2, <1>3, <1>7 DEF Inductive, Gone
  <1>13. Kept'
    BY <1>2, <1>3, <1>7 DEF Inductive, Kept
  <1>14. BlobAway'
    BY <1>2, <1>3, <1>4, <1>7 DEF Inductive, BlobAway
  <1>15. OwnStaged'
    BY <1>3, <1>4, <1>7 DEF Inductive, OwnStaged
  <1>16. BlobOrRestorer'
    BY <1>1, <1>2, <1>3, <1>4 DEF Inductive, BlobOrRestorer
  <1>17. PosterFiles'
    BY <1>2 DEF Inductive, PosterFiles
  <1>18. NothingLeftBehind'
    BY <1>1, <1>2, <1>3, <1>4 DEF Inductive, NothingLeftBehind, At, Stored
  <1>19. AttachmentReachable'
    BY <1>2 DEF Inductive, AttachmentReachable, Stored
  <1> QED
    BY <1>8, <1>9, <1>10, <1>11, <1>12, <1>13, <1>14, <1>15, <1>16, <1>17, <1>18, <1>19
    DEF Inductive

LEMMA CrashStep ==
    ASSUME Inductive, NEW r \in Requests, Crash(r)
    PROVE  Inductive'
  <1>1. PICK i \in FileIds : /\ i = request[r].id /\ request[r] # Idle /\ Go(r, Idle)
                             /\ interrupted' = interrupted \cup {i}
    BY RequestColumns DEF Crash, Inductive, Idle
  <1>2. UNCHANGED <<backend, file, bill, poster, blob, staged, contested, overlapped>>
    BY DEF Crash, rows, objects
  <1>3. /\ request' \in [Requests -> Running \cup {Idle}]
        /\ request'[r] = Idle
        /\ \A q \in Requests : q # r => request'[q] = request[q]
    BY <1>1, GoType DEF Inductive
  <1>4. None \notin FileIds /\ (\A q \in Requests : request[q].op # "idle" => request[q] # Idle)
    BY NoneIsNoFile DEF Idle
  <1>5. Idle.op = "idle"
    BY DEF Idle
  <1>6. TypeOK'
    BY <1>1, <1>2, <1>3 DEF Inductive, TypeOK
  <1>7. Fresh'
    BY <1>2, <1>3, <1>5 DEF Inductive, Fresh
  <1>8. Replaced'
    BY <1>2, <1>3, <1>5 DEF Inductive, Replaced
  <1>9. TwoRemove'
    BY <1>2, <1>3, <1>5 DEF Inductive, TwoRemove, Removes
  <1>10. Gone'
    BY <1>2, <1>3, <1>5 DEF Inductive, Gone
  <1>11. Kept'
    BY <1>2, <1>3, <1>5 DEF Inductive, Kept
  <1>12. BlobAway'
    BY <1>1, <1>2, <1>3, <1>5 DEF Inductive, BlobAway
  <1>13. OwnStaged'
    BY <1>1, <1>2, <1>3, <1>5 DEF Inductive, OwnStaged
  <1>14. BlobOrRestorer'
    BY <1>1, <1>2, <1>3 DEF Inductive, BlobOrRestorer
  <1>15. PosterFiles'
    BY <1>2 DEF Inductive, PosterFiles
  <1>16. NothingLeftBehind'
    BY <1>1, <1>2, <1>3 DEF Inductive, NothingLeftBehind, At, Stored
  <1>17. AttachmentReachable'
    BY <1>2 DEF Inductive, AttachmentReachable, Stored
  <1> QED
    BY <1>6, <1>7, <1>8, <1>9, <1>10, <1>11, <1>12, <1>13, <1>14, <1>15, <1>16, <1>17
    DEF Inductive

LEMMA CreatePosterStep == ASSUME Inductive, CreatePoster PROVE Inductive'
  <1>1. PICK i \in DOMAIN file : file[i] = "poster" /\ poster' = poster \cup {i}
    BY DEF CreatePoster
  <1>2. UNCHANGED <<backend, file, bill, blob, staged, request, interrupted, contested,
                    overlapped>>
    BY DEF CreatePoster, objects
  <1>3. TypeOK'
    BY <1>1, <1>2 DEF Inductive, TypeOK
  <1>4. Fresh' /\ Replaced' /\ TwoRemove' /\ Gone' /\ Kept' /\ BlobAway' /\ OwnStaged'
    BY <1>2 DEF Inductive, Fresh, Replaced, TwoRemove, Removes, Gone, Kept, BlobAway, OwnStaged
  <1>5. BlobOrRestorer' /\ PosterFiles' /\ NothingLeftBehind' /\ AttachmentReachable'
    BY <1>1, <1>2 DEF Inductive, BlobOrRestorer, PosterFiles, NothingLeftBehind, At, Stored,
                      AttachmentReachable
  <1> QED
    BY <1>3, <1>4, <1>5 DEF Inductive

LEMMA Stuttering == ASSUME Inductive, UNCHANGED vars PROVE Inductive'
  <1>1. UNCHANGED <<backend, file, bill, poster, blob, staged, request, interrupted, contested,
                    overlapped>>
    BY DEF vars
  <1>2. TypeOK'
    BY <1>1 DEF Inductive, TypeOK
  <1>3. Fresh' /\ Replaced' /\ TwoRemove' /\ Gone' /\ Kept' /\ BlobAway' /\ OwnStaged'
    BY <1>1 DEF Inductive, Fresh, Replaced, TwoRemove, Removes, Gone, Kept, BlobAway, OwnStaged
  <1>4. BlobOrRestorer' /\ PosterFiles' /\ NothingLeftBehind' /\ AttachmentReachable'
    BY <1>1 DEF Inductive, BlobOrRestorer, PosterFiles, NothingLeftBehind, At, Stored,
                AttachmentReachable
  <1> QED
    BY <1>2, <1>3, <1>4 DEF Inductive

----------------------------------------------------------------------------
(* The theorems. *)

LEMMA AlwaysInductive == Spec => []Inductive
  <1>1. Inductive /\ [Next]_vars => Inductive'
    BY PutStep, ReadBillStep, CommitUploadStep, FailUploadStep, DropReplacedStep, StageStep,
       StageOriginalStep, ReadReferencesStep, CommitDeleteStep, FailDeleteStep, RestoreStep,
       FinalizeStep, CrashStep, CreatePosterStep, Stuttering DEF Next
  <1> QED
    BY <1>1, InitInductive, PTL DEF Spec

\* Rows, blobs and requests keep their types (file_service.py, storage.py).
THEOREM TypeCorrect == Spec => []TypeOK
  <1>1. Inductive => TypeOK
    BY DEF Inductive
  <1> QED
    BY <1>1, AlwaysInductive, PTL

\* A row is without its blob only while its file is being deleted, or after a
\* crash or a refusal of the storage (save_file, delete_file).
THEOREM RowsAlwaysHaveBlobs == Spec => []RowsHaveBlobs
  <1>1. Inductive => RowsHaveBlobs
    BY DEF Inductive, BlobOrRestorer, RowsHaveBlobs, At
  <1> QED
    BY <1>1, AlwaysInductive, PTL

\* Whatever is in the storage is accounted for by a row, by a request at work, by
\* an interruption, or by two requests that removed one file at once
\* (stage_delete, finalize_staged_delete, restore_staged_delete).
THEOREM NothingEverLeftBehind == Spec => []NothingLeftBehind
  <1>1. Inductive => NothingLeftBehind
    BY DEF Inductive
  <1> QED
    BY <1>1, AlwaysInductive, PTL

\* The bill shows its one attachment, unless two requests changed it at once
\* (save_file, delete_file).
THEOREM AttachmentAlwaysReachable == Spec => []AttachmentReachable
  <1>1. Inductive => AttachmentReachable
    BY DEF Inductive
  <1> QED
    BY <1>1, AlwaysInductive, PTL
================================================================================
