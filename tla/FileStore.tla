------------------------------- MODULE FileStore -------------------------------
(***************************************************************************)
(* Stored files (file_service.py, storage.py): a row in the database and a *)
(* blob in a directory or an S3 bucket, which no transaction covers both   *)
(* of.  An upload stores the blob, then commits the row; a deletion stages *)
(* the blob, commits, then drops it, and puts it back when the commit      *)
(* fails.  One bill has one attachment, which an upload replaces; posters  *)
(* show a file and go with it.  A request may end at any step (crash).     *)
(***************************************************************************)
EXTENDS Integers, FiniteSets

CONSTANTS FileIds,     \* identifiers of rows and, alike, names of blobs
          Requests     \* concurrent requests

None == 0
\* What files belong to; files of customers and projects are as the files of
\* posters before a poster shows them.
Owners == {"bill", "poster"}

ASSUME FileAssumption == FileIds \subseteq Nat \ {None}

VARIABLES backend,      \* STORAGE_TYPE
          file,         \* stored_files: the owners of the rows
          bill,         \* the file_id of the bill
          poster,       \* files posters show
          blob,         \* objects under active/
          staged,       \* objects under temp/delete-..., with the request that staged them
          request,      \* what every request is doing
          interrupted,  \* history: files whose request crashed or was left by the storage
          contested,    \* history: files that two requests were removing at once
          overlapped    \* history: the attachment was written by one who had read another

vars == <<backend, file, bill, poster, blob, staged, request, interrupted, contested, overlapped>>
rows == <<file, bill, poster>>
objects == <<blob, staged>>

Idle == [op |-> "idle"]
Running == [op: {"stored"}, id: FileIds, owner: Owners]
           \cup [op: {"replacing"}, id: FileIds, owner: Owners, old: FileIds \cup {None}]
           \cup [op: {"dropping"}, id: FileIds]
           \cup [op: {"copied"}, id: FileIds]
           \cup [op: {"deleting"}, id: FileIds, has: BOOLEAN]
           \cup [op: {"committing"}, id: FileIds, has: BOOLEAN, detach: BOOLEAN,
                 posters: SUBSET FileIds]
           \cup [op: {"finalizing", "restoring"}, id: FileIds]

TypeOK == /\ backend \in {"local", "s3"}
          /\ DOMAIN file \subseteq FileIds /\ \A i \in DOMAIN file : file[i] \in Owners
          /\ bill \in FileIds \cup {None}
          /\ poster \subseteq FileIds
          /\ blob \subseteq FileIds /\ staged \subseteq FileIds \X Requests
          /\ request \in [Requests -> Running \cup {Idle}]
          /\ interrupted \subseteq FileIds /\ contested \subseteq FileIds
          /\ overlapped \in BOOLEAN

Init == /\ backend \in {"local", "s3"}
        /\ file = [i \in {} |-> "bill"] /\ bill = None /\ poster = {}
        /\ blob = {} /\ staged = {}
        /\ request = [r \in Requests |-> Idle]
        /\ interrupted = {} /\ contested = {} /\ overlapped = FALSE

----------------------------------------------------------------------------

Go(r, state) == request' = [request EXCEPT ![r] = state]
Stored(i) == i \in DOMAIN file
Without(S) == [i \in DOMAIN file \ S |-> file[i]]
At(i, ops) == \E r \in Requests : request[r].op \in ops /\ request[r].id = i
Touched(i) == \/ i \in DOMAIN file \cup blob \cup interrupted \cup contested \cup poster
              \/ \E r \in Requests : <<i, r>> \in staged \/ (request[r] # Idle /\ request[r].id = i)
\* A request is removing the file.
Ending(i) == \/ At(i, {"copied", "deleting", "committing", "finalizing", "restoring", "dropping"})
             \/ \E r \in Requests : request[r].op = "replacing" /\ request[r].old = i
Contest(i) == contested' = IF i # None /\ Ending(i) THEN contested \cup {i} ELSE contested
\* A best-effort deletion of an object, which may fail without a word.
DropBlob(i) == \/ blob' = blob \ {i} /\ UNCHANGED interrupted
               \/ UNCHANGED blob /\ interrupted' = interrupted \cup {i}
DropStaged(i, r) == \/ staged' = staged \ {<<i, r>>} /\ UNCHANGED interrupted
                    \/ UNCHANGED staged /\ interrupted' = interrupted \cup {i}

----------------------------------------------------------------------------
(* save_file *)

\* The content is validated and scanned, and the blob stored under a new name.
Put(r) == /\ request[r] = Idle
          /\ \E i \in FileIds, owner \in Owners :
                /\ ~Touched(i) /\ \A j \in FileIds : j < i => Touched(j)
                /\ Go(r, [op |-> "stored", id |-> i, owner |-> owner])
                /\ blob' = blob \cup {i}
          /\ UNCHANGED <<backend, rows, staged, interrupted, contested, overlapped>>

\* The attachment to be replaced is the bill's as it is now.
ReadBill(r) == /\ request[r].op = "stored"
               /\ LET old == IF request[r].owner = "bill" THEN bill ELSE None
                  IN /\ Go(r, [op |-> "replacing", id |-> request[r].id,
                               owner |-> request[r].owner, old |-> old])
                     /\ Contest(old)
               /\ UNCHANGED <<backend, rows, objects, interrupted, overlapped>>

\* Mutant: the replaced row stays.
CommitUploadBeside(r) ==
    /\ request[r].op = "replacing"
    /\ LET i == request[r].id
           owner == request[r].owner
           old == request[r].old
       IN /\ file' = [j \in DOMAIN file \cup {i} |-> IF j = i THEN owner ELSE file[j]]
          /\ bill' = IF owner = "bill" THEN i ELSE bill
          /\ overlapped' = (overlapped \/ (owner = "bill" /\ bill # old))
          /\ Go(r, IF old = None THEN Idle ELSE [op |-> "dropping", id |-> old])
    /\ UNCHANGED <<backend, poster, objects, interrupted, contested>>

\* Deleting a replaced row that is gone already is no error.
CommitUpload(r) ==
    /\ request[r].op = "replacing"
    /\ LET i == request[r].id
           owner == request[r].owner
           old == request[r].old
       IN /\ file' = [j \in (DOMAIN file \ {old}) \cup {i} |-> IF j = i THEN owner ELSE file[j]]
          /\ bill' = IF owner = "bill" THEN i ELSE bill
          /\ overlapped' = (overlapped \/ (owner = "bill" /\ bill # old))
          /\ Go(r, IF old = None THEN Idle ELSE [op |-> "dropping", id |-> old])
    /\ UNCHANGED <<backend, poster, objects, interrupted, contested>>

\* The storage or the transaction fails: the new blob is deleted, if that works.
FailUpload(r) == /\ request[r].op \in {"stored", "replacing"}
                 /\ DropBlob(request[r].id)
                 /\ Go(r, Idle)
                 /\ UNCHANGED <<backend, rows, staged, contested, overlapped>>

DropReplaced(r) == /\ request[r].op = "dropping"
                   /\ DropBlob(request[r].id)
                   /\ Go(r, Idle)
                   /\ UNCHANGED <<backend, rows, staged, contested, overlapped>>

----------------------------------------------------------------------------
(* delete_file *)

\* get_file: the attachment of a bill is only found through the bill.
Accessible(i) == Stored(i) /\ (file[i] = "bill" => bill = i)

\* stage_delete: a rename in a directory; a copy, then a deletion, in a bucket.
Stage(r) ==
    /\ request[r] = Idle
    /\ \E i \in DOMAIN file :
        /\ Accessible(i) /\ Contest(i)
        /\ \/ /\ i \notin blob
              /\ Go(r, [op |-> "deleting", id |-> i, has |-> FALSE])
              /\ UNCHANGED objects
           \/ /\ i \in blob /\ backend = "local"
              /\ blob' = blob \ {i} /\ staged' = staged \cup {<<i, r>>}
              /\ Go(r, [op |-> "deleting", id |-> i, has |-> TRUE])
           \/ /\ i \in blob /\ backend = "s3"
              /\ staged' = staged \cup {<<i, r>>} /\ UNCHANGED blob
              /\ Go(r, [op |-> "copied", id |-> i])
    /\ UNCHANGED <<backend, rows, interrupted, overlapped>>

StageOriginal(r) ==
    /\ request[r].op = "copied"
    /\ LET i == request[r].id
       IN \/ /\ blob' = blob \ {i}
             /\ Go(r, [op |-> "deleting", id |-> i, has |-> TRUE])
             /\ UNCHANGED <<staged, interrupted>>
          \/ /\ DropStaged(i, r) /\ Go(r, Idle)      \* refused by the storage
             /\ UNCHANGED blob
    /\ UNCHANGED <<backend, rows, contested, overlapped>>

\* The posters of the file, and whether the bill shows it.
ReadReferences(r) ==
    /\ request[r].op = "deleting"
    /\ LET i == request[r].id
       IN Go(r, [op |-> "committing", id |-> i, has |-> request[r].has,
                 detach |-> (Stored(i) /\ file[i] = "bill" /\ bill = i),
                 posters |-> poster \cap {i}])
    /\ UNCHANGED <<backend, rows, objects, interrupted, contested, overlapped>>

\* The foreign key of a poster that was added meanwhile refuses the deletion;
\* that of the bill gives up the reference.
CommitDelete(r) ==
    /\ request[r].op = "committing"
    /\ LET q == request[r]
           i == q.id
       IN /\ i \in poster => i \in q.posters
          /\ file' = Without({i})
          /\ poster' = poster \ {i}
          /\ bill' = IF q.detach \/ bill = i THEN None ELSE bill
          /\ overlapped' = (overlapped \/ (q.detach /\ bill # i))
          /\ Go(r, IF q.has THEN [op |-> "finalizing", id |-> i] ELSE Idle)
    /\ UNCHANGED <<backend, objects, interrupted, contested>>

FailDelete(r) ==
    /\ request[r].op \in {"deleting", "committing"}
    /\ Go(r, IF request[r].has THEN [op |-> "restoring", id |-> request[r].id] ELSE Idle)
    /\ UNCHANGED <<backend, rows, objects, interrupted, contested, overlapped>>

\* Mutant: a failed deletion leaves the blob where it was staged.
RestoreForgotten(r) ==
    /\ request[r].op = "restoring" /\ Go(r, Idle)
    /\ UNCHANGED <<backend, rows, objects, interrupted, contested, overlapped>>

\* restore_staged_delete; the storage may refuse it, or the last part of it.
Restore(r) ==
    /\ request[r].op = "restoring"
    /\ LET i == request[r].id
       IN \/ blob' = blob \cup {i} /\ DropStaged(i, r)
          \/ interrupted' = interrupted \cup {i} /\ UNCHANGED objects
    /\ Go(r, Idle)
    /\ UNCHANGED <<backend, rows, contested, overlapped>>

\* Mutant: what was staged is left there.
FinalizeForgotten(r) ==
    /\ request[r].op = "finalizing" /\ Go(r, Idle)
    /\ UNCHANGED <<backend, rows, objects, interrupted, contested, overlapped>>

Finalize(r) == /\ request[r].op = "finalizing"
               /\ DropStaged(request[r].id, r)
               /\ Go(r, Idle)
               /\ UNCHANGED <<backend, rows, blob, contested, overlapped>>

----------------------------------------------------------------------------

\* create_poster, with the foreign key of its file.
CreatePoster == \E i \in DOMAIN file : /\ file[i] = "poster" /\ i \notin poster
                                       /\ poster' = poster \cup {i}
                                       /\ UNCHANGED <<backend, file, bill, objects, request,
                                                      interrupted, contested, overlapped>>

\* The process ends: what the database has not committed is rolled back.
Crash(r) == /\ request[r] # Idle
            /\ Go(r, Idle)
            /\ interrupted' = interrupted \cup {request[r].id}
            /\ UNCHANGED <<backend, rows, objects, contested, overlapped>>

Next == \/ \E r \in Requests :
              \/ Put(r) \/ ReadBill(r) \/ CommitUpload(r) \/ FailUpload(r) \/ DropReplaced(r)
              \/ Stage(r) \/ StageOriginal(r) \/ ReadReferences(r) \/ CommitDelete(r)
              \/ FailDelete(r) \/ Restore(r) \/ Finalize(r) \/ Crash(r)
        \/ CreatePoster

Spec == Init /\ [][Next]_vars

----------------------------------------------------------------------------

\* Every row has its blob, whatever uploads and deletions run together: it is
\* missing only while the file is being deleted, or after a crash or a refusal
\* of the storage had left the deletion half done.
RowsHaveBlobs ==
    \A i \in DOMAIN file : \/ i \in blob
                           \/ At(i, {"deleting", "committing", "restoring"})
                           \/ i \in interrupted

\* Nothing is left in the storage that neither a row nor a request accounts
\* for, unless a request was interrupted, or one that failed put back what
\* another was removing.
NothingLeftBehind ==
    /\ \A i \in blob : \/ Stored(i) \/ At(i, {"stored", "replacing", "dropping"})
                      \/ i \in interrupted \cup contested
    /\ \A i \in FileIds, r \in Requests :
          <<i, r>> \in staged =>
              \/ /\ request[r].op \in {"copied", "deleting", "committing", "finalizing",
                                      "restoring"}
                 /\ request[r].id = i
              \/ i \in interrupted

\* The bill shows its one attachment: another row of it, which nobody could
\* reach or delete, takes two requests that change the attachment at once.
AttachmentReachable ==
    /\ bill # None => Stored(bill) /\ file[bill] = "bill"
    /\ ~overlapped => \A i \in DOMAIN file : file[i] = "bill" => bill = i
    /\ poster \subseteq DOMAIN file
================================================================================
