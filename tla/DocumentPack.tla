------------------------------ MODULE DocumentPack ------------------------------
(***************************************************************************)
(* The document packs of a customer (operations_service.py): versions that *)
(* are drafted, generated and finalized, and that move the first steps of  *)
(* the project's timeline forward.  A draft is edited in place; after it   *)
(* has been generated, the next save begins a new version.  The snapshots  *)
(* a version holds are left out.                                           *)
(***************************************************************************)
EXTENDS ProjectTimeline, Sequences

CONSTANTS Clerks,        \* the sessions that work on the packs
          MaxVersions    \* bound: versions of the pack

ASSUME PackAssumption == Clerks \subseteq Sessions /\ MaxVersions \in Nat

VARIABLE pack   \* generated_document_packs: the rows, by version

all == <<timeline, project, request, overwritten, pack>>

Pack == [status: {"draft", "generated", "final"}, finalized: BOOLEAN]

Requests == [op: {"complete", "reopen", "mode"}, arg: Keys \cup Modes,
             timeline: Timelines, project: Projects]
            \cup [op: {"answer"}] \cup {Idle}
            \cup [op: {"save"}, version: 1..MaxVersions, seen: Pack \cup {Idle},
                  status: {"draft", "generated"}]
            \cup [op: {"finalize"}, version: 1..MaxVersions]

PacksTypeOK ==
    /\ timeline \in Timelines /\ project \in Projects /\ overwritten \in BOOLEAN
    /\ pack \in Seq(Pack) /\ Len(pack) <= MaxVersions
    /\ \A s \in Sessions : request[s] \in Requests

InitPacks == TimelineInit /\ pack = <<>>

----------------------------------------------------------------------------

Begin(s, r) == /\ request[s] = Idle
               /\ request' = [request EXCEPT ![s] = r]
               /\ UNCHANGED <<timeline, project, overwritten, pack>>

\* Mutant: the latest version is edited whatever it is.
StartSaveInPlace(s) ==
    \E status \in {"draft", "generated"} :
        LET latest == Len(pack)
            version == IF latest > 0 THEN latest ELSE 1
        IN /\ version <= MaxVersions
           /\ Begin(s, [op |-> "save", version |-> version,
                        seen |-> IF latest > 0 THEN pack[latest] ELSE Idle,
                        status |-> status])

\* save_document_pack up to its commit: the latest version if it is a draft,
\* a new one otherwise.  Generating may be refused, for want of the customer's
\* documents, which is no step.
StartSave(s) ==
    \E status \in {"draft", "generated"} :
        LET latest == Len(pack)
            edit == latest > 0 /\ pack[latest].status = "draft"
            version == IF edit THEN latest ELSE latest + 1
        IN /\ version <= MaxVersions
           /\ Begin(s, [op |-> "save", version |-> version,
                        seen |-> IF edit THEN pack[latest] ELSE Idle,
                        status |-> status])

\* Mutant: every column is written.
SavedWhole(row, r) ==
    [row EXCEPT !.status = r.status, !.finalized = FALSE]

\* What a save makes of a row that has changed since it was read.
Saved(row, r) ==
    [row EXCEPT !.status = IF r.status = r.seen.status THEN @ ELSE r.status,
                !.finalized = IF r.seen.finalized THEN FALSE ELSE @]

\* The timeline is read and written within the step that commits the pack: what
\* may come between is the lost update that Commit has already.
Sync(d) == /\ timeline' = SyncedTimeline(timeline, project, d)
           /\ project' = SyncedProject(timeline, project, d)
           /\ UNCHANGED overwritten
NoSync == UNCHANGED <<timeline, project, overwritten>>

\* uq_document_pack_company_customer_version ends the second of two new versions.
CommitSave(s) ==
    /\ request[s].op = "save"
    /\ LET r == request[s]
           new == [status |-> r.status, finalized |-> FALSE]
           refused == r.seen = Idle /\ r.version <= Len(pack)
       IN IF refused THEN NoSync /\ UNCHANGED pack
          ELSE /\ pack' = IF r.seen = Idle THEN Append(pack, new)
                          ELSE [pack EXCEPT ![r.version] = Saved(@, r)]
               /\ IF r.status = "generated" THEN Sync("in_progress") ELSE NoSync
    /\ request' = [request EXCEPT ![s] = Idle]

StartFinalize(s) ==
    \E v \in DOMAIN pack : /\ pack[v].status = "generated"
                           /\ Begin(s, [op |-> "finalize", version |-> v])
CommitFinalize(s) ==
    /\ request[s].op = "finalize"
    /\ pack' = [pack EXCEPT ![request[s].version].status = "final",
                            ![request[s].version].finalized = TRUE]
    /\ Sync("approved")
    /\ request' = [request EXCEPT ![s] = Idle]

\* list_document_packs moves the timeline to where the packs are.
Target == IF \E v \in DOMAIN pack : pack[v].status = "final" THEN "approved" ELSE "in_progress"
List == /\ \E v \in DOMAIN pack : pack[v].status # "draft"
        /\ Advances(timeline, project, Target)
        /\ Sync(Target) /\ UNCHANGED <<pack, request>>

NextPacks == \/ TimelineNext /\ UNCHANGED pack
             \/ \E s \in Clerks : \/ StartSave(s)     \/ CommitSave(s)
                                  \/ StartFinalize(s) \/ CommitFinalize(s)
             \/ List

PacksSpec == InitPacks /\ [][NextPacks]_all

----------------------------------------------------------------------------

\* Only the latest version can be a draft: the next version begins when the one
\* before has been generated, and no save that was under way takes it back.
OnlyLatestIsDraft == \A v \in DOMAIN pack : pack[v].status = "draft" => v = Len(pack)

\* "Final document pack approved and locked": what changes a final version is a
\* save that had read it while it was a draft, or a second finalization.
Overlapped(v) == \E s \in Sessions : /\ request[s].op = "save"
                                     /\ request[s].version = v /\ request[s].seen # Idle
                                     /\ request[s].seen.status = "draft"
FinalUnlessOverlapped ==
    [][\A v \in DOMAIN pack : pack[v].status = "final" /\ ~Overlapped(v)
          => pack'[v] = pack[v]]_all
=================================================================================
