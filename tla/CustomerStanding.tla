-------------------------- MODULE CustomerStanding --------------------------
(***************************************************************************)
(* What the lifecycle of backend/app/services/customer_lifecycle_service.py *)
(* promises, seen from outside: a customer is open, completed, archived,   *)
(* deleted or purged.  Requesting a quotation opens a completed customer   *)
(* again and is refused to an archived or a deleted one, and a customer    *)
(* with history is never purged.                                           *)
(***************************************************************************)
EXTENDS Naturals

VARIABLES standing, requests

Init == standing = "open" /\ requests = 0

\* Moves of the lifecycle operations and of the edit form.
Moves == {<<"open", "completed">>, <<"open", "archived">>, <<"open", "deleted">>,
          <<"completed", "open">>, <<"completed", "archived">>, <<"completed", "deleted">>,
          <<"archived", "open">>, <<"archived", "deleted">>,
          <<"deleted", "open">>, <<"deleted", "completed">>}

Move == /\ <<standing, standing'>> \in Moves
        /\ UNCHANGED requests

Purge == /\ standing = "deleted" /\ requests = 0
         /\ standing' = "purged"
         /\ UNCHANGED requests

RequestQuotation == /\ standing \in {"open", "completed"}
                    /\ standing' = "open"
                    /\ requests' = requests + 1

Spec == Init /\ [][Move \/ Purge \/ RequestQuotation]_<<standing, requests>>
=============================================================================
