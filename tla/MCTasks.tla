-------------------------------- MODULE MCTasks --------------------------------
(* A small instance of Tasks for TLC: a manager and a member with one role. *)
EXTENDS Tasks, TLC

CONSTANTS boss, worker, office, site

MCRoleOf == boss :> office @@ worker :> site
================================================================================
