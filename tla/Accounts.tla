------------------------------- MODULE Accounts -------------------------------
(***************************************************************************)
(* Users, their roles and the administration of both (admin_service.py).   *)
(* A request reads the membership it changes without a lock, judges what   *)
(* it has read and commits the columns it assigns another value to.        *)
(***************************************************************************)
EXTENDS Naturals

CONSTANTS Users,          \* accounts, created or yet to be
          Founder,        \* the super administrator the seed creates
          CustomRoles,    \* roles the administration may create
          Permissions,    \* codes; "users" opens the administration
          Admins,         \* concurrent requests of administrators
          MaxPassword     \* bound: resets of one password

Super == "super_admin"
SystemRoles == {Super, "company_admin"}   \* PROTECTED_ROLE_CODES
Roles == SystemRoles \cup CustomRoles

ASSUME AccountsAssumption ==
    /\ Founder \in Users
    /\ "users" \in Permissions
    /\ CustomRoles \cap SystemRoles = {}
    /\ MaxPassword \in Nat

VARIABLES user,       \* users with their membership
          role,       \* permissions of every role that exists
          request,    \* what each request of an administrator is doing
          outdated    \* history: an update was written that had judged what is no more

accounts == <<user, role, request, outdated>>

NoUser == [role |-> "none"]
User == [role: Roles, super: BOOLEAN, active: BOOLEAN, password: 0..MaxPassword]
Idle == [op |-> "idle"]
\* counted: the active super administrators it was judged by (history).
Request == [op: {"update"}, target: Users, seen: User, role: Roles, active: BOOLEAN,
            counted: SUBSET Users]

TypeOK == /\ user \in [Users -> User \cup {NoUser}]
          /\ role \in [SystemRoles -> SUBSET Permissions]
                \cup UNION {[SystemRoles \cup S -> SUBSET Permissions] : S \in SUBSET CustomRoles}
          /\ request \in [Admins -> Request \cup {Idle}]
          /\ outdated \in BOOLEAN

Init == /\ user = [u \in Users |-> IF u = Founder
                     THEN [role |-> Super, super |-> TRUE, active |-> TRUE, password |-> 0]
                     ELSE NoUser]
        /\ role = [r \in SystemRoles |-> Permissions]
        /\ request = [s \in Admins |-> Idle]
        /\ outdated = FALSE

----------------------------------------------------------------------------

Exists(u) == user[u] # NoUser
Granted(u) == role[user[u].role]
Administers(u) == Exists(u) /\ user[u].active /\ (user[u].super \/ "users" \in Granted(u))

\* _assert_role_assignable and _assert_role_manageable
MayHandle(a, r) == user[a].super \/ (r \notin SystemRoles /\ role[r] \subseteq Granted(a))
\* _assert_target_editable
MayEdit(a, u) ==
    user[a].super \/ a = u
    \/ (~user[u].super /\ user[u].role \notin SystemRoles /\ Granted(u) \subseteq Granted(a))

\* _active_super_admin_count
ActiveSupers == {u \in Users : /\ Exists(u) /\ user[u].active
                               /\ user[u].super /\ user[u].role = Super}
\* _assert_not_last_super_admin
NotLastSuper(u) == u \in ActiveSupers => ActiveSupers # {u}

CreateUser(a) ==
    /\ Administers(a)
    /\ \E u \in Users, r \in DOMAIN role, active \in BOOLEAN :
        /\ ~Exists(u) /\ MayHandle(a, r)
        /\ user' = [user EXCEPT ![u] = [role |-> r, super |-> (r = Super), active |-> active,
                                        password |-> 0]]
    /\ UNCHANGED <<role, request, outdated>>

\* Mutant: the activity is judged after it has been assigned.
StartUpdateAssigned(s, a) ==
    /\ request[s] = Idle /\ Administers(a)
    /\ \E u \in Users, r \in DOMAIN role, active \in BOOLEAN :
        /\ Exists(u) /\ MayEdit(a, u)
        /\ LET changing == r # user[u].role
           IN /\ changing \/ active # user[u].active
              /\ a = u => ~changing
              /\ changing => NotLastSuper(u) /\ MayHandle(a, r)
        /\ request' = [request EXCEPT ![s] = [op |-> "update", target |-> u, seen |-> user[u],
                                              role |-> r, active |-> active,
                                              counted |-> ActiveSupers]]
    /\ UNCHANGED <<user, role, outdated>>

\* update_user up to its commit: the role and the activity it is to set, the
\* old ones where the form does not send them.
StartUpdate(s, a) ==
    /\ request[s] = Idle /\ Administers(a)
    /\ \E u \in Users, r \in DOMAIN role, active \in BOOLEAN :
        /\ Exists(u) /\ MayEdit(a, u)
        /\ LET changing == r # user[u].role
               deactivating == user[u].active /\ ~active
           IN /\ changing \/ active # user[u].active
              /\ a = u => ~changing /\ ~deactivating
              /\ changing \/ deactivating => NotLastSuper(u)
              /\ changing => MayHandle(a, r)
        /\ request' = [request EXCEPT ![s] = [op |-> "update", target |-> u, seen |-> user[u],
                                              role |-> r, active |-> active,
                                              counted |-> ActiveSupers]]
    /\ UNCHANGED <<user, role, outdated>>

\* Only columns whose value differs from the loaded one are written.
Written(row, column, seen, value) == IF value = seen THEN row[column] ELSE value

\* The row it changes, or somebody it relies on, is not what it was.
Outdated(r) ==
    \/ \E c \in {"role", "super", "active"} : user[r.target][c] # r.seen[c]
    \/ ~(r.counted \subseteq ActiveSupers)

\* A role that was deleted in the meantime fails the foreign key.
CommitUpdate(s) ==
    /\ request[s].op = "update"
    /\ LET r == request[s]
           old == user[r.target]
           flag == IF r.role = r.seen.role THEN r.seen.super ELSE r.role = Super
       IN user' = IF r.role \notin DOMAIN role THEN user
                  ELSE [user EXCEPT ![r.target] =
                     [old EXCEPT !.role = Written(old, "role", r.seen.role, r.role),
                                 !.super = Written(old, "super", r.seen.super, flag),
                                 !.active = Written(old, "active", r.seen.active, r.active)]]
    /\ outdated' = (outdated \/ (request[s].role \in DOMAIN role /\ Outdated(request[s])))
    /\ request' = [request EXCEPT ![s] = Idle]
    /\ UNCHANGED role

CreateRole(a) ==
    /\ Administers(a)
    /\ \E r \in CustomRoles \ DOMAIN role, granted \in SUBSET Permissions :
        /\ user[a].super \/ granted \subseteq Granted(a)
        /\ role' = [q \in DOMAIN role \cup {r} |-> IF q = r THEN granted ELSE role[q]]
    /\ UNCHANGED <<user, request, outdated>>

UpdateRole(a) ==
    /\ Administers(a)
    /\ \E r \in DOMAIN role, granted \in SUBSET Permissions :
        /\ MayHandle(a, r) /\ r # Super
        /\ user[a].super \/ granted \subseteq Granted(a)
        /\ role' = [role EXCEPT ![r] = granted]
        /\ role' # role
    /\ UNCHANGED <<user, request, outdated>>

\* Refused while a membership has the role, by the code and by the foreign key.
DeleteRole(a) ==
    /\ Administers(a)
    /\ \E r \in CustomRoles \cap DOMAIN role :
        /\ MayHandle(a, r)
        /\ \A u \in Users : Exists(u) => user[u].role # r
        /\ role' = [q \in DOMAIN role \ {r} |-> role[q]]
    /\ UNCHANGED <<user, request, outdated>>

\* The part of reset_user_password that is about the account.
NewPassword(a, u) ==
    /\ Administers(a) /\ Exists(u) /\ MayEdit(a, u)
    /\ user[u].password < MaxPassword
    /\ user' = [user EXCEPT ![u].password = @ + 1]
    /\ UNCHANGED <<role, request, outdated>>

Administer == \/ \E a \in Users : \/ CreateUser(a) \/ CreateRole(a) \/ UpdateRole(a)
                                  \/ DeleteRole(a)
              \/ \E s \in Admins, a \in Users : StartUpdate(s, a)
              \/ \E s \in Admins : CommitUpdate(s)

----------------------------------------------------------------------------

\* "At least one active super administrator must remain": whoever creates,
\* demotes, promotes and deactivates whom, in whatever order; and the flag that
\* opens everything is set for exactly those who have the role.
AdministratorRemains ==
    /\ ActiveSupers # {}
    /\ \A u \in Users : Exists(u) => (user[u].super <=> user[u].role = Super)

\* It is so for any number of concurrent calls of update_user, until one commits
\* though the row it changes is not as it was loaded, or an administrator that
\* _active_super_admin_count had counted for it has gone.
RemainsUnlessOutdated == ~outdated => AdministratorRemains
===============================================================================
