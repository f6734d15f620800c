--------------------------- MODULE AuthSessionProofs ---------------------------
(* Theorems about AuthSession, for every set of users, roles, permissions and *)
(* clients, any number of sessions and of requests of administrators.        *)
EXTENDS AuthSession, TLAPS

Working(c) == client[c].at = "work"

\* Sessions and logins are those of users that exist: users are never removed.
OwnersExist ==
    /\ \A i \in SessionIds : Open(i) => Exists(session[i].user)
    /\ \A c \in Clients : client[c].at = "verified" => Exists(client[c].user)

\* A request of an administrator is about a user that exists, as a user was.
TargetsExist ==
    \A s \in Admins : request[s].op = "update" => Exists(request[s].target)

\* Nobody else has the session a client works with.
OwnSession ==
    /\ \A c \in Clients : Working(c) => session[client[c].session] # NoSession
    /\ \A c, d \in Clients : Working(c) /\ Working(d) /\ client[c].session = client[d].session
                                => c = d

\* A client that lost nothing has the current token, and after one lost answer
\* the one before; it never lost more answers than there were refreshes.
TokenKnown ==
    \A c \in Clients : Working(c) /\ Open(client[c].session) =>
        LET i == client[c].session IN
        /\ client[c].lost < session[i].current
        /\ client[c].lost = 0 => client[c].token = session[i].current
        /\ client[c].lost = 1 => client[c].token = session[i].previous

Inductive == /\ SessionsTypeOK /\ OwnersExist /\ TargetsExist /\ OwnSession /\ TokenKnown
             /\ ResetEndsSessions

----------------------------------------------------------------------------
(* What the types say. *)

LEMMA SessionColumns ==
    ASSUME SessionsTypeOK, NEW i \in SessionIds
    PROVE  /\ Open(i) <=> session[i] \in Session
           /\ Open(i) => /\ session[i].user \in Users
                         /\ session[i].current \in 1..MaxToken
                         /\ session[i].previous \in 0..MaxToken
                         /\ session[i].grace \in BOOLEAN /\ session[i].late \in BOOLEAN
                         /\ session[i].opened \in 0..MaxPassword
  BY DEF SessionsTypeOK, Open, Session, NoSession, Over

LEMMA ClientColumns ==
    ASSUME SessionsTypeOK, NEW c \in Clients
    PROVE  /\ Working(c) => /\ client[c].session \in SessionIds
                            /\ client[c].token \in 1..MaxToken
                            /\ client[c].lost \in 0..MaxToken
           /\ client[c].at = "verified" => /\ client[c].user \in Users
                                           /\ client[c].password \in 0..MaxPassword
           /\ client[c] = SignedOut => ~Working(c) /\ client[c].at # "verified"
  BY DEF SessionsTypeOK, Client, SignedOut, Working

LEMMA UserColumns ==
    ASSUME TypeOK, NEW u \in Users
    PROVE  /\ Exists(u) <=> user[u] \in User
           /\ Exists(u) => /\ user[u].role \in Roles /\ user[u].super \in BOOLEAN
                           /\ user[u].active \in BOOLEAN
                           /\ user[u].password \in 0..MaxPassword
  BY DEF TypeOK, Exists, User, NoUser

LEMMA RoleTable ==
    ASSUME TypeOK
    PROVE  /\ DOMAIN role \subseteq Roles /\ SystemRoles \subseteq DOMAIN role
           /\ role = [r \in DOMAIN role |-> role[r]]
           /\ \A r \in DOMAIN role : role[r] \in SUBSET Permissions
  <1>1. CASE role \in [SystemRoles -> SUBSET Permissions]
    BY <1>1 DEF Roles
  <1>2. CASE role \in UNION {[SystemRoles \cup S -> SUBSET Permissions] : S \in SUBSET CustomRoles}
    <2>1. PICK S \in SUBSET CustomRoles : role \in [SystemRoles \cup S -> SUBSET Permissions]
      BY <1>2
    <2> QED
      BY <2>1 DEF Roles
  <1> QED
    BY <1>1, <1>2 DEF TypeOK

LEMMA RoleTableOfParts ==
    ASSUME NEW f, f = [r \in DOMAIN f |-> f[r]],
           DOMAIN f \subseteq Roles, SystemRoles \subseteq DOMAIN f,
           \A r \in DOMAIN f : f[r] \in SUBSET Permissions
    PROVE  f \in [SystemRoles -> SUBSET Permissions]
                \cup UNION {[SystemRoles \cup S -> SUBSET Permissions] : S \in SUBSET CustomRoles}
  <1> DEFINE S == DOMAIN f \cap CustomRoles
  <1>1. DOMAIN f = SystemRoles \cup S /\ S \in SUBSET CustomRoles
    BY DEF Roles
  <1> HIDE DEF S
  <1>2. f \in [SystemRoles \cup S -> SUBSET Permissions]
    BY <1>1
  <1> QED
    BY <1>1, <1>2

LEMMA InitInductive == InitSessions => Inductive
  <1> SUFFICES ASSUME InitSessions PROVE Inductive
    OBVIOUS
  <1>1. TypeOK
    <2>1. user \in [Users -> User \cup {NoUser}]
      BY AccountsAssumption DEF InitSessions, Init, User, Roles, SystemRoles, Super
    <2>2. role \in [SystemRoles -> SUBSET Permissions]
      BY DEF InitSessions, Init
    <2>3. request \in [Admins -> Request \cup {Idle}] /\ outdated \in BOOLEAN
      BY DEF InitSessions, Init
    <2> QED
      BY <2>1, <2>2, <2>3 DEF TypeOK
  <1>2. SessionsTypeOK
    BY <1>1 DEF InitSessions, SessionsTypeOK
  <1>3. \A i \in SessionIds : ~Open(i)
    BY DEF InitSessions, Open
  <1>4. \A c \in Clients : ~Working(c) /\ client[c].at # "verified"
    BY DEF InitSessions, Working, SignedOut
  <1>5. TargetsExist
    BY DEF InitSessions, Init, TargetsExist, Idle
  <1> QED
    BY <1>2, <1>3, <1>4, <1>5
    DEF Inductive, OwnersExist, OwnSession, TokenKnown, ResetEndsSessions

----------------------------------------------------------------------------
(* The administration of the accounts. *)

\* What a change of the accounts leaves alone: users stay, with their passwords.
UsersStay == \A u \in Users : Exists(u) =>
                 user'[u] # NoUser /\ user'[u].password = user[u].password

LEMMA CreateUserStep ==
    ASSUME TypeOK, TargetsExist, NEW a \in Users, CreateUser(a)
    PROVE  TypeOK' /\ TargetsExist' /\ UsersStay
  <1>1. PICK u \in Users, r \in DOMAIN role, active \in BOOLEAN :
          /\ ~Exists(u)
          /\ user' = [user EXCEPT ![u] = [role |-> r, super |-> (r = Super), active |-> active,
                                          password |-> 0]]
    BY DEF CreateUser
  <1>2. [role |-> r, super |-> (r = Super), active |-> active, password |-> 0] \in User
    BY RoleTable, AccountsAssumption DEF User
  <1>3. UNCHANGED <<role, request, outdated>>
    BY DEF CreateUser
  <1>4. TypeOK'
    BY <1>1, <1>2, <1>3 DEF TypeOK
  <1>5. UsersStay
    BY <1>1 DEF UsersStay, TypeOK, Exists
  <1>6. TargetsExist'
    BY <1>3, <1>5 DEF TargetsExist, UsersStay, Exists, TypeOK, Request, Idle
  <1> QED
    BY <1>4, <1>5, <1>6

LEMMA StartUpdateStep ==
    ASSUME TypeOK, TargetsExist, NEW s \in Admins, NEW a \in Users, StartUpdate(s, a)
    PROVE  TypeOK' /\ TargetsExist' /\ UsersStay
  <1>1. PICK u \in Users, r \in DOMAIN role, active \in BOOLEAN :
          /\ Exists(u)
          /\ request' = [request EXCEPT ![s] = [op |-> "update", target |-> u, seen |-> user[u],
                                                role |-> r, active |-> active,
                                                counted |-> ActiveSupers]]
    BY DEF StartUpdate
  <1>2. [op |-> "update", target |-> u, seen |-> user[u], role |-> r, active |-> active,
         counted |-> ActiveSupers] \in Request
    <2>1. ActiveSupers \in SUBSET Users
      BY DEF ActiveSupers
    <2> QED
      BY <1>1, <2>1, RoleTable, UserColumns DEF Request
  <1>3. UNCHANGED <<user, role, outdated>>
    BY DEF StartUpdate
  <1>4. TypeOK'
    BY <1>1, <1>2, <1>3 DEF TypeOK
  <1>5. TargetsExist'
    BY <1>1, <1>3 DEF TargetsExist, Exists, TypeOK
  <1>6. UsersStay
    BY <1>3 DEF UsersStay, Exists
  <1> QED
    BY <1>4, <1>5, <1>6

LEMMA CommitUpdateStep ==
    ASSUME TypeOK, TargetsExist, NEW s \in Admins, CommitUpdate(s)
    PROVE  TypeOK' /\ TargetsExist' /\ UsersStay
  <1> DEFINE r == request[s]
             old == user[r.target]
             flag == IF r.role = r.seen.role THEN r.seen.super ELSE r.role = Super
             ro == Written(old, "role", r.seen.role, r.role)
             su == Written(old, "super", r.seen.super, flag)
             ac == Written(old, "active", r.seen.active, r.active)
             new == [old EXCEPT !.role = ro, !.super = su, !.active = ac]
  <1>1. /\ r \in Request /\ r.target \in Users /\ r.seen \in User /\ r.role \in Roles
        /\ r.active \in BOOLEAN /\ old \in User
    <2>1. r \in Request
      BY DEF CommitUpdate, TypeOK, Idle
    <2>2. r.target \in Users /\ r.seen \in User /\ r.role \in Roles /\ r.active \in BOOLEAN
      BY <2>1 DEF Request
    <2>3. old \in User
      BY <2>2, UserColumns DEF CommitUpdate, TargetsExist
    <2> QED
      BY <2>1, <2>2, <2>3
  <1>2. ro \in Roles /\ su \in BOOLEAN /\ ac \in BOOLEAN
    BY <1>1 DEF Written, User
  <1>3. user' = IF r.role \notin DOMAIN role THEN user ELSE [user EXCEPT ![r.target] = new]
    BY Zenon DEF CommitUpdate
  <1> HIDE DEF ro, su, ac
  <1>4. new \in User /\ new.password = old.password
    BY <1>1, <1>2 DEF User
  <1> HIDE DEF new
  <1>5. UNCHANGED role /\ request' = [request EXCEPT ![s] = Idle]
    BY DEF CommitUpdate
  <1>6. TypeOK'
    <2>1. outdated' \in BOOLEAN
      BY DEF CommitUpdate, TypeOK
    <2> QED
      BY <1>1, <1>3, <1>4, <1>5, <2>1 DEF TypeOK
  <1>7. UsersStay
    <2>1. new # NoUser
      BY <1>4 DEF User, NoUser
    <2> QED
      BY <1>1, <1>3, <1>4, <2>1 DEF UsersStay, TypeOK, Exists
  <1>8. TargetsExist'
    BY <1>5, <1>7 DEF TargetsExist, UsersStay, Exists, TypeOK, Request, Idle
  <1> QED
    BY <1>6, <1>7, <1>8

LEMMA RoleStep ==
    ASSUME TypeOK, TargetsExist, NEW a \in Users,
           CreateRole(a) \/ UpdateRole(a) \/ DeleteRole(a)
    PROVE  TypeOK' /\ TargetsExist' /\ UsersStay
  <1>1. UNCHANGED <<user, request, outdated>>
    BY DEF CreateRole, UpdateRole, DeleteRole
  <1>2. /\ role' = [r \in DOMAIN role' |-> role'[r]]
        /\ DOMAIN role' \subseteq Roles /\ SystemRoles \subseteq DOMAIN role'
        /\ \A r \in DOMAIN role' : role'[r] \in SUBSET Permissions
    <2>1. CASE CreateRole(a)
      <3>1. PICK r \in CustomRoles \ DOMAIN role, granted \in SUBSET Permissions :
               role' = [q \in DOMAIN role \cup {r} |-> IF q = r THEN granted ELSE role[q]]
        BY <2>1 DEF CreateRole
      <3> QED
        BY <3>1, RoleTable DEF Roles
    <2>2. CASE UpdateRole(a)
      <3>1. PICK r \in DOMAIN role, granted \in SUBSET Permissions :
               role' = [role EXCEPT ![r] = granted]
        BY <2>2 DEF UpdateRole
      <3> QED
        BY <3>1, RoleTable
    <2>3. CASE DeleteRole(a)
      <3>1. PICK r \in CustomRoles \cap DOMAIN role :
               role' = [q \in DOMAIN role \ {r} |-> role[q]]
        BY <2>3 DEF DeleteRole
      <3> QED
        BY <3>1, RoleTable, AccountsAssumption
    <2> QED
      BY <2>1, <2>2, <2>3
  <1>3. TypeOK'
    BY <1>1, <1>2, RoleTableOfParts DEF TypeOK
  <1>4. TargetsExist' /\ UsersStay
    BY <1>1 DEF TargetsExist, UsersStay, Exists
  <1> QED
    BY <1>3, <1>4

LEMMA AdministerStep ==
    ASSUME Inductive, Administer, UNCHANGED sessions
    PROVE  Inductive'
  <1>1. TypeOK /\ TargetsExist
    BY DEF Inductive, SessionsTypeOK
  <1>2. TypeOK' /\ TargetsExist' /\ UsersStay
    BY <1>1, CreateUserStep, StartUpdateStep, CommitUpdateStep, RoleStep DEF Administer
  <1>3. UNCHANGED <<session, client>>
    BY DEF sessions
  <1>4. SessionsTypeOK'
    BY <1>2, <1>3 DEF Inductive, SessionsTypeOK
  <1>5. OwnersExist'
    <2>1. \A i \in SessionIds : Open(i) => session[i].user \in Users
      BY SessionColumns DEF Inductive
    <2>2. \A c \in Clients : client[c].at = "verified" => client[c].user \in Users
      BY ClientColumns DEF Inductive
    <2> QED
      BY <1>2, <1>3, <2>1, <2>2 DEF Inductive, OwnersExist, UsersStay, Exists, Open
  <1>6. OwnSession' /\ TokenKnown'
    BY <1>3 DEF Inductive, OwnSession, TokenKnown, Working, Open
  <1>7. ResetEndsSessions'
    <2>1. \A i \in SessionIds : Open(i) => session[i].user \in Users /\ Exists(session[i].user)
      BY SessionColumns DEF Inductive, OwnersExist
    <2> QED
      BY <1>2, <1>3, <2>1 DEF Inductive, ResetEndsSessions, UsersStay, Open
  <1> QED
    BY <1>2, <1>4, <1>5, <1>6, <1>7 DEF Inductive

----------------------------------------------------------------------------
(* Sessions. *)

\* A step that leaves the accounts alone.
LEMMA TargetsStay == Inductive /\ UNCHANGED accounts => TypeOK' /\ TargetsExist'
  BY DEF Inductive, SessionsTypeOK, TypeOK, TargetsExist, Exists, accounts

\* Sessions end or stay: nobody gains a token, nobody's password changes, and
\* whoever is signed out only loses his session.
Shrinks ==
    /\ UNCHANGED accounts
    /\ session' \in [SessionIds -> Session \cup {NoSession, Over}]
    /\ \A i \in SessionIds :
          \/ session'[i] = session[i] \/ (Open(i) /\ session'[i] = Over)
          \/ Open(i) /\ session'[i] = [session[i] EXCEPT !.grace = FALSE]
    /\ client' \in [Clients -> Client \cup {SignedOut}]
    /\ \A c \in Clients : client'[c] = client[c] \/ client'[c] = SignedOut

LEMMA ShrinkStep == ASSUME Inductive, Shrinks PROVE Inductive'
  <1>1. TypeOK' /\ TargetsExist'
    BY TargetsStay DEF Shrinks
  <1>2. SessionsTypeOK'
    BY <1>1 DEF Shrinks, SessionsTypeOK
  <1>3. \A i \in SessionIds : Open(i)' =>
           /\ Open(i) /\ session'[i].user = session[i].user
           /\ session'[i].current = session[i].current
           /\ session'[i].previous = session[i].previous
           /\ session'[i].opened = session[i].opened
           /\ session'[i].late = session[i].late
    <2> SUFFICES ASSUME NEW i \in SessionIds, Open(i)'
                 PROVE  /\ Open(i) /\ session'[i].user = session[i].user
                        /\ session'[i].current = session[i].current
                        /\ session'[i].previous = session[i].previous
                        /\ session'[i].opened = session[i].opened
                        /\ session'[i].late = session[i].late
      OBVIOUS
    <2>1. CASE session'[i] = session[i]
      BY <2>1 DEF Open
    <2>2. CASE Open(i) /\ session'[i] = [session[i] EXCEPT !.grace = FALSE]
      <3>1. session[i] \in Session
        BY <2>2, SessionColumns DEF Inductive
      <3> QED
        BY <2>2, <3>1 DEF Session
    <2> QED
      BY <2>1, <2>2 DEF Shrinks, Open
  <1>4. \A i \in SessionIds : session[i] # NoSession => session'[i] # NoSession
    <2>1. \A i \in SessionIds : Open(i) =>
              [session[i] EXCEPT !.grace = FALSE] # NoSession
      <3> SUFFICES ASSUME NEW i \in SessionIds, Open(i)
                   PROVE  [session[i] EXCEPT !.grace = FALSE] # NoSession
        OBVIOUS
      <3>1. session[i] \in Session
        BY SessionColumns DEF Inductive
      <3> QED
        BY <3>1 DEF Session, NoSession
    <2>2. Over # NoSession
      BY DEF Over, NoSession
    <2> QED
      BY <2>1, <2>2 DEF Shrinks
  <1>5. \A c \in Clients : /\ Working(c)' => Working(c) /\ client'[c] = client[c]
                           /\ client'[c].at = "verified" => client'[c] = client[c]
    BY DEF Shrinks, Working, SignedOut
  <1>6. \A c \in Clients : Working(c) => client[c].session \in SessionIds
    BY ClientColumns DEF Inductive
  <1>7. UNCHANGED user
    BY DEF Shrinks, accounts
  <1>8. OwnersExist'
    BY <1>3, <1>5, <1>7 DEF Inductive, OwnersExist, Exists
  <1>9. OwnSession'
    BY <1>4, <1>5, <1>6 DEF Inductive, OwnSession
  <1>10. TokenKnown'
    BY <1>3, <1>5, <1>6 DEF Inductive, TokenKnown
  <1>11. ResetEndsSessions'
    BY <1>3, <1>7 DEF Inductive, ResetEndsSessions
  <1> QED
    BY <1>1, <1>2, <1>8, <1>9, <1>10, <1>11 DEF Inductive

LEMMA EndingStep ==
    ASSUME Inductive,
           \/ \E c \in Clients : Refused(c) \/ LogOut(c) \/ RevokeOthers(c)
           \/ GraceEnds \/ Expire \/ UNCHANGED all
    PROVE  Inductive'
  <1>1. /\ session \in [SessionIds -> Session \cup {NoSession, Over}]
        /\ client \in [Clients -> Client \cup {SignedOut}]
    BY DEF Inductive, SessionsTypeOK
  <1>2. CASE \E c \in Clients : Refused(c)
    <2>1. Shrinks
      BY <1>1, <1>2 DEF Refused, Shrinks
    <2> QED
      BY <2>1, ShrinkStep
  <1>3. CASE \E c \in Clients : LogOut(c)
    <2>1. PICK c \in Clients : LogOut(c)
      BY <1>3
    <2>2. client[c].session \in SessionIds /\ Open(client[c].session)
      BY <2>1, ClientColumns DEF LogOut, Authorized, Working, Inductive
    <2>3. Shrinks
      BY <1>1, <2>1, <2>2 DEF LogOut, Shrinks
    <2> QED
      BY <2>3, ShrinkStep
  <1>4. CASE \E c \in Clients : RevokeOthers(c)
    <2>1. Shrinks
      BY <1>1, <1>4 DEF RevokeOthers, Shrinks
    <2> QED
      BY <2>1, ShrinkStep
  <1>5. CASE GraceEnds
    <2>1. PICK i \in SessionIds : /\ Open(i)
                                  /\ session' = [session EXCEPT ![i].grace = FALSE]
                                  /\ UNCHANGED <<accounts, client>>
      BY <1>5 DEF GraceEnds
    <2>2. session[i] \in Session
      BY <2>1, SessionColumns DEF Inductive
    <2>3. [session[i] EXCEPT !.grace = FALSE] \in Session
      BY <2>2 DEF Session
    <2>4. session' = [session EXCEPT ![i] = [session[i] EXCEPT !.grace = FALSE]]
      BY <2>1, <1>1
    <2>5. Shrinks
      BY <1>1, <2>1, <2>3, <2>4 DEF Shrinks
    <2> QED
      BY <2>5, ShrinkStep
  <1>6. CASE Expire
    <2>1. Shrinks
      BY <1>1, <1>6 DEF Expire, Shrinks
    <2> QED
      BY <2>1, ShrinkStep
  <1>7. CASE UNCHANGED all
    <2>1. Shrinks
      BY <1>1, <1>7 DEF all, accounts, Shrinks
    <2> QED
      BY <2>1, ShrinkStep
  <1> QED
    BY <1>2, <1>3, <1>4, <1>5, <1>6, <1>7

LEMMA VerifyStep == ASSUME Inductive, NEW c \in Clients, Verify(c) PROVE Inductive'
  <1>1. PICK u \in Users :
          /\ Active(u)
          /\ client' = [client EXCEPT ![c] = [at |-> "verified", user |-> u,
                                              password |-> user[u].password]]
    BY DEF Verify
  <1>2. UNCHANGED <<accounts, session>> /\ UNCHANGED user
    BY DEF Verify, accounts
  <1>3. Exists(u) /\ [at |-> "verified", user |-> u, password |-> user[u].password] \in Client
    BY <1>1, UserColumns DEF Active, Client, Inductive, SessionsTypeOK
  <1>4. SessionsTypeOK' /\ TargetsExist'
    BY <1>1, <1>2, <1>3, TargetsStay DEF Inductive, SessionsTypeOK
  <1>5. \A d \in Clients : /\ Working(d)' => Working(d) /\ client'[d] = client[d]
                           /\ client'[d].at = "verified" => client'[d] = client[d] \/ client'[d].user = u
    BY <1>1 DEF Working, Inductive, SessionsTypeOK
  <1>6. OwnersExist'
    BY <1>2, <1>3, <1>5 DEF Inductive, OwnersExist, Exists, Open
  <1>7. OwnSession' /\ TokenKnown'
    BY <1>2, <1>5 DEF Inductive, OwnSession, TokenKnown, Open
  <1>8. ResetEndsSessions'
    BY <1>2 DEF Inductive, ResetEndsSessions, Open
  <1> QED
    BY <1>4, <1>6, <1>7, <1>8 DEF Inductive

LEMMA LogInStep == ASSUME Inductive, NEW c \in Clients, LogIn(c) PROVE Inductive'
  <1> DEFINE u == client[c].user
             p == client[c].password
             opened == [user |-> u, current |-> 1, previous |-> 0, grace |-> FALSE,
                        opened |-> p, late |-> (p # user[u].password)]
  <1>1. PICK i \in SessionIds :
          /\ session[i] = NoSession
          /\ session' = [session EXCEPT ![i] = opened]
          /\ client' = [client EXCEPT ![c] = [at |-> "work", session |-> i, token |-> 1,
                                              lost |-> 0]]
    BY DEF LogIn
  <1>2. UNCHANGED accounts /\ UNCHANGED user
    BY DEF LogIn, accounts
  <1>3. client[c].at = "verified" /\ u \in Users /\ p \in 0..MaxPassword /\ Exists(u)
    BY ClientColumns DEF LogIn, Inductive, OwnersExist
  <1>4. /\ opened \in Session
        /\ [at |-> "work", session |-> i, token |-> 1, lost |-> 0] \in Client
    BY <1>3, SessionAssumption DEF Session, Client
  <1>5. SessionsTypeOK' /\ TargetsExist'
    BY <1>1, <1>2, <1>4, TargetsStay DEF Inductive, SessionsTypeOK
  <1>6. /\ session'[i] = opened /\ ~Open(i)
        /\ \A j \in SessionIds : j # i => session'[j] = session[j]
        /\ client'[c] = [at |-> "work", session |-> i, token |-> 1, lost |-> 0]
        /\ \A d \in Clients : d # c => client'[d] = client[d]
    BY <1>1 DEF Inductive, SessionsTypeOK, Open
  <1>7. \A d \in Clients : Working(d) => client[d].session # i /\ client[d].session \in SessionIds
    BY <1>1, ClientColumns DEF Inductive, OwnSession
  <1>8. opened # NoSession /\ opened # Over
    BY <1>4 DEF Session, NoSession, Over
  <1> HIDE DEF opened
  <1>9. opened.user = u /\ opened.current = 1 /\ opened.opened = p
        /\ (opened.late <=> p # user[u].password)
    BY DEF opened
  <1>10. OwnersExist'
    BY <1>2, <1>3, <1>6, <1>9 DEF Inductive, OwnersExist, Exists, Open
  <1>11. OwnSession'
    BY <1>6, <1>7, <1>8 DEF Inductive, OwnSession, Working
  <1>12. TokenKnown'
    BY <1>6, <1>7, <1>9 DEF Inductive, TokenKnown, Working, Open
  <1>13. ResetEndsSessions'
    BY <1>2, <1>6, <1>9 DEF Inductive, ResetEndsSessions, Open
  <1> QED
    BY <1>5, <1>10, <1>11, <1>12, <1>13 DEF Inductive

LEMMA RefreshStep == ASSUME Inductive, NEW c \in Clients, Refresh(c) PROVE Inductive'
  <1>0. client[c].session \in SessionIds
    BY ClientColumns DEF Refresh, Working, Inductive
  <1>s. PICK i \in SessionIds : i = client[c].session
    BY <1>0
  <1>n. PICK now : now = session[i].current
    OBVIOUS
  <1>1. /\ Working(c) /\ Open(i) /\ session[i] \in Session
        /\ client[c].token \in 1..MaxToken /\ client[c].lost \in 0..MaxToken
        /\ now \in 1..MaxToken /\ now < MaxToken
        /\ client[c].token = now \/ client[c].token = session[i].previous
    BY <1>s, <1>n, ClientColumns, SessionColumns DEF Refresh, Accepted, Working, Inductive
  <1>2. /\ client[c].lost < now
        /\ client[c].lost = 0 => client[c].token = now
    BY <1>s, <1>n, <1>1 DEF Inductive, TokenKnown
  <1>3. /\ session' = [session EXCEPT ![i] = Rotated(i)]
        /\ \/ client' = [client EXCEPT ![c].token = now + 1, ![c].lost = 0]
           \/ client' = [client EXCEPT ![c].lost = @ + 1]
        /\ UNCHANGED accounts /\ UNCHANGED user
    BY <1>s, <1>n DEF Refresh, accounts
  <1>4. Rotated(i) = [user |-> session[i].user, current |-> now + 1, previous |-> now,
                      grace |-> TRUE, opened |-> session[i].opened, late |-> session[i].late]
    <2> DEFINE r1 == [session[i] EXCEPT !.previous = now]
               r2 == [r1 EXCEPT !.current = now + 1]
    <2>1. r1 = [user |-> session[i].user, current |-> now, previous |-> now,
                grace |-> session[i].grace, opened |-> session[i].opened,
                late |-> session[i].late]
      BY <1>1, <1>s, <1>n DEF Session
    <2>2. Rotated(i) = [r2 EXCEPT !.grace = TRUE]
      BY <1>s, <1>n DEF Rotated
    <2> HIDE DEF r1
    <2>3. r2 = [user |-> session[i].user, current |-> now + 1, previous |-> now,
                grace |-> session[i].grace, opened |-> session[i].opened,
                late |-> session[i].late]
      BY <2>1
    <2> HIDE DEF r2
    <2> QED
      BY <2>2, <2>3
  <1>5. Rotated(i) \in Session
    <2>1. now + 1 \in 1..MaxToken /\ now \in 0..MaxToken
      BY <1>1, SessionAssumption
    <2> QED
      BY <1>1, <1>4, <2>1 DEF Session
  <1>6. client[c] = [at |-> "work", session |-> i, token |-> client[c].token,
                     lost |-> client[c].lost]
    BY <1>s, <1>n, <1>1 DEF Inductive, SessionsTypeOK, Working, Client, SignedOut
  <1>7. PICK new \in Client :
          /\ client' = [client EXCEPT ![c] = new]
          /\ new.at = "work" /\ new.session = i
          /\ \/ new.token = now + 1 /\ new.lost = 0
             \/ new.token = client[c].token /\ new.lost = client[c].lost + 1
    <2>1. CASE client' = [client EXCEPT ![c].token = now + 1, ![c].lost = 0]
      <3> DEFINE new == [at |-> "work", session |-> i, token |-> now + 1, lost |-> 0]
      <3>1. new \in Client
        BY <1>1, SessionAssumption DEF Client
      <3>2. client' = [client EXCEPT ![c] = new]
        <4> DEFINE m1 == [client[c] EXCEPT !.token = now + 1]
        <4>1. m1 = [at |-> "work", session |-> i, token |-> now + 1, lost |-> client[c].lost]
          BY <1>6
        <4>2. client' = [client EXCEPT ![c] = [m1 EXCEPT !.lost = 0]]
          BY <2>1 DEF Inductive, SessionsTypeOK
        <4> HIDE DEF m1
        <4>3. [m1 EXCEPT !.lost = 0] = new
          BY <4>1
        <4> QED
          BY <4>2, <4>3
      <3> QED
        BY <3>1, <3>2
    <2>2. CASE client' = [client EXCEPT ![c].lost = @ + 1]
      <3> DEFINE new == [at |-> "work", session |-> i, token |-> client[c].token,
                         lost |-> client[c].lost + 1]
      <3>1. new \in Client
        BY <1>1, <1>2, SessionAssumption DEF Client
      <3>2. client' = [client EXCEPT ![c] = [client[c] EXCEPT !.lost = client[c].lost + 1]]
        BY <2>2
      <3>3. [client[c] EXCEPT !.lost = client[c].lost + 1] = new
        BY <1>6
      <3>4. client' = [client EXCEPT ![c] = new]
        BY <3>2, <3>3
      <3> QED
        BY <3>1, <3>4
    <2> QED
      BY <1>3, <2>1, <2>2
  <1>8. SessionsTypeOK' /\ TargetsExist'
    BY <1>3, <1>5, <1>7, TargetsStay DEF Inductive, SessionsTypeOK
  <1>9. /\ session'[i] = Rotated(i) /\ client'[c] = new
        /\ \A j \in SessionIds : j # i => session'[j] = session[j]
        /\ \A d \in Clients : d # c => client'[d] = client[d]
    BY <1>1, <1>3, <1>7 DEF Inductive, SessionsTypeOK
  <1>10. /\ Rotated(i).user = session[i].user /\ Rotated(i).current = now + 1
         /\ Rotated(i).previous = now /\ Rotated(i).opened = session[i].opened
         /\ Rotated(i).late = session[i].late
         /\ Rotated(i) # NoSession /\ Rotated(i) # Over
    BY <1>4, <1>5 DEF Session, NoSession, Over
  <1>11. OwnersExist'
    BY <1>1, <1>3, <1>7, <1>9, <1>10 DEF Inductive, OwnersExist, Exists, Open
  <1>12. OwnSession'
    BY <1>s, <1>n, <1>1, <1>7, <1>9, <1>10, ClientColumns DEF Inductive, OwnSession, Working
  <1>13. TokenKnown'
    <2> SUFFICES ASSUME NEW d \in Clients, Working(d)',
                        session'[client'[d].session] \notin {NoSession, Over}
                 PROVE  /\ client'[d].lost < session'[client'[d].session].current
                        /\ client'[d].lost = 0 =>
                              client'[d].token = session'[client'[d].session].current
                        /\ client'[d].lost = 1 =>
                              client'[d].token = session'[client'[d].session].previous
      BY DEF TokenKnown, Open
    <2>1. CASE d = c
      BY <2>1, <1>s, <1>n, <1>1, <1>2, <1>7, <1>9, <1>10
    <2>2. CASE d # c
      <3>1. Working(d) /\ client'[d] = client[d]
        BY <2>2, <1>9 DEF Working
      <3>2. client[d].session # i /\ client[d].session \in SessionIds
        BY <2>2, <3>1, <1>s, <1>n, <1>1, ClientColumns DEF Inductive, OwnSession
      <3>3. session'[client[d].session] = session[client[d].session]
        BY <3>2, <1>9
      <3> QED
        BY <3>1, <3>3 DEF Inductive, TokenKnown, Open
    <2> QED
      BY <2>1, <2>2
  <1>14. ResetEndsSessions'
    BY <1>1, <1>3, <1>9, <1>10 DEF Inductive, ResetEndsSessions, Open
  <1> QED
    BY <1>8, <1>11, <1>12, <1>13, <1>14 DEF Inductive

LEMMA ResetPasswordStep == ASSUME Inductive, ResetPassword PROVE Inductive'
  <1>1. PICK a \in Users, u \in Users :
          NewPassword(a, u) /\ session' = Ended(u) /\ UNCHANGED client
    BY DEF ResetPassword
  <1>2. /\ Exists(u) /\ user[u] \in User /\ user[u].password < MaxPassword
        /\ user' = [user EXCEPT ![u].password = @ + 1]
        /\ UNCHANGED <<role, request, outdated>>
    BY <1>1, UserColumns DEF NewPassword, Inductive, SessionsTypeOK
  <1>3. [user[u] EXCEPT !.password = @ + 1] \in User
    BY <1>2, AccountsAssumption DEF User
  <1>4. /\ user'[u] \in User
        /\ \A v \in Users : v # u => user'[v] = user[v]
        /\ user' \in [Users -> User \cup {NoUser}]
    BY <1>2, <1>3 DEF Inductive, SessionsTypeOK, TypeOK
  <1>5. TypeOK'
    BY <1>2, <1>4 DEF Inductive, SessionsTypeOK, TypeOK
  <1>6. user'[u] # NoUser
    BY <1>4 DEF User, NoUser
  <1>7. /\ session' \in [SessionIds -> Session \cup {NoSession, Over}]
        /\ \A i \in SessionIds : session'[i] = session[i] \/ (Open(i) /\ session'[i] = Over)
        /\ \A i \in SessionIds : Open(i)' => session'[i] = session[i] /\ session[i].user # u
        /\ \A i \in SessionIds : Open(i)' => Open(i)
    BY <1>1 DEF Ended, Inductive, SessionsTypeOK, Open
  <1>8. SessionsTypeOK'
    BY <1>1, <1>5, <1>7 DEF Inductive, SessionsTypeOK
  <1>9. \A v \in Users : Exists(v) => Exists(v)'
    BY <1>4, <1>6 DEF Exists
  <1>10. \A i \in SessionIds : Open(i) => session[i].user \in Users
    BY SessionColumns DEF Inductive
  <1>11. OwnersExist'
    <2>1. \A c \in Clients : client[c].at = "verified" => client[c].user \in Users
      BY ClientColumns DEF Inductive
    <2> QED
      BY <1>1, <1>7, <1>9, <1>10, <2>1 DEF Inductive, OwnersExist
  <1>12. TargetsExist'
    BY <1>2, <1>9 DEF Inductive, SessionsTypeOK, TypeOK, TargetsExist, Request, Idle
  <1>13. OwnSession'
    <2>1. Over # NoSession
      BY DEF Over, NoSession
    <2> QED
      BY <1>1, <1>7, <2>1, ClientColumns DEF Inductive, OwnSession, Working
  <1>14. TokenKnown'
    BY <1>1, <1>7, ClientColumns DEF Inductive, TokenKnown, Working
  <1>15. ResetEndsSessions'
    BY <1>4, <1>7, <1>10 DEF Inductive, ResetEndsSessions
  <1> QED
    BY <1>8, <1>11, <1>12, <1>13, <1>14, <1>15 DEF Inductive

----------------------------------------------------------------------------
(* The theorems. *)

LEMMA AlwaysInductive == Spec => []Inductive
  <1>1. Inductive /\ [Next]_all => Inductive'
    BY AdministerStep, ResetPasswordStep, VerifyStep, LogInStep, RefreshStep, EndingStep
    DEF Next
  <1> QED
    BY <1>1, InitInductive, PTL DEF Spec

\* Accounts, roles, sessions and clients keep their types (admin_service.py,
\* auth_service.py).
THEOREM TypeCorrect == Spec => []SessionsTypeOK
  <1>1. Inductive => SessionsTypeOK
    BY DEF Inductive
  <1> QED
    BY <1>1, AlwaysInductive, PTL

\* One lost answer never leaves a client with a token its session does not know,
\* whatever happens to the sessions of others (refresh_session).
THEOREM LostAnswerAlwaysTolerated == Spec => []LostAnswerTolerated
  <1>1. Inductive => LostAnswerTolerated
    <2> SUFFICES ASSUME Inductive, NEW c \in Clients, Working(c), client[c].lost <= 1,
                        Open(client[c].session)
                 PROVE  client[c].token \in {session[client[c].session].current,
                                             session[client[c].session].previous}
      BY DEF LostAnswerTolerated, Working
    <2>1. client[c].lost \in {0, 1}
      BY ClientColumns DEF Inductive
    <2> QED
      BY <2>1 DEF Inductive, TokenKnown
  <1> QED
    BY <1>1, AlwaysInductive, PTL

\* A reset ends every session opened with the old password, except one whose
\* login was under way (reset_user_password, authenticate).
THEOREM ResetAlwaysEndsSessions == Spec => []ResetEndsSessions
  <1>1. Inductive => ResetEndsSessions
    BY DEF Inductive
  <1> QED
    BY <1>1, AlwaysInductive, PTL

----------------------------------------------------------------------------
(* The last super administrator. *)

\* Every step but those of an update: users keep role, flag and activity, and
\* those who come have the flag exactly with the role.
RanksStay ==
    /\ UNCHANGED <<request, outdated>>
    /\ \A u \in Users : Exists(u) =>
          /\ user'[u] # NoUser /\ user'[u].role = user[u].role
          /\ user'[u].super = user[u].super /\ user'[u].active = user[u].active
    /\ \A u \in Users : ~Exists(u) /\ user'[u] # NoUser =>
          (user'[u].super <=> user'[u].role = Super)

LEMMA RanksStayOrUpdate ==
    ASSUME Inductive, [Next]_all
    PROVE  \/ RanksStay
           \/ \E s \in Admins, a \in Users : StartUpdate(s, a)
           \/ \E s \in Admins : CommitUpdate(s)
  <1>0. TypeOK /\ TargetsExist
    BY DEF Inductive, SessionsTypeOK
  <1>1. CASE UNCHANGED <<user, request, outdated>>
    BY <1>1 DEF RanksStay, Exists
  <1>2. CASE \E a \in Users : CreateUser(a)
    <2>1. PICK a \in Users : CreateUser(a)
      BY <1>2
    <2>2. PICK u \in Users, r \in DOMAIN role, active \in BOOLEAN :
            /\ ~Exists(u)
            /\ user' = [user EXCEPT ![u] = [role |-> r, super |-> (r = Super),
                                            active |-> active, password |-> 0]]
      BY <2>1 DEF CreateUser
    <2>3. UNCHANGED <<request, outdated>>
      BY <2>1 DEF CreateUser
    <2>4. /\ \A v \in Users : v # u => user'[v] = user[v]
          /\ user'[u].super <=> user'[u].role = Super
      BY <1>0, <2>2 DEF TypeOK
    <2> QED
      BY <2>2, <2>3, <2>4 DEF RanksStay, Exists
  <1>3. CASE \E a \in Users : CreateRole(a) \/ UpdateRole(a) \/ DeleteRole(a)
    BY <1>1, <1>3 DEF CreateRole, UpdateRole, DeleteRole
  <1>4. CASE ResetPassword
    <2>1. PICK a \in Users, u \in Users : NewPassword(a, u)
      BY <1>4 DEF ResetPassword
    <2>2. /\ user[u] \in User /\ user' = [user EXCEPT ![u].password = @ + 1]
          /\ Exists(u) /\ UNCHANGED <<request, outdated>>
      BY <1>0, <2>1, UserColumns DEF NewPassword
    <2>3. /\ \A v \in Users : v # u => user'[v] = user[v]
          /\ user'[u].role = user[u].role /\ user'[u].super = user[u].super
          /\ user'[u].active = user[u].active
      BY <1>0, <2>2 DEF TypeOK, User
    <2>4. user'[u] # NoUser
      <3>1. user[u].password < MaxPassword
        BY <1>0, <2>1, <2>2 DEF NewPassword, TypeOK, User, Inductive
      <3> QED
        BY <1>0, <2>2, <3>1 DEF TypeOK, User, NoUser
    <2> QED
      BY <2>2, <2>3, <2>4 DEF RanksStay, Exists
  <1>5. CASE \/ \E c \in Clients : \/ Verify(c) \/ LogIn(c) \/ Refresh(c) \/ Refused(c)
                                   \/ LogOut(c) \/ RevokeOthers(c)
             \/ GraceEnds \/ Expire \/ UNCHANGED all
    BY <1>1, <1>5 DEF Verify, LogIn, Refresh, Refused, LogOut, RevokeOthers, GraceEnds,
                      Expire, all, accounts
  <1> QED
    BY <1>2, <1>3, <1>4, <1>5 DEF Next, Administer

\* What a request has judged: a row whose flag says its role, and for one of the
\* administrators it counted another one, if it is to take him away.
Judged(r) ==
    /\ r.seen.super <=> r.seen.role = Super
    /\ r.target \in r.counted <=> r.seen.active /\ r.seen.super
    /\ r.target \in r.counted /\ (r.role # r.seen.role \/ ~r.active) =>
          \E v \in r.counted : v # r.target

Justified ==
    ~outdated => /\ AdministratorRemains
                 /\ \A s \in Admins : request[s].op = "update" => Judged(request[s])

LEMMA InitJustified == InitSessions => Justified
  <1> SUFFICES ASSUME InitSessions PROVE Justified
    OBVIOUS
  <1>1. Founder \in ActiveSupers
    BY AccountsAssumption DEF InitSessions, Init, ActiveSupers, Exists, NoUser
  <1>2. \A u \in Users : Exists(u) => (user[u].super <=> user[u].role = Super)
    BY DEF InitSessions, Init, Exists
  <1>3. \A s \in Admins : request[s].op # "update"
    BY DEF InitSessions, Init, Idle
  <1> QED
    BY <1>1, <1>2, <1>3 DEF Justified, AdministratorRemains

\* The administrators there are stay, and so does what a request has judged.
LEMMA RanksStayStep ==
    ASSUME RanksStay
    PROVE  /\ ActiveSupers \subseteq ActiveSupers'
           /\ AdministratorRemains => AdministratorRemains'
  <1>1. ActiveSupers \subseteq ActiveSupers'
    BY DEF RanksStay, ActiveSupers, Exists
  <1>2. ASSUME AdministratorRemains PROVE AdministratorRemains'
    <2>1. ActiveSupers' # {}
      BY <1>1, <1>2 DEF AdministratorRemains
    <2>2. \A u \in Users : user'[u] # NoUser => (user'[u].super <=> user'[u].role = Super)
      BY <1>2 DEF AdministratorRemains, RanksStay
    <2> QED
      BY <2>1, <2>2 DEF AdministratorRemains, Exists
  <1> QED
    BY <1>1, <1>2

LEMMA StartUpdateJudged ==
    ASSUME TypeOK, Justified, NEW s \in Admins, NEW a \in Users, StartUpdate(s, a)
    PROVE  Justified'
  <1>1. PICK u \in Users, r \in DOMAIN role, active \in BOOLEAN :
          /\ Exists(u)
          /\ (r # user[u].role \/ (user[u].active /\ ~active)) => NotLastSuper(u)
          /\ request' = [request EXCEPT ![s] = [op |-> "update", target |-> u, seen |-> user[u],
                                                role |-> r, active |-> active,
                                                counted |-> ActiveSupers]]
    BY DEF StartUpdate
  <1>2. UNCHANGED <<user, role, outdated>>
    BY DEF StartUpdate
  <1> SUFFICES ASSUME ~outdated
               PROVE  /\ AdministratorRemains'
                      /\ \A q \in Admins : request'[q].op = "update" => Judged(request'[q])
    BY <1>2 DEF Justified, Judged
  <1>3. AdministratorRemains'
    BY <1>2 DEF Justified, AdministratorRemains, ActiveSupers, Exists
  <1>4. u \in ActiveSupers <=> user[u].active /\ user[u].super
    BY <1>1 DEF Justified, AdministratorRemains, ActiveSupers
  <1>5. u \in ActiveSupers /\ (r # user[u].role \/ ~active) => \E v \in ActiveSupers : v # u
    BY <1>1 DEF NotLastSuper, ActiveSupers
  <1>6. Judged([op |-> "update", target |-> u, seen |-> user[u], role |-> r,
                active |-> active, counted |-> ActiveSupers])
    BY <1>1, <1>4, <1>5 DEF Judged, Justified, AdministratorRemains
  <1>7. \A q \in Admins : request'[q] =
            IF q = s THEN [op |-> "update", target |-> u, seen |-> user[u], role |-> r,
                           active |-> active, counted |-> ActiveSupers]
            ELSE request[q]
    BY <1>1 DEF TypeOK
  <1> QED
    BY <1>3, <1>6, <1>7 DEF Justified

LEMMA CommitUpdateJudged ==
    ASSUME TypeOK, TargetsExist, Justified, NEW s \in Admins, CommitUpdate(s)
    PROVE  Justified'
  <1> DEFINE r == request[s]
             old == user[r.target]
             flag == IF r.role = r.seen.role THEN r.seen.super ELSE r.role = Super
             ro == Written(old, "role", r.seen.role, r.role)
             su == Written(old, "super", r.seen.super, flag)
             ac == Written(old, "active", r.seen.active, r.active)
             new == [old EXCEPT !.role = ro, !.super = su, !.active = ac]
  <1> SUFFICES ASSUME ~outdated'
               PROVE  AdministratorRemains'
                      /\ \A q \in Admins : request'[q].op = "update" => Judged(request'[q])
    BY DEF Justified, Judged
  <1>1. /\ r.target \in Users /\ r.active \in BOOLEAN /\ r.op = "update"
        /\ old \in User /\ Exists(r.target)
    <2>1. r \in Request
      BY DEF CommitUpdate, TypeOK, Idle
    <2> QED
      BY <2>1, UserColumns DEF CommitUpdate, TargetsExist, Request
  <1>2. ~outdated /\ (r.role \in DOMAIN role => ~Outdated(r))
    BY DEF CommitUpdate
  <1>3. /\ AdministratorRemains /\ Judged(r)
        /\ \A q \in Admins : request[q].op = "update" => Judged(request[q])
    BY <1>1, <1>2 DEF Justified
  <1>4. \A q \in Admins : request'[q].op = "update" => Judged(request'[q])
    BY <1>3 DEF CommitUpdate, TypeOK, Idle
  <1>5. user' = IF r.role \notin DOMAIN role THEN user ELSE [user EXCEPT ![r.target] = new]
    BY Zenon DEF CommitUpdate
  <1>6. CASE r.role \notin DOMAIN role
    <2>1. UNCHANGED user
      BY <1>5, <1>6
    <2> QED
      BY <1>3, <1>4, <2>1 DEF AdministratorRemains, ActiveSupers, Exists
  <1>7. CASE r.role \in DOMAIN role
    <2>1. /\ old.role = r.seen.role /\ old.super = r.seen.super /\ old.active = r.seen.active
          /\ r.counted \subseteq ActiveSupers
      BY <1>2, <1>7 DEF Outdated
    <2>2. ro = r.role /\ su = flag /\ ac = r.active
      BY <2>1 DEF Written
    <2>3. flag <=> r.role = Super
      BY <1>3 DEF Judged
    <2>4. TypeOK' /\ UsersStay
      BY CommitUpdateStep
    <2> HIDE DEF ro, su, ac
    <2>5. new.role = r.role /\ new.super = flag /\ new.active = r.active
      BY <1>1, <2>2 DEF User
    <2> HIDE DEF new, flag
    <2>6. user'[r.target] = new /\ \A u \in Users : u # r.target => user'[u] = user[u]
      BY <1>1, <1>5, <1>7 DEF TypeOK
    <2>7. \A u \in Users : Exists(u)' => (user'[u].super <=> user'[u].role = Super)
      BY <1>3, <2>3, <2>5, <2>6 DEF AdministratorRemains, Exists
    <2>8. \A v \in ActiveSupers : v # r.target => v \in ActiveSupers'
      BY <2>6 DEF ActiveSupers, Exists
    <2>9. ActiveSupers' # {}
      <3>1. PICK v \in ActiveSupers : TRUE
        BY <1>3 DEF AdministratorRemains
      <3>2. CASE r.target \notin ActiveSupers
        BY <3>1, <3>2, <2>8
      <3>3. CASE r.target \in ActiveSupers /\ (r.role # r.seen.role \/ ~r.active)
        <4>1. r.target \in r.counted
          BY <1>3, <2>1, <3>3 DEF Judged, ActiveSupers
        <4>2. PICK w \in r.counted : w # r.target
          BY <1>3, <3>3, <4>1 DEF Judged
        <4> QED
          BY <2>1, <4>2, <2>8
      <3>4. CASE r.target \in ActiveSupers /\ r.role = r.seen.role /\ r.active
        <4>1. r.role = Super /\ new.active /\ new.super /\ new.role = Super
          BY <3>4, <2>1, <2>3, <2>5 DEF ActiveSupers
        <4>2. r.target \in ActiveSupers'
          BY <4>1, <2>6, <1>1, <2>4 DEF ActiveSupers, UsersStay, Exists
        <4> QED
          BY <4>2
      <3> QED
        BY <1>1, <3>2, <3>3, <3>4
    <2> QED
      BY <1>4, <2>7, <2>9 DEF AdministratorRemains, Exists
  <1> QED
    BY <1>6, <1>7

\* However many administrators create, promote, demote and deactivate at once, an
\* active super administrator remains and flags agree with roles, until an update
\* is written that had judged another row, or counted somebody who has gone
\* (update_user, _assert_not_last_super_admin).
THEOREM OnlyOutdatedUpdatesRemoveTheLast == Spec => []RemainsUnlessOutdated
  <1>1. Inductive /\ Justified /\ [Next]_all => Justified'
    <2> SUFFICES ASSUME Inductive, Justified, [Next]_all PROVE Justified'
      OBVIOUS
    <2>1. TypeOK /\ TargetsExist
      BY DEF Inductive, SessionsTypeOK
    <2>2. CASE RanksStay
      <3>1. UNCHANGED <<request, outdated>>
        BY <2>2 DEF RanksStay
      <3> QED
        BY <3>1, <2>2, RanksStayStep DEF Justified, Judged
    <2> QED
      BY <2>1, <2>2, RanksStayOrUpdate, StartUpdateJudged, CommitUpdateJudged
  <1>2. Justified => RemainsUnlessOutdated
    BY DEF Justified, RemainsUnlessOutdated
  <1> QED
    BY <1>1, <1>2, InitJustified, AlwaysInductive, PTL DEF Spec

\* Nothing a request relies on has changed, and none has ever written otherwise.
UpToDate ==
    /\ ~outdated
    /\ \A s \in Admins : request[s].op = "update" => ~Outdated(request[s])

\* "At least one active super administrator must remain" does hold for whatever
\* administrators create, demote and deactivate, in whatever number, as long as
\* no two of their changes of users overlap (update_user,
\* _assert_not_last_super_admin).
THEOREM AdministratorRemainsAlone ==
    ASSUME \A s, t \in Admins : s = t
    PROVE  Spec => []AdministratorRemains
  <1>1. InitSessions => UpToDate
    BY DEF InitSessions, Init, UpToDate, Idle
  <1>2. Inductive /\ UpToDate /\ [Next]_all => UpToDate'
    <2> SUFFICES ASSUME Inductive, UpToDate, [Next]_all PROVE UpToDate'
      OBVIOUS
    <2>1. TypeOK /\ TargetsExist
      BY DEF Inductive, SessionsTypeOK
    <2>2. CASE RanksStay
      <3>1. UNCHANGED <<request, outdated>> /\ ActiveSupers \subseteq ActiveSupers'
        BY <2>2, RanksStayStep DEF RanksStay
      <3>2. ASSUME NEW s \in Admins, request[s].op = "update" PROVE ~Outdated(request[s])'
        <4>1. request[s].target \in Users /\ Exists(request[s].target)
          BY <2>1, <3>2 DEF TypeOK, Request, Idle, TargetsExist
        <4>2. \A c \in {"role", "super", "active"} :
                 user'[request[s].target][c] = user[request[s].target][c]
          BY <2>2, <4>1 DEF RanksStay
        <4>3. ~Outdated(request[s])
          BY <3>2 DEF UpToDate
        <4> QED
          BY <3>1, <4>2, <4>3 DEF Outdated
      <3> QED
        BY <3>1, <3>2 DEF UpToDate
    <2>3. ASSUME NEW s \in Admins, NEW a \in Users, StartUpdate(s, a) PROVE UpToDate'
      <3>1. PICK u \in Users, r \in DOMAIN role, active \in BOOLEAN :
               request' = [request EXCEPT ![s] = [op |-> "update", target |-> u,
                               seen |-> user[u], role |-> r, active |-> active,
                               counted |-> ActiveSupers]]
        BY <2>3 DEF StartUpdate
      <3>2. UNCHANGED <<user, outdated>>
        BY <2>3 DEF StartUpdate
      <3>3. ActiveSupers' = ActiveSupers
        BY <3>2 DEF ActiveSupers, Exists
      <3> QED
        BY <2>1, <3>1, <3>2, <3>3 DEF UpToDate, TypeOK, Outdated
    <2>4. ASSUME NEW s \in Admins, CommitUpdate(s) PROVE UpToDate'
      <3>1. ~outdated'
        BY <2>4 DEF CommitUpdate, UpToDate
      <3>2. \A q \in Admins : request'[q] = Idle
        BY <2>1, <2>4 DEF CommitUpdate, TypeOK
      <3> QED
        BY <3>1, <3>2 DEF UpToDate, Idle
    <2> QED
      BY <2>2, <2>3, <2>4, RanksStayOrUpdate
  <1>3. UpToDate /\ RemainsUnlessOutdated => AdministratorRemains
    BY DEF UpToDate, RemainsUnlessOutdated
  <1> QED
    BY <1>1, <1>2, <1>3, OnlyOutdatedUpdatesRemoveTheLast, AlwaysInductive, PTL DEF Spec
================================================================================
