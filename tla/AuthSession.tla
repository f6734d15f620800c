------------------------------ MODULE AuthSession ------------------------------
(***************************************************************************)
(* Logging in, refreshing and revoking sessions (auth_service.py, with     *)
(* routes/auth.py and deps.py), together with the administration of the    *)
(* accounts, whose password resets revoke sessions.                        *)
(*                                                                         *)
(* A session accepts its current refresh token, and for a grace period     *)
(* the one before.  A refresh locks the session's row: one step.  Its      *)
(* answer may be lost, and then the client keeps the old token.  A client  *)
(* refreshes one at a time, under a browser lock (src/frontend).           *)
(***************************************************************************)
EXTENDS Accounts

CONSTANTS Clients,      \* browsers
          MaxSessions,  \* bound: sessions
          MaxToken      \* bound: refresh tokens of a session

ASSUME SessionAssumption == MaxSessions \in Nat /\ MaxToken \in Nat \ {0}

VARIABLES session,   \* auth_sessions
          client     \* what every browser holds

sessions == <<session, client>>
all == <<user, role, request, outdated, session, client>>

SessionIds == 1..MaxSessions
NoSession == [user |-> "none"]
\* opened: the password the login had verified; late: that password had
\* already been replaced when the session was inserted (both history).
Session == [user: Users, current: 1..MaxToken, previous: 0..MaxToken, grace: BOOLEAN,
            opened: 0..MaxPassword, late: BOOLEAN]
\* A revoked or expired session is never accepted again.
Over == [user |-> "over"]
SignedOut == [at |-> "login"]
\* lost: answers lost since the last one that was received (history).
Client == [at: {"verified"}, user: Users, password: 0..MaxPassword]
          \cup [at: {"work"}, session: SessionIds, token: 1..MaxToken, lost: 0..MaxToken]

SessionsTypeOK == /\ TypeOK
                  /\ session \in [SessionIds -> Session \cup {NoSession, Over}]
                  /\ client \in [Clients -> Client \cup {SignedOut}]

InitSessions == /\ Init
                /\ session = [i \in SessionIds |-> NoSession]
                /\ client = [c \in Clients |-> SignedOut]

----------------------------------------------------------------------------

Open(i) == session[i] \notin {NoSession, Over}
Active(u) == Exists(u) /\ user[u].active

\* authenticate: the user is read and the password verified ...
Verify(c) ==
    /\ client[c] = SignedOut
    /\ \E u \in Users :
        /\ Active(u)
        /\ client' = [client EXCEPT ![c] = [at |-> "verified", user |-> u,
                                            password |-> user[u].password]]
    /\ UNCHANGED <<accounts, session>>

\* ... and the session inserted.  Nothing is read again.
LogIn(c) ==
    /\ client[c].at = "verified"
    /\ \E i \in SessionIds :
        /\ session[i] = NoSession /\ \A j \in 1..(i - 1) : session[j] # NoSession
        /\ session' = [session EXCEPT ![i] =
              [user |-> client[c].user, current |-> 1, previous |-> 0, grace |-> FALSE,
               opened |-> client[c].password,
               late |-> (client[c].password # user[client[c].user].password)]]
        /\ client' = [client EXCEPT ![c] = [at |-> "work", session |-> i, token |-> 1, lost |-> 0]]
    /\ UNCHANGED accounts

\* refresh_session: the row is found by either token, and judged after it is locked.
Accepted(i, token) ==
    /\ Open(i)
    /\ token = session[i].current \/ (token = session[i].previous /\ session[i].grace)
    /\ Active(session[i].user)

\* Mutant: the token that was sent stays the previous one only if there was none.
RotatedKeeping(i) == [session[i] EXCEPT !.current = @ + 1, !.grace = TRUE]

Rotated(i) == [session[i] EXCEPT !.previous = session[i].current,
                                 !.current = @ + 1, !.grace = TRUE]

Refresh(c) ==
    /\ client[c].at = "work"
    /\ LET i == client[c].session IN
        /\ Accepted(i, client[c].token) /\ session[i].current < MaxToken
        /\ session' = [session EXCEPT ![i] = Rotated(i)]
        /\ \/ client' = [client EXCEPT ![c].token = session[i].current + 1, ![c].lost = 0]
           \/ client' = [client EXCEPT ![c].lost = @ + 1]     \* the answer is lost
    /\ UNCHANGED accounts

\* A refused refresh signs the client out.
Refused(c) ==
    /\ client[c].at = "work"
    /\ ~Accepted(client[c].session, client[c].token)
    /\ client' = [client EXCEPT ![c] = SignedOut]
    /\ UNCHANGED <<accounts, session>>

\* get_current_session: what every other request needs.
Authorized(c) == /\ client[c].at = "work"
                 /\ Open(client[c].session)
                 /\ Active(session[client[c].session].user)

LogOut(c) ==
    /\ Authorized(c)
    /\ session' = [session EXCEPT ![client[c].session] = Over]
    /\ client' = [client EXCEPT ![c] = SignedOut]
    /\ UNCHANGED accounts

RevokeOthers(c) ==
    /\ Authorized(c)
    /\ session' = [i \in SessionIds |->
          IF Open(i) /\ i # client[c].session /\ session[i].user = session[client[c].session].user
          THEN Over ELSE session[i]]
    /\ session' # session
    /\ UNCHANGED <<accounts, client>>

\* Mutant: sessions that have just been refreshed are overlooked.
EndedUnlessFresh(u) ==
    [i \in SessionIds |-> IF Open(i) /\ session[i].user = u /\ ~session[i].grace
                          THEN Over ELSE session[i]]

\* reset_user_password: every session of the user ends with the old password.
Ended(u) == [i \in SessionIds |-> IF Open(i) /\ session[i].user = u
                                  THEN Over ELSE session[i]]
ResetPassword == \E a, u \in Users : /\ NewPassword(a, u)
                                     /\ session' = Ended(u) /\ UNCHANGED client

GraceEnds == \E i \in SessionIds : /\ Open(i) /\ session[i].grace
                                   /\ session' = [session EXCEPT ![i].grace = FALSE]
                                   /\ UNCHANGED <<accounts, client>>
Expire == \E i \in SessionIds : /\ Open(i)
                                /\ session' = [session EXCEPT ![i] = Over]
                                /\ UNCHANGED <<accounts, client>>

Next == \/ Administer /\ UNCHANGED sessions
        \/ ResetPassword
        \/ \E c \in Clients : \/ Verify(c) \/ LogIn(c) \/ Refresh(c) \/ Refused(c)
                              \/ LogOut(c) \/ RevokeOthers(c)
        \/ GraceEnds \/ Expire

Spec == InitSessions /\ [][Next]_all

----------------------------------------------------------------------------

\* A client that loses one answer still holds a token its session knows: the
\* current one, or the one before, which is accepted while the grace period
\* lasts.  Other sessions, resets and revocations do not change that.
LostAnswerTolerated ==
    \A c \in Clients : client[c].at = "work" /\ client[c].lost <= 1 /\ Open(client[c].session) =>
        client[c].token \in {session[client[c].session].current,
                             session[client[c].session].previous}

\* The only session that outlives the password it was opened with is one whose
\* login had verified that password before the reset and was inserted after it.
ResetEndsSessions ==
    \A i \in SessionIds :
        Open(i) /\ session[i].opened # user[session[i].user].password
           => session[i].late
===============================================================================
