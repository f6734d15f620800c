----------------------------- MODULE MCAuthSession -----------------------------
(* A small instance of AuthSession for TLC. *)
EXTENDS AuthSession, TLC

CONSTANTS founder, second, desk, c1, a1, a2

AdminSymmetry == Permutations(Admins)

Before == /\ \A i \in SessionIds : session[i] = NoSession
          /\ \A c \in Clients : client[c] = SignedOut
          /\ \A u \in Users : Exists(u) => user[u].password = 0
Working == {s \in Admins : request[s] # Idle}

\* Before the first login and reset two administrators work at once.  Later it is
\* one, with a request that is not outdated and while there is no custom role.
\* What follows an outdated update is not explored any further.
Quiet == /\ \A s, q \in Working : s = q /\ ~Outdated(request[s])
         /\ Working # {} => DOMAIN role = SystemRoles
Bounded == (~outdated /\ (Before \/ Quiet))'
================================================================================
