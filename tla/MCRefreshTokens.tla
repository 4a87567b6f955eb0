-------------------------- MODULE MCRefreshTokens --------------------------
(* Instances of RefreshTokens.  In RT_sessions a behaviour has accounts of *)
(* one kind: either a platform administrator, whose sessions go through no *)
(* company check, so that three tokens and every race between two requests *)
(* fit, or the administrator of a tenant, with two tokens, whose account   *)
(* is disabled and whose tenant is suspended while requests run.  RT_live  *)
(* starts from a session two refreshes have forked, the only kind in which *)
(* requests wait for more than one row.                                    *)
EXTENDS RefreshTokens, TLC

CONSTANTS r1, r2, admin, root, acme

PlatformOnly == [a \in {root} |-> Platform]
TenantAndPlatform == [a \in {admin, root} |-> IF a = admin THEN acme ELSE Platform]

RequestSymmetry == Permutations(Requests)

Used(a) == \/ \E t \in rows : owner[t] = a
           \/ \E r \in Requests : req[r].who = a

OneKindOfAccount ==
    \/ suspended = {} /\ disabled = {} /\ ~Used(admin)
    \/ /\ ~Used(root)
       /\ \A r \in Requests : req[r].token <= 2
       /\ \A t \in rows \cup Inserted \cup {0} : t + Cardinality(MayInsert) <= 2

SessionsSpec == Init /\ [][Next /\ OneKindOfAccount']_vars

(* A session that two racing refreshes have forked: 1 was rotated into 2   *)
(* and into 3, and the clients hold both.                                  *)
ForkInit ==
    /\ rows = {1, 2, 3} /\ revoked = {1} /\ expired = {}
    /\ family = [t \in Tokens |-> IF t \in rows THEN 1 ELSE NoToken]
    /\ owner = [t \in Tokens |-> IF t \in rows THEN root ELSE NoAdmin]
    /\ replaced = [t \in Tokens |-> IF t = 1 THEN 3 ELSE NoToken]
    /\ suspended = {} /\ disabled = {}
    /\ req = [r \in Requests |-> Idle]
    /\ contended = {1} /\ closed = {} /\ reused = {}
    /\ since = [r \in Requests |-> Unbarred]

(* Refreshes and logouts race for its rows; nobody logs in and nothing     *)
(* expires meanwhile.                                                      *)
RacingNext ==
    /\ Next
    /\ expired' = expired
    /\ \A r \in Requests : req'[r].op # "login"

ForkFairSpec == ForkInit /\ [][RacingNext]_vars /\ Fairness
=============================================================================
