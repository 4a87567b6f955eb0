------------------------ MODULE RefreshTokensProofs ------------------------
(* Theorems about RefreshTokens, for every number of requests, accounts,   *)
(* tenants and tokens.                                                     *)
EXTENDS RefreshTokens, TLAPS

-----------------------------------------------------------------------------
(* The parts of the inductive invariant. *)

(* What a request holds at each stage. *)
Shape(q) ==
    /\ q.pc = "idle" <=> q.op = "none"
    /\ q.pc = "idle" => q = Idle
    /\ q.pc \in {"lookup", "revoke", "rows"} => q.op \in {"refresh", "logout"}
    /\ q.pc \in {"company", "account", "write"} => q.op \in {"login", "refresh"}
    /\ q.pc \in {"company", "account", "write"} => q.who \in Admins
    /\ q.op = "login" => q.token = NoToken /\ q.pc # "lookup" /\ q.who \in Admins
    /\ q.op = "refresh" => q.token \in Tokens
    /\ q.op \in {"login", "refresh"} /\ q.pc = "commit" => q.who \in Admins
    /\ q.pc \notin {"rows", "commit"} => q.held = {}
    /\ q.pc # "rows" => q.todo = {}
    /\ q.pc \in {"revoke", "rows"} => q.token # NoToken
    /\ q.token = NoToken => q.held = {}
    /\ q.new # NoToken <=> q.pc = "commit" /\ q.op \in {"login", "refresh"}
    /\ q.op = "login" => q.held = {}
    /\ q.op = "refresh" /\ q.pc = "commit" => q.held = {q.token}

(* The request has found its token in the table. *)
Found(q) == /\ q.op \in {"refresh", "logout"}
            /\ q.pc \notin {"idle", "lookup"}
            /\ q.token # NoToken

(* A found token is a committed row, and what revoke_family touches are    *)
(* rows of its family.  In an uncontended family a refresh works on a live *)
(* token, and revoke_family has seen every live token.                     *)
Sound(q) ==
    Found(q) =>
        /\ q.token \in rows
        /\ \A t \in q.todo \cup q.held : t \in rows /\ family[t] = family[q.token]
        /\ /\ q.op = "refresh" /\ q.pc \in {"company", "account", "write", "commit"}
           /\ family[q.token] \notin contended
           => q.token \notin revoked
        /\ /\ q.pc = "rows" \/ (q.op = "logout" /\ q.pc = "commit")
           /\ family[q.token] \notin contended
           => LiveOf(family[q.token]) \subseteq q.todo \cup q.held

(* Ids of uncommitted rows are new, and each belongs to one request. *)
FreshIds ==
    \A r \in Requests :
        req[r].new # NoToken =>
            /\ req[r].new \notin rows
            /\ \A s \in Requests \ {r} : req[s].new # req[r].new

(* A family is named by one of its rows; the history names families. *)
FamiliesExist ==
    /\ \A t \in rows : family[t] \in rows /\ owner[t] \in Admins
    /\ closed \subseteq rows

(* An uncontended family is used by one request at a time. *)
OneUser ==
    \A r, s \in Requests :
        /\ Found(req[r]) /\ Found(req[s])
        /\ family[req[r].token] = family[req[s].token]
        /\ family[req[r].token] \notin contended
        => r = s

(* A row gets a successor in the commit that revokes it. *)
ReplacedIsRevoked == \A t \in Tokens : replaced[t] # NoToken => t \in revoked

Shapes == \A r \in Requests : Shape(req[r])

FamilyInv ==
    /\ TypeOK
    /\ Shapes
    /\ \A r \in Requests : Sound(req[r])
    /\ FreshIds
    /\ FamiliesExist
    /\ OneUser
    /\ OneLiveTokenUnlessContended
    /\ LogoutEndsUncontendedFamily
    /\ UncontendedFamilyIsAChain
    /\ ReplacedIsRevoked
-----------------------------------------------------------------------------
(* Types and shapes. *)

(* An empty slot has the type and the shape of a request.                  *)
LEMMA IdleShape == Idle \in Request /\ Shape(Idle)
BY DEF Idle, Request, Ops, Stages, Shape

(* What a step records of an arriving request has its type.                *)
LEMMA SinceType ==
    ASSUME NEW b \in BOOLEAN, NEW c \in SUBSET Causes
    PROVE  [dead |-> b, barred |-> c] \in [dead: BOOLEAN, barred: SUBSET Causes]
OBVIOUS

(* Replacing one request by a well-shaped one keeps types and shapes.      *)
LEMMA OneRequest ==
    ASSUME req \in [Requests -> Request], Shapes,
           NEW r \in Requests, NEW q \in Request, Shape(q),
           req' = [req EXCEPT ![r] = q]
    PROVE  req' \in [Requests -> Request] /\ Shapes'
BY DEF Shapes

(* So does the end of a request.                                           *)
LEMMA EndStep ==
    ASSUME TypeOK, Shapes, NEW r \in Requests, End(r)
    PROVE  /\ req' \in [Requests -> Request] /\ Shapes'
           /\ since' \in [Requests -> [dead: BOOLEAN, barred: SUBSET Causes]]
BY IdleShape, OneRequest DEF End, TypeOK, Unbarred

(* Every step keeps types and shapes, one case per action.                 *)
LEMMA TypeStep ==
    ASSUME TypeOK, Shapes, \A r \in Requests : Sound(req[r]), FamiliesExist,
           [Next]_vars
    PROVE  TypeOK' /\ Shapes'
<1> USE DEF TypeOK, table, accounts, history
<1>1. ASSUME NEW r \in Requests, NEW a \in Admins, LoginArrives(r, a) PROVE TypeOK' /\ Shapes'
  <2> DEFINE q == [Idle EXCEPT !.op = "login", !.pc = FirstCheck(a), !.who = a]
  <2>1. req' = [req EXCEPT ![r] = q]
    BY <1>1 DEF LoginArrives, Step
  <2>2. q \in Request /\ Shape(q)
    BY <1>1 DEF Idle, Request, Shape, Ops, Stages, FirstCheck, NoToken, Tokens
  <2>3. req' \in [Requests -> Request] /\ Shapes'
    BY <2>1, <2>2, OneRequest
  <2>4. since' \in [Requests -> [dead: BOOLEAN, barred: SUBSET Causes]]
    BY <1>1, Zenon DEF LoginArrives, Unbarred, Barred
  <2> QED
    BY <1>1, <2>3, <2>4 DEF LoginArrives
<1>2. ASSUME NEW r \in Requests, NEW t \in Tokens, RefreshArrives(r, t) PROVE TypeOK' /\ Shapes'
  <2> DEFINE q == [Idle EXCEPT !.op = "refresh", !.pc = "lookup", !.token = t]
  <2>1. req' = [req EXCEPT ![r] = q]
    BY <1>2 DEF RefreshArrives, Step
  <2>2. q \in Request /\ Shape(q)
    BY <1>2 DEF Idle, Request, Shape, Ops, Stages, NoToken, Tokens
  <2>3. req' \in [Requests -> Request] /\ Shapes'
    BY <2>1, <2>2, OneRequest
  <2>4. since' \in [Requests -> [dead: BOOLEAN, barred: SUBSET Causes]]
    BY <1>2, SinceType DEF RefreshArrives, Unbarred, Barred
  <2> QED
    BY <1>2, <2>3, <2>4 DEF RefreshArrives
<1>3. ASSUME NEW r \in Requests, NEW t \in Tokens, LogoutArrives(r, t) PROVE TypeOK' /\ Shapes'
  <2> DEFINE q == [Idle EXCEPT !.op = "logout", !.pc = "lookup", !.token = t]
  <2>1. req' = [req EXCEPT ![r] = q]
    BY <1>3 DEF LogoutArrives, Step
  <2>2. q \in Request /\ Shape(q)
    BY <1>3 DEF Idle, Request, Shape, Ops, Stages, NoToken, Tokens
  <2>3. req' \in [Requests -> Request] /\ Shapes'
    BY <2>1, <2>2, OneRequest
  <2>4. since' \in [Requests -> [dead: BOOLEAN, barred: SUBSET Causes]]
    BY <1>3, Zenon DEF LogoutArrives, Unbarred, Barred
  <2> QED
    BY <1>3, <2>3, <2>4 DEF LogoutArrives
<1>4. ASSUME NEW r \in Requests, RefreshUnknown(r) PROVE TypeOK' /\ Shapes'
  <2>1. End(r)
    BY <1>4 DEF RefreshUnknown, Rollback
  <2>2. /\ req' \in [Requests -> Request] /\ Shapes'
          /\ since' \in [Requests -> [dead: BOOLEAN, barred: SUBSET Causes]]
    BY <2>1, EndStep
  <2> QED
    BY <1>4, <2>2 DEF RefreshUnknown
<1>5. ASSUME NEW r \in Requests, RefreshReused(r) PROVE TypeOK' /\ Shapes'
  <2> DEFINE q == [req[r] EXCEPT !.pc = "revoke"]
  <2>1. req' = [req EXCEPT ![r] = q]
    BY <1>5 DEF RefreshReused, Step
  <2>2. q \in Request /\ Shape(q)
    <3>1. req[r] \in Request /\ Shape(req[r])
      BY DEF Shapes
    <3>2. q \in Request
      BY <1>5, <3>1 DEF RefreshReused, Step, Request, Stages
    <3>3. Shape(q)
      BY <1>5, <3>1 DEF RefreshReused, Step, Request, Shape, Tokens, NoToken
    <3> QED
      BY <3>2, <3>3
  <2>3. req' \in [Requests -> Request] /\ Shapes'
    BY <2>1, <2>2, OneRequest
  <2>4. contended' \subseteq Tokens
    BY <1>5 DEF RefreshReused, Touch, FamiliesExist
  <2> QED
    BY <1>5, <2>3, <2>4 DEF RefreshReused
<1>6. ASSUME NEW r \in Requests, RefreshExpired(r) PROVE TypeOK' /\ Shapes'
  <2>1. End(r)
    BY <1>6 DEF RefreshExpired, Rollback
  <2>2. /\ req' \in [Requests -> Request] /\ Shapes'
          /\ since' \in [Requests -> [dead: BOOLEAN, barred: SUBSET Causes]]
    BY <2>1, EndStep
  <2>3. contended' \subseteq Tokens
    BY <1>6 DEF RefreshExpired, Touch, FamiliesExist
  <2> QED
    BY <1>6, <2>2, <2>3 DEF RefreshExpired
<1>7. ASSUME NEW r \in Requests, RefreshLive(r) PROVE TypeOK' /\ Shapes'
  <2> DEFINE q == [req[r] EXCEPT !.pc = FirstCheck(owner[req[r].token]), !.who =
     owner[req[r].token]]
  <2>1. req' = [req EXCEPT ![r] = q]
    BY <1>7 DEF RefreshLive, Step
  <2>2. q \in Request /\ Shape(q)
    <3>1. req[r] \in Request /\ Shape(req[r])
      BY DEF Shapes
    <3>2. q \in Request
      BY <1>7, <3>1 DEF RefreshLive, Request, Stages, FirstCheck, NoToken, Tokens, FamiliesExist
    <3>3. Shape(q)
      BY <1>7, <3>1 DEF RefreshLive, Request, Shape, FirstCheck, NoToken, Tokens, FamiliesExist
    <3> QED
      BY <3>2, <3>3
  <2>3. req' \in [Requests -> Request] /\ Shapes'
    BY <2>1, <2>2, OneRequest
  <2>4. contended' \subseteq Tokens
    BY <1>7 DEF RefreshLive, Touch, FamiliesExist
  <2> QED
    BY <1>7, <2>3, <2>4 DEF RefreshLive
<1>8. ASSUME NEW r \in Requests, LogoutFound(r) PROVE TypeOK' /\ Shapes'
  <2> DEFINE q == [req[r] EXCEPT !.pc = "revoke"]
  <2>1. req' = [req EXCEPT ![r] = q]
    BY <1>8 DEF LogoutFound, Step
  <2>2. q \in Request /\ Shape(q)
    <3>1. req[r] \in Request /\ Shape(req[r])
      BY DEF Shapes
    <3>2. q \in Request
      BY <1>8, <3>1 DEF LogoutFound, Step, Request, Stages
    <3>3. Shape(q)
      BY <1>8, <3>1 DEF LogoutFound, Step, Request, Shape, Tokens, NoToken
    <3> QED
      BY <3>2, <3>3
  <2>3. req' \in [Requests -> Request] /\ Shapes'
    BY <2>1, <2>2, OneRequest
  <2>4. contended' \subseteq Tokens
    BY <1>8 DEF LogoutFound, Touch, FamiliesExist
  <2> QED
    BY <1>8, <2>3, <2>4 DEF LogoutFound
<1>9. ASSUME NEW r \in Requests, LogoutUnknown(r) PROVE TypeOK' /\ Shapes'
  <2> DEFINE q == [req[r] EXCEPT !.pc = "commit", !.token = NoToken]
  <2>1. req' = [req EXCEPT ![r] = q]
    BY <1>9 DEF LogoutUnknown, Step
  <2>2. q \in Request /\ Shape(q)
    <3>1. req[r] \in Request /\ Shape(req[r])
      BY DEF Shapes
    <3>2. q \in Request
      BY <1>9, <3>1 DEF LogoutUnknown, Request, Stages, NoToken, Tokens
    <3>3. Shape(q)
      BY <1>9, <3>1 DEF LogoutUnknown, Request, Shape, NoToken, Tokens
    <3> QED
      BY <3>2, <3>3
  <2>3. req' \in [Requests -> Request] /\ Shapes'
    BY <2>1, <2>2, OneRequest
  <2> QED
    BY <1>9, <2>3 DEF LogoutUnknown
<1>10. ASSUME NEW r \in Requests, CompanyBlocked(r) PROVE TypeOK' /\ Shapes'
  <2>1. End(r)
    BY <1>10 DEF CompanyBlocked, Rollback
  <2>2. /\ req' \in [Requests -> Request] /\ Shapes'
          /\ since' \in [Requests -> [dead: BOOLEAN, barred: SUBSET Causes]]
    BY <2>1, EndStep
  <2> QED
    BY <1>10, <2>2 DEF CompanyBlocked
<1>11. ASSUME NEW r \in Requests, CompanyOpen(r) PROVE TypeOK' /\ Shapes'
  <2> DEFINE q == [req[r] EXCEPT !.pc = "account"]
  <2>1. req' = [req EXCEPT ![r] = q]
    BY <1>11 DEF CompanyOpen, Step
  <2>2. q \in Request /\ Shape(q)
    <3>1. req[r] \in Request /\ Shape(req[r])
      BY DEF Shapes
    <3>2. q \in Request
      BY <1>11, <3>1 DEF CompanyOpen, Step, Request, Stages
    <3>3. Shape(q)
      BY <1>11, <3>1 DEF CompanyOpen, Step, Request, Shape
    <3> QED
      BY <3>2, <3>3
  <2>3. req' \in [Requests -> Request] /\ Shapes'
    BY <2>1, <2>2, OneRequest
  <2> QED
    BY <1>11, <2>3 DEF CompanyOpen
<1>12. ASSUME NEW r \in Requests, AccountInactive(r) PROVE TypeOK' /\ Shapes'
  <2>1. End(r)
    BY <1>12 DEF AccountInactive, Rollback
  <2>2. /\ req' \in [Requests -> Request] /\ Shapes'
          /\ since' \in [Requests -> [dead: BOOLEAN, barred: SUBSET Causes]]
    BY <2>1, EndStep
  <2> QED
    BY <1>12, <2>2 DEF AccountInactive
<1>13. ASSUME NEW r \in Requests, AccountActive(r) PROVE TypeOK' /\ Shapes'
  <2> DEFINE q == [req[r] EXCEPT !.pc = "write"]
  <2>1. req' = [req EXCEPT ![r] = q]
    BY <1>13 DEF AccountActive, Step
  <2>2. q \in Request /\ Shape(q)
    <3>1. req[r] \in Request /\ Shape(req[r])
      BY DEF Shapes
    <3>2. q \in Request
      BY <1>13, <3>1 DEF AccountActive, Step, Request, Stages
    <3>3. Shape(q)
      BY <1>13, <3>1 DEF AccountActive, Step, Request, Shape
    <3> QED
      BY <3>2, <3>3
  <2>3. req' \in [Requests -> Request] /\ Shapes'
    BY <2>1, <2>2, OneRequest
  <2> QED
    BY <1>13, <2>3 DEF AccountActive
<1>14. ASSUME NEW r \in Requests, IssueFirst(r) PROVE TypeOK' /\ Shapes'
  <2>1. PICK n \in Tokens :
          req' = [req EXCEPT ![r].pc = "commit", ![r].new = n]
    BY <1>14 DEF IssueFirst
  <2> DEFINE q == [req[r] EXCEPT !.pc = "commit", !.new = n]
  <2>2. q \in Request /\ Shape(q)
    BY <1>14 DEF IssueFirst, Request, Shapes, Shape, Ops, Stages, RevokedByRotation, Tokens,
       NoToken
  <2>3. req' = [req EXCEPT ![r] = q]
    BY <2>1
  <2>4. req' \in [Requests -> Request] /\ Shapes'
    BY <2>2, <2>3, OneRequest
  <2> QED
    BY <1>14, <2>4 DEF IssueFirst
<1>15. ASSUME NEW r \in Requests, Rotate(r) PROVE TypeOK' /\ Shapes'
  <2>1. PICK n \in Tokens :
          req' = [req EXCEPT ![r].pc = "commit", ![r].new = n,
                 ![r].held = RevokedByRotation(req[r].token)]
    BY <1>15 DEF Rotate
  <2> DEFINE q == [req[r] EXCEPT !.pc = "commit", !.new = n, !.held =
     RevokedByRotation(req[r].token)]
  <2>2. q \in Request /\ Shape(q)
    BY <1>15 DEF Rotate, Request, Shapes, Shape, Ops, Stages, RevokedByRotation, Tokens, NoToken
  <2>3. req' = [req EXCEPT ![r] = q]
    BY <2>1
  <2>4. req' \in [Requests -> Request] /\ Shapes'
    BY <2>2, <2>3, OneRequest
  <2> QED
    BY <1>15, <2>4 DEF Rotate
<1>16. ASSUME NEW r \in Requests, RevokeFamily(r) PROVE TypeOK' /\ Shapes'
  <2> DEFINE q == [req[r] EXCEPT !.pc = "rows", !.todo = RevokedWithFamily(req[r].token)]
  <2>1. req' = [req EXCEPT ![r] = q]
    BY <1>16 DEF RevokeFamily, Step
  <2>2. q \in Request /\ Shape(q)
    <3>1. req[r] \in Request /\ Shape(req[r])
      BY DEF Shapes
    <3>2. q \in Request
      BY <1>16, <3>1 DEF RevokeFamily, Step, Request, Stages, RevokedWithFamily, LiveOf, Live
    <3>3. Shape(q)
      BY <1>16, <3>1 DEF RevokeFamily, Step, Request, Shape, RevokedWithFamily, LiveOf
    <3> QED
      BY <3>2, <3>3
  <2>3. req' \in [Requests -> Request] /\ Shapes'
    BY <2>1, <2>2, OneRequest
  <2> QED
    BY <1>16, <2>3 DEF RevokeFamily
<1>17. ASSUME NEW r \in Requests, RevokeRow(r) PROVE TypeOK' /\ Shapes'
  <2>1. PICK t \in req[r].todo :
          /\ req[r].pc = "rows"
          /\ req' = [req EXCEPT ![r].todo = @ \ {t}, ![r].held = @ \cup ({t} \ revoked)]
    BY <1>17 DEF RevokeRow
  <2> DEFINE q == [req[r] EXCEPT !.todo = @ \ {t}, !.held = @ \cup ({t} \ revoked)]
  <2>2. req[r] \in Request /\ Shape(req[r]) /\ t \in Tokens
    BY DEF Request, Shapes
  <2>3. q \in Request
    BY <2>2 DEF Request
  <2>4. Shape(q)
    BY <2>1, <2>2 DEF Shape, Request
  <2>5. req' = [req EXCEPT ![r] = q]
    BY <2>1
  <2>6. req' \in [Requests -> Request] /\ Shapes'
    BY <2>3, <2>4, <2>5, OneRequest
  <2> QED
    BY <1>17, <2>6 DEF RevokeRow
<1>18. ASSUME NEW r \in Requests, LogoutRevoked(r) PROVE TypeOK' /\ Shapes'
  <2> DEFINE q == [req[r] EXCEPT !.pc = "commit"]
  <2>1. req' = [req EXCEPT ![r] = q]
    BY <1>18 DEF LogoutRevoked, Step
  <2>2. q \in Request /\ Shape(q)
    <3>1. req[r] \in Request /\ Shape(req[r])
      BY DEF Shapes
    <3>2. q \in Request
      BY <1>18, <3>1 DEF LogoutRevoked, Step, Request, Stages
    <3>3. Shape(q)
      BY <1>18, <3>1 DEF LogoutRevoked, Step, Request, Shape
    <3> QED
      BY <3>2, <3>3
  <2>3. req' \in [Requests -> Request] /\ Shapes'
    BY <2>1, <2>2, OneRequest
  <2> QED
    BY <1>18, <2>3 DEF LogoutRevoked
<1>19. ASSUME NEW r \in Requests, ReuseRaises(r) PROVE TypeOK' /\ Shapes'
  <2>1. End(r)
    BY <1>19 DEF ReuseRaises, Rollback
  <2>2. /\ req' \in [Requests -> Request] /\ Shapes'
          /\ since' \in [Requests -> [dead: BOOLEAN, barred: SUBSET Causes]]
    BY <2>1, EndStep
  <2>3. req[r].token \in rows
    BY <1>19 DEF ReuseRaises, Shapes, Shape, Sound, Found, NoToken, Tokens
  <2>4. reused' \subseteq Tokens
    BY <1>19, <2>3 DEF ReuseRaises, FamiliesExist
  <2> QED
    BY <1>19, <2>2, <2>4 DEF ReuseRaises
<1>20. ASSUME NEW r \in Requests, CommitLogin(r) PROVE TypeOK' /\ Shapes'
  <2>1. End(r)
    BY <1>20 DEF CommitLogin, Rollback
  <2>2. /\ req' \in [Requests -> Request] /\ Shapes'
          /\ since' \in [Requests -> [dead: BOOLEAN, barred: SUBSET Causes]]
    BY <2>1, EndStep
  <2>3. req[r].new \in Tokens
    BY <1>20 DEF CommitLogin, Shapes, Shape, Request
  <2>4. req[r].who \in Admins /\ req[r].held \subseteq Tokens
    BY <1>20 DEF CommitLogin, Shapes, Shape, Request
  <2> QED
    BY <1>20, <2>2, <2>3, <2>4 DEF CommitLogin
<1>21. ASSUME NEW r \in Requests, CommitRefresh(r) PROVE TypeOK' /\ Shapes'
  <2>1. End(r)
    BY <1>21 DEF CommitRefresh, Rollback
  <2>2. /\ req' \in [Requests -> Request] /\ Shapes'
          /\ since' \in [Requests -> [dead: BOOLEAN, barred: SUBSET Causes]]
    BY <2>1, EndStep
  <2>3. req[r].new \in Tokens
    BY <1>21 DEF CommitRefresh, Shapes, Shape, Request
  <2>4. req[r].who \in Admins /\ req[r].held \subseteq Tokens
    BY <1>21 DEF CommitRefresh, Shapes, Shape, Request
  <2>5. req[r].token \in rows /\ family[req[r].token] \in Tokens /\ req[r].held \subseteq rows
    BY <1>21 DEF CommitRefresh, Shapes, Shape, Request, Sound, Found, NoToken, Tokens,
       FamiliesExist
  <2> QED
    BY <1>21, <2>2, <2>3, <2>4, <2>5 DEF CommitRefresh, Link, FamilyOfSuccessor
<1>22. ASSUME NEW r \in Requests, CommitLogout(r) PROVE TypeOK' /\ Shapes'
  <2>1. End(r)
    BY <1>22 DEF CommitLogout, Rollback
  <2>2. /\ req' \in [Requests -> Request] /\ Shapes'
          /\ since' \in [Requests -> [dead: BOOLEAN, barred: SUBSET Causes]]
    BY <2>1, EndStep
  <2>3. req[r].held \subseteq rows
    BY <1>22 DEF CommitLogout, Shapes, Shape, Request, Sound, Found, NoToken, Tokens
  <2>4. closed' \subseteq Tokens
    BY <1>22 DEF CommitLogout, FamiliesExist
  <2> QED
    BY <1>22, <2>2, <2>3, <2>4 DEF CommitLogout
<1>23. ASSUME NEW r \in Requests, Abort(r) PROVE TypeOK' /\ Shapes'
  <2>1. End(r)
    BY <1>23 DEF Abort, Rollback
  <2>2. /\ req' \in [Requests -> Request] /\ Shapes'
          /\ since' \in [Requests -> [dead: BOOLEAN, barred: SUBSET Causes]]
    BY <2>1, EndStep
  <2> QED
    BY <1>23, <2>2 DEF Abort
<1>24. ASSUME NEW t \in Tokens, Expire(t) PROVE TypeOK' /\ Shapes'
  BY <1>24 DEF Expire, Shapes
<1>25. ASSUME NEW c \in Companies, Suspend(c) PROVE TypeOK' /\ Shapes'
  BY <1>25 DEF Suspend, Shapes
<1>26. ASSUME NEW c \in Companies, Reinstate(c) PROVE TypeOK' /\ Shapes'
  <2>1. since' \in [Requests -> [dead: BOOLEAN, barred: SUBSET Causes]]
    BY <1>26 DEF Reinstate
  <2> QED
    BY <1>26, <2>1 DEF Reinstate, Shapes
<1>27. ASSUME NEW a \in Admins, Disable(a) PROVE TypeOK' /\ Shapes'
  BY <1>27 DEF Disable, Shapes
<1>28. ASSUME NEW a \in Admins, Enable(a) PROVE TypeOK' /\ Shapes'
  <2>1. since' \in [Requests -> [dead: BOOLEAN, barred: SUBSET Causes]]
    BY <1>28 DEF Enable
  <2> QED
    BY <1>28, <2>1 DEF Enable, Shapes
<1>29. CASE UNCHANGED vars
  BY <1>29 DEF vars, Shapes
<1> QED
  BY <1>1, <1>2, <1>3, <1>4, <1>5, <1>6, <1>7, <1>8, <1>9, <1>10, <1>11, <1>12, <1>13, <1>14,
     <1>15, <1>16, <1>17, <1>18, <1>19, <1>20, <1>21, <1>22, <1>23, <1>24, <1>25, <1>26, <1>27,
     <1>28, <1>29 DEF Next, Arrive, Serve, Lookup, Check, Write,
     LockStep, Commit, Environment
-----------------------------------------------------------------------------
(* Steps that leave the committed table alone: only one request moves, and *)
(* it stays sound, inserts nothing or a new id, and comes to a family that *)
(* another request uses only by making it contended.                       *)

SameTable == UNCHANGED <<rows, family, owner, revoked, replaced, closed>>

StillStep(r) ==
    /\ SameTable
    /\ contended \subseteq contended'
    /\ \A s \in Requests \ {r} : req'[s] = req[s]
    /\ Sound(req[r])'
    /\ req'[r].new \in {NoToken, req[r].new} \/ IsNext(req'[r].new)
    /\ \/ ~Found(req'[r])
       \/ Found(req[r]) /\ req'[r].token = req[r].token
       \/ \A s \in Requests \ {r} :
             Found(req[s]) /\ family[req[s].token] = family[req'[r].token]
                => family[req[s].token] \in contended'

(* What is left to show of FamilyInv once types and shapes are preserved. *)
SessionParts ==
    /\ \A r \in Requests : Sound(req[r])
    /\ FreshIds
    /\ FamiliesExist
    /\ OneUser
    /\ OneLiveTokenUnlessContended
    /\ LogoutEndsUncontendedFamily
    /\ UncontendedFamilyIsAChain
    /\ ReplacedIsRevoked

(* A step that leaves the table alone keeps the session invariant, when    *)
(* what it makes of its request is sound.                                  *)
LEMMA StillStepPreserves ==
    ASSUME FamilyInv, TypeOK', Shapes', NEW r \in Requests, StillStep(r)
    PROVE  SessionParts'
<1>1. SameTable /\ contended \subseteq contended' /\ \A s \in Requests \ {r} : req'[s] = req[s]
  BY DEF StillStep
<1>2. ASSUME NEW s \in Requests PROVE Sound(req[s])'
  <2>1. CASE s = r
    BY <2>1 DEF StillStep
  <2>2. CASE s # r
    <3>1. Sound(req[s]) /\ req'[s] = req[s]
      BY <1>1, <2>2 DEF FamilyInv
    <3> QED
      BY <1>1, <3>1 DEF Sound, Found, SameTable, LiveOf, Live
  <2> QED
    BY <2>1, <2>2
<1>3. FreshIds'
  <2>1. \A s \in Requests : req[s].new # NoToken => req[s].new \in Inserted
    BY DEF Inserted
  <2>2. req'[r].new \in {NoToken, req[r].new}
          \/ (req'[r].new \notin rows /\ \A s \in Requests : req[s].new = NoToken \/ req[s].new
             # req'[r].new)
    <3>1. CASE IsNext(req'[r].new)
      <4>1. \A t \in rows \cup Inserted : t < req'[r].new
        BY <3>1 DEF IsNext
      <4>2. req'[r].new \in Nat
        BY <3>1 DEF IsNext, Tokens
      <4> QED
        BY <4>1, <4>2, <2>1
    <3> QED
      BY <3>1 DEF StillStep
  <2> QED
    BY <1>1, <2>2 DEF FreshIds, FamilyInv, SameTable
<1>4. FamiliesExist'
  BY <1>1 DEF FamiliesExist, FamilyInv, SameTable
<1>5. OneUser'
  <2> SUFFICES ASSUME NEW s \in Requests, NEW u \in Requests, s # u,
                      Found(req'[s]), Found(req'[u]),
                      family[req'[s].token] = family[req'[u].token],
                      family[req'[s].token] \notin contended'
               PROVE  FALSE
    BY <1>1 DEF OneUser, SameTable, Found
  <2>1. OneUser
    BY DEF FamilyInv
  <2>2. CASE s # r /\ u # r
    BY <1>1, <2>1, <2>2 DEF OneUser
  <2>3. ASSUME NEW v \in Requests \ {r}, Found(req[v]), Found(req'[r]),
               family[req[v].token] = family[req'[r].token],
               family[req[v].token] \notin contended'
        PROVE  FALSE
    BY <1>1, <2>1, <2>3 DEF OneUser, StillStep
  <2> QED
    BY <1>1, <2>2, <2>3
<1>6. OneLiveTokenUnlessContended' /\ LogoutEndsUncontendedFamily'
  BY <1>1 DEF FamilyInv, OneLiveTokenUnlessContended, LogoutEndsUncontendedFamily, SameTable,
     LiveOf, Live
<1>7. UncontendedFamilyIsAChain' /\ ReplacedIsRevoked'
  BY <1>1 DEF FamilyInv, UncontendedFamilyIsAChain, ReplacedIsRevoked, SameTable
<1> QED
  BY <1>2, <1>3, <1>4, <1>5, <1>6, <1>7 DEF SessionParts

-----------------------------------------------------------------------------
(* The three commits. *)

(* The commit of a login starts a family of one live row.                  *)
LEMMA CommitLoginPreserves ==
    ASSUME FamilyInv, TypeOK', Shapes', NEW r \in Requests, CommitLogin(r)
    PROVE  SessionParts'
<1> DEFINE n == req[r].new
<1>1. /\ rows' = rows \cup {n} /\ family' = [family EXCEPT ![n] = n]
      /\ owner' = [owner EXCEPT ![n] = req[r].who]
      /\ UNCHANGED <<revoked, replaced, contended, closed>>
      /\ req' = [req EXCEPT ![r] = Idle]
  BY DEF CommitLogin, End, history
<1>2. n \in Tokens /\ n # NoToken /\ n \notin rows /\ req[r].who \in Admins
  BY DEF CommitLogin, FamilyInv, TypeOK, Request, Shapes, Shape, FreshIds
<1>3. \A t \in rows : family'[t] = family[t] /\ family[t] \in rows /\ owner'[t] = owner[t]
  BY <1>1, <1>2 DEF FamilyInv, FamiliesExist, TypeOK
<1>4. family'[n] = n /\ owner'[n] = req[r].who
  BY <1>1, <1>2 DEF FamilyInv, TypeOK
<1>5. \A f \in rows : LiveOf(f)' = LiveOf(f)
  BY <1>1, <1>2, <1>3, <1>4 DEF LiveOf, Live
<1>6. req'[r] = Idle /\ \A s \in Requests \ {r} : req'[s] = req[s]
  BY <1>1 DEF FamilyInv, TypeOK
<1>7. ~Found(req'[r])
  BY <1>6 DEF Found, Idle
<1>8. ASSUME NEW s \in Requests PROVE Sound(req[s])'
  <2>1. CASE s = r
    BY <2>1, <1>7 DEF Sound
  <2>2. CASE s # r
    <3>1. Sound(req[s]) /\ req'[s] = req[s]
      BY <1>6, <2>2 DEF FamilyInv
    <3> QED
      BY <1>1, <1>3, <1>5, <3>1 DEF Sound, Found
  <2> QED
    BY <2>1, <2>2
<1>9. FreshIds'
  BY <1>1, <1>2, <1>6 DEF FamilyInv, FreshIds, Idle
<1>10. FamiliesExist'
  BY <1>1, <1>2, <1>3, <1>4 DEF FamilyInv, FamiliesExist
<1>11. OneUser'
  <2>1. \A s \in Requests : Found(req'[s]) =>
            s # r /\ Found(req[s]) /\ req[s].token \in rows
    BY <1>6, <1>7 DEF FamilyInv, Sound
  <2> QED
    BY <2>1, <1>1, <1>3, <1>6 DEF FamilyInv, OneUser, Found
<1>12. OneLiveTokenUnlessContended'
  <2> SUFFICES ASSUME NEW f \in Tokens \ contended, NEW t \in LiveOf(f)', NEW u \in LiveOf(f)'
               PROVE  t = u
    BY <1>1 DEF OneLiveTokenUnlessContended
  <2>1. CASE f \in rows
    BY <2>1, <1>5 DEF FamilyInv, OneLiveTokenUnlessContended
  <2>2. CASE f \notin rows
    BY <2>2, <1>1, <1>3, <1>4 DEF LiveOf, Live
  <2> QED
    BY <2>1, <2>2
<1>13. LogoutEndsUncontendedFamily'
  BY <1>1, <1>5 DEF FamilyInv, LogoutEndsUncontendedFamily, FamiliesExist
<1>14. UncontendedFamilyIsAChain'
  BY <1>1, <1>3, <1>4 DEF FamilyInv, UncontendedFamilyIsAChain, TypeOK
<1>15. ReplacedIsRevoked'
  BY <1>1 DEF FamilyInv, ReplacedIsRevoked
<1> QED
  BY <1>15, <1>8, <1>9, <1>10, <1>11, <1>12, <1>13, <1>14 DEF SessionParts

(* The commit of a refresh moves the live row of a family one on.          *)
LEMMA CommitRefreshPreserves ==
    ASSUME FamilyInv, TypeOK', Shapes', NEW r \in Requests, CommitRefresh(r)
    PROVE  SessionParts'
<1> DEFINE n == req[r].new
           t == req[r].token
           f == family[t]
<1>1. /\ rows' = rows \cup {n} /\ family' = [family EXCEPT ![n] = f]
      /\ owner' = [owner EXCEPT ![n] = req[r].who]
      /\ revoked' = revoked \cup {t}
      /\ replaced' = [replaced EXCEPT ![t] = n]
      /\ UNCHANGED <<contended, closed>>
      /\ req' = [req EXCEPT ![r] = Idle]
  BY DEF CommitRefresh, End, history, Link, FamilyOfSuccessor, FamilyInv, Shapes, Shape
<1>2. n \in Tokens /\ n # NoToken /\ n \notin rows /\ req[r].who \in Admins
  BY DEF CommitRefresh, FamilyInv, TypeOK, Request, Shapes, Shape, FreshIds
<1>3. Found(req[r])
  BY DEF CommitRefresh, Found, FamilyInv, TypeOK, Request, Shapes, Shape, Tokens, NoToken
<1>4. t \in rows /\ f \in rows /\ (f \notin contended => t \notin revoked)
  BY <1>3 DEF CommitRefresh, FamilyInv, Sound, FamiliesExist
<1>5. \A u \in rows : family'[u] = family[u] /\ family[u] \in rows /\ owner'[u] = owner[u]
  BY <1>1, <1>2 DEF FamilyInv, FamiliesExist, TypeOK
<1>6. family'[n] = f /\ owner'[n] = req[r].who
  BY <1>1, <1>2 DEF FamilyInv, TypeOK
<1>7. \A g \in rows : g # f => LiveOf(g)' = LiveOf(g)
  BY <1>1, <1>2, <1>5, <1>6 DEF LiveOf, Live
<1>8. \A g \in rows : g = f => LiveOf(g)' \subseteq (LiveOf(g) \ {t}) \cup {n}
  BY <1>1, <1>2, <1>5, <1>6 DEF LiveOf, Live
<1>9. req'[r] = Idle /\ \A s \in Requests \ {r} : req'[s] = req[s]
  BY <1>1 DEF FamilyInv, TypeOK
<1>10. ~Found(req'[r])
  BY <1>9 DEF Found, Idle
<1>11. ASSUME f \notin contended PROVE LiveOf(f) = {t}
  BY <1>4, <1>11 DEF FamilyInv, OneLiveTokenUnlessContended, LiveOf, Live, FamiliesExist, TypeOK
<1>12. ASSUME NEW s \in Requests PROVE Sound(req[s])'
  <2>1. CASE ~Found(req'[s])
    BY <2>1 DEF Sound
  <2>2. CASE Found(req'[s])
    <3>1. s # r /\ Sound(req[s]) /\ req'[s] = req[s] /\ Found(req[s])
      BY <1>9, <1>10, <2>2 DEF FamilyInv
    <3>2. req[s].token \in rows /\ family'[req[s].token] = family[req[s].token]
      BY <1>5, <3>1 DEF Sound
    <3>3. family[req[s].token] = f => f \in contended
      BY <1>3, <3>1 DEF FamilyInv, OneUser
    <3>4. CASE family[req[s].token] = f
      BY <3>1, <3>2, <3>3, <3>4, <1>1, <1>5 DEF Sound, Found
    <3>5. CASE family[req[s].token] # f
      <4>1. \A g : g = family[req[s].token] => LiveOf(g)' = LiveOf(g)
        BY <1>5, <1>7, <3>2, <3>5
      <4>2. req[s].token # t
        BY <3>5
      <4> QED
        BY <3>1, <3>2, <4>1, <4>2, <1>1, <1>5 DEF Sound, Found
    <3> QED
      BY <3>4, <3>5
  <2> QED
    BY <2>1, <2>2
<1>13. FreshIds'
  BY <1>1, <1>2, <1>9 DEF FamilyInv, FreshIds, Idle
<1>14. FamiliesExist'
  BY <1>1, <1>2, <1>4, <1>5, <1>6 DEF FamilyInv, FamiliesExist
<1>15. OneUser'
  <2>1. \A s \in Requests : Found(req'[s]) =>
            s # r /\ Found(req[s]) /\ req[s].token \in rows
    BY <1>9, <1>10 DEF FamilyInv, Sound
  <2> QED
    BY <2>1, <1>1, <1>5, <1>9 DEF FamilyInv, OneUser, Found
<1>16. OneLiveTokenUnlessContended'
  <2> SUFFICES ASSUME NEW g \in Tokens \ contended, NEW u \in LiveOf(g)', NEW v \in LiveOf(g)'
               PROVE  u = v
    BY <1>1 DEF OneLiveTokenUnlessContended
  <2>1. g \in rows
    BY <1>1, <1>4, <1>5, <1>6 DEF LiveOf, Live
  <2>2. CASE g = f
    BY <2>1, <2>2, <1>8, <1>11
  <2>3. CASE g # f
    BY <2>1, <2>3, <1>7 DEF FamilyInv, OneLiveTokenUnlessContended
  <2> QED
    BY <2>2, <2>3
<1>17. LogoutEndsUncontendedFamily'
  <2>1. f \in closed \ contended => LiveOf(f) = {}
    BY DEF FamilyInv, LogoutEndsUncontendedFamily
  <2>2. f \notin closed \ contended
    BY <2>1, <1>11
  <2> QED
    BY <1>1, <1>7, <2>2 DEF FamilyInv, LogoutEndsUncontendedFamily, FamiliesExist
<1>18. UncontendedFamilyIsAChain'
  <2> SUFFICES ASSUME NEW u \in rows', family'[u] \notin contended, u # family'[u]
               PROVE  \E v \in revoked' : family'[v] = family'[u] /\ replaced'[v] = u
    BY <1>1 DEF UncontendedFamilyIsAChain
  <2>1. replaced'[t] = n /\ \A v \in rows \ {t} : replaced'[v] = replaced[v]
    BY <1>1, <1>4 DEF FamilyInv, TypeOK
  <2>2. CASE u = n
    BY <2>1, <2>2, <1>1, <1>4, <1>5, <1>6
  <2>3. CASE u \in rows
    <3>1. PICK v \in revoked : family[v] = family[u] /\ replaced[v] = u
      BY <2>3, <1>5 DEF FamilyInv, UncontendedFamilyIsAChain
    <3>2. v \in rows /\ v # t
      BY <3>1, <2>3, <1>4, <1>5 DEF FamilyInv, TypeOK
    <3> QED
      BY <3>1, <3>2, <2>1, <2>3, <1>1, <1>5
  <2> QED
    BY <2>2, <2>3, <1>1
<1>19. ReplacedIsRevoked'
  BY <1>1 DEF FamilyInv, ReplacedIsRevoked, TypeOK
<1> QED
  BY <1>19, <1>12, <1>13, <1>14, <1>15, <1>16, <1>17, <1>18 DEF SessionParts

(* The commit of a logout leaves an uncontended family without live rows.  *)
LEMMA CommitLogoutPreserves ==
    ASSUME FamilyInv, TypeOK', Shapes', NEW r \in Requests, CommitLogout(r)
    PROVE  SessionParts'
<1> DEFINE t == req[r].token
           f == family[t]
<1>1. /\ revoked' = revoked \cup req[r].held
      /\ closed' = closed \cup {family[u] : u \in {t} \cap rows}
      /\ UNCHANGED <<rows, family, owner, replaced, contended>>
      /\ req' = [req EXCEPT ![r] = Idle]
  BY DEF CommitLogout, End
<1>2. req'[r] = Idle /\ \A s \in Requests \ {r} : req'[s] = req[s]
  BY <1>1 DEF FamilyInv, TypeOK
<1>3. ~Found(req'[r])
  BY <1>2 DEF Found, Idle
<1>4. CASE t = NoToken
  <2>1. req[r].held = {} /\ t \notin rows
    BY <1>4 DEF FamilyInv, Shapes, Shape, TypeOK, Tokens, NoToken
  <2>2. StillStep(r)
    BY <2>1, <1>1, <1>2, <1>3 DEF StillStep, SameTable, Sound, Idle
  <2> QED
    BY <2>2, StillStepPreserves
<1>5. CASE t # NoToken
  <2>1. Found(req[r]) /\ Sound(req[r])
    BY <1>5 DEF CommitLogout, Found, FamilyInv
  <2>2. /\ t \in rows /\ f \in rows /\ \A u \in req[r].held : u \in rows /\ family[u] = f
        /\ f \notin contended => LiveOf(f) \subseteq req[r].held
    BY <2>1 DEF CommitLogout, FamilyInv, Shapes, Shape, Sound, FamiliesExist
  <2>3. \A g \in Tokens : LiveOf(g)' \subseteq LiveOf(g) /\ (g # f => LiveOf(g)' = LiveOf(g))
    BY <2>2, <1>1 DEF LiveOf, Live
  <2>4. \A g \in Tokens \ contended : g = f => LiveOf(g)' = {}
    BY <2>2, <1>1 DEF LiveOf, Live
  <2>5. closed' = closed \cup {f}
    BY <2>2, <1>1
  <2>6. ASSUME NEW s \in Requests PROVE Sound(req[s])'
    <3>1. CASE ~Found(req'[s])
      BY <3>1 DEF Sound
    <3>2. CASE Found(req'[s])
      <4>1. s # r /\ Sound(req[s]) /\ req'[s] = req[s] /\ Found(req[s])
        BY <1>2, <1>3, <3>2 DEF FamilyInv
      <4>2. req[s].token \in rows /\ family[req[s].token] \in Tokens
        BY <4>1 DEF Sound, FamilyInv, FamiliesExist, TypeOK
      <4>3. family[req[s].token] = f => f \in contended
        BY <2>1, <4>1 DEF FamilyInv, OneUser
      <4>4. family[req[s].token] # f => req[s].token \notin req[r].held
        BY <2>2
      <4> QED
        BY <4>1, <4>2, <4>3, <4>4, <2>3, <1>1 DEF Sound, Found
    <3> QED
      BY <3>1, <3>2
  <2>7. FreshIds'
    BY <1>1, <1>2 DEF FamilyInv, FreshIds, Idle
  <2>8. FamiliesExist'
    BY <1>1, <2>2, <2>5 DEF FamilyInv, FamiliesExist
  <2>9. OneUser'
    <3>1. \A s \in Requests : Found(req'[s]) => s # r /\ Found(req[s]) /\ req'[s] = req[s]
      BY <1>2, <1>3
    <3> QED
      BY <3>1, <1>1 DEF FamilyInv, OneUser, Found
  <2>10. OneLiveTokenUnlessContended'
    BY <2>3, <1>1 DEF FamilyInv, OneLiveTokenUnlessContended
  <2>11. LogoutEndsUncontendedFamily'
    BY <2>3, <2>4, <2>5, <1>1 DEF FamilyInv, LogoutEndsUncontendedFamily, TypeOK
  <2>12. UncontendedFamilyIsAChain' /\ ReplacedIsRevoked'
    BY <1>1 DEF FamilyInv, UncontendedFamilyIsAChain, ReplacedIsRevoked
  <2> QED
    BY <2>6, <2>7, <2>8, <2>9, <2>10, <2>11, <2>12 DEF SessionParts
<1> QED
  BY <1>4, <1>5

-----------------------------------------------------------------------------
(* Every step is one of the above. *)

(* A request that has found its token uses the token's family.             *)
LEMMA UsesIsFound ==
    ASSUME FamilyInv, NEW s \in Requests, Found(req[s])
    PROVE  Uses(s, family[req[s].token])
BY DEF FamilyInv, Uses, Found, Sound

(* A request that ends without committing keeps the session invariant.     *)
LEMMA EndPreserves ==
    ASSUME FamilyInv, TypeOK', Shapes', NEW r \in Requests,
           SameTable, contended \subseteq contended', req' = [req EXCEPT ![r] = Idle]
    PROVE  SessionParts'
<1>1. req'[r] = Idle /\ \A s \in Requests \ {r} : req'[s] = req[s]
  BY DEF FamilyInv, TypeOK
<1> QED
  BY <1>1, StillStepPreserves DEF StillStep, Sound, Found, Idle

(* So does a step that changes neither the table nor a request.            *)
LEMMA UnchangedPreserves ==
    ASSUME FamilyInv,
           UNCHANGED <<rows, family, owner, revoked, replaced, closed, contended, req>>
    PROVE  SessionParts'
BY DEF FamilyInv, SessionParts, Sound, Found, FreshIds, FamiliesExist, OneUser,
       OneLiveTokenUnlessContended, LogoutEndsUncontendedFamily,
       UncontendedFamilyIsAChain, ReplacedIsRevoked, LiveOf, Live

(* Every step keeps the session invariant, one case per action.            *)
LEMMA SessionStep ==
    ASSUME FamilyInv, [Next]_vars, TypeOK', Shapes'
    PROVE  SessionParts'
<1> USE DEF table, accounts, history
<1> DEFINE Elsewhere(r) == \A s \in Requests \ {r} : req'[s] = req[s]
<1>1. ASSUME NEW r \in Requests, NEW a \in Admins, LoginArrives(r, a) PROVE SessionParts'
  <2>1. SameTable /\ contended \subseteq contended' /\ Elsewhere(r)
    BY <1>1 DEF LoginArrives, SameTable, FamilyInv, TypeOK
  <2>2. req'[r] = [Idle EXCEPT !.op = "login", !.pc = FirstCheck(a), !.who = a]
    BY <1>1 DEF LoginArrives, FamilyInv, TypeOK
  <2>3. ~Found(req'[r]) /\ req'[r].new = NoToken
    BY <2>2 DEF Found, Idle
  <2> QED
    BY <2>1, <2>3, StillStepPreserves DEF StillStep, Sound
<1>2. ASSUME NEW r \in Requests, NEW t \in Tokens, RefreshArrives(r, t) PROVE SessionParts'
  <2>1. SameTable /\ contended \subseteq contended' /\ Elsewhere(r)
    BY <1>2 DEF RefreshArrives, SameTable, FamilyInv, TypeOK
  <2>2. req'[r] = [Idle EXCEPT !.op = "refresh", !.pc = "lookup", !.token = t]
    BY <1>2 DEF RefreshArrives, FamilyInv, TypeOK
  <2>3. ~Found(req'[r]) /\ req'[r].new = NoToken
    BY <2>2 DEF Found, Idle
  <2> QED
    BY <2>1, <2>3, StillStepPreserves DEF StillStep, Sound
<1>3. ASSUME NEW r \in Requests, NEW t \in Tokens, LogoutArrives(r, t) PROVE SessionParts'
  <2>1. SameTable /\ contended \subseteq contended' /\ Elsewhere(r)
    BY <1>3 DEF LogoutArrives, SameTable, FamilyInv, TypeOK
  <2>2. req'[r] = [Idle EXCEPT !.op = "logout", !.pc = "lookup", !.token = t]
    BY <1>3 DEF LogoutArrives, FamilyInv, TypeOK
  <2>3. ~Found(req'[r]) /\ req'[r].new = NoToken
    BY <2>2 DEF Found, Idle
  <2> QED
    BY <2>1, <2>3, StillStepPreserves DEF StillStep, Sound
<1>4. ASSUME NEW r \in Requests, RefreshUnknown(r) PROVE SessionParts'
  <2>1. SameTable /\ contended \subseteq contended' /\ req' = [req EXCEPT ![r] = Idle]
    BY <1>4 DEF RefreshUnknown, Rollback, End, SameTable, Touch
  <2> QED
    BY <2>1, EndPreserves
<1>5. ASSUME NEW r \in Requests, RefreshReused(r) PROVE SessionParts'
  <2>1. /\ SameTable /\ Elsewhere(r)
        /\ req[r].token \in rows /\ Touch(r, family[req[r].token])
        /\ req'[r] = [req[r] EXCEPT !.pc = "revoke"]
    BY <1>5 DEF RefreshReused, Step, SameTable, FamilyInv, TypeOK
  <2>2. req[r].pc = "lookup" /\ req[r].held = {} /\ req[r].todo = {} /\ req[r].new = NoToken
    BY <1>5 DEF RefreshReused, Step, FamilyInv, Shapes, Shape
  <2>3. /\ req'[r].token = req[r].token /\ req'[r].new = NoToken /\ req'[r].op = req[r].op
        /\ req'[r].todo = {} /\ req'[r].held = {}
        /\ req'[r].pc \in {"revoke", "company", "account"}
    BY <2>1, <2>2 DEF FamilyInv, TypeOK, Request, FirstCheck
  <2>4. contended \subseteq contended'
    BY <2>1 DEF Touch
  <2>5. req'[r].pc = "revoke" /\ req[r].op = "refresh"
    BY <1>5, <2>1 DEF RefreshReused, FamilyInv, TypeOK, Request
  <2>6. Sound(req[r])'
    BY <2>1, <2>3, <2>5 DEF Sound, SameTable
  <2>7. ASSUME NEW s \in Requests \ {r}, Found(req[s]),
               family[req[s].token] = family[req'[r].token]
        PROVE  family[req[s].token] \in contended'
    BY <2>1, <2>3, <2>7, UsesIsFound DEF Touch
  <2> QED
    BY <2>1, <2>3, <2>4, <2>6, <2>7, StillStepPreserves DEF StillStep
<1>6. ASSUME NEW r \in Requests, RefreshExpired(r) PROVE SessionParts'
  <2>1. SameTable /\ contended \subseteq contended' /\ req' = [req EXCEPT ![r] = Idle]
    BY <1>6 DEF RefreshExpired, Rollback, End, SameTable, Touch
  <2> QED
    BY <2>1, EndPreserves
<1>7. ASSUME NEW r \in Requests, RefreshLive(r) PROVE SessionParts'
  <2>1. /\ SameTable /\ Elsewhere(r)
        /\ req[r].token \in rows /\ Touch(r, family[req[r].token])
        /\ req'[r] = [req[r] EXCEPT !.pc = FirstCheck(owner[req[r].token]), !.who =
           owner[req[r].token]]
    BY <1>7 DEF RefreshLive, Step, SameTable, FamilyInv, TypeOK
  <2>2. req[r].pc = "lookup" /\ req[r].held = {} /\ req[r].todo = {} /\ req[r].new = NoToken
    BY <1>7 DEF RefreshLive, Step, FamilyInv, Shapes, Shape
  <2>3. /\ req'[r].token = req[r].token /\ req'[r].new = NoToken /\ req'[r].op = req[r].op
        /\ req'[r].todo = {} /\ req'[r].held = {}
        /\ req'[r].pc \in {"revoke", "company", "account"}
    BY <2>1, <2>2 DEF FamilyInv, TypeOK, Request, FirstCheck
  <2>4. contended \subseteq contended'
    BY <2>1 DEF Touch
  <2>5. req[r].token \notin revoked /\ req[r].op = "refresh"
    BY <1>7 DEF RefreshLive, IsRevoked
  <2>6. Sound(req[r])'
    BY <2>1, <2>3, <2>5 DEF Sound, SameTable
  <2>7. ASSUME NEW s \in Requests \ {r}, Found(req[s]),
               family[req[s].token] = family[req'[r].token]
        PROVE  family[req[s].token] \in contended'
    BY <2>1, <2>3, <2>7, UsesIsFound DEF Touch
  <2> QED
    BY <2>1, <2>3, <2>4, <2>6, <2>7, StillStepPreserves DEF StillStep
<1>8. ASSUME NEW r \in Requests, LogoutFound(r) PROVE SessionParts'
  <2>1. /\ SameTable /\ Elsewhere(r)
        /\ req[r].token \in rows /\ Touch(r, family[req[r].token])
        /\ req'[r] = [req[r] EXCEPT !.pc = "revoke"]
    BY <1>8 DEF LogoutFound, Step, SameTable, FamilyInv, TypeOK
  <2>2. req[r].pc = "lookup" /\ req[r].held = {} /\ req[r].todo = {} /\ req[r].new = NoToken
    BY <1>8 DEF LogoutFound, Step, FamilyInv, Shapes, Shape
  <2>3. /\ req'[r].token = req[r].token /\ req'[r].new = NoToken /\ req'[r].op = req[r].op
        /\ req'[r].todo = {} /\ req'[r].held = {}
        /\ req'[r].pc \in {"revoke", "company", "account"}
    BY <2>1, <2>2 DEF FamilyInv, TypeOK, Request, FirstCheck
  <2>4. contended \subseteq contended'
    BY <2>1 DEF Touch
  <2>5. req'[r].pc = "revoke" /\ req[r].op = "logout"
    BY <1>8, <2>1 DEF LogoutFound, FamilyInv, TypeOK, Request
  <2>6. Sound(req[r])'
    BY <2>1, <2>3, <2>5 DEF Sound, SameTable
  <2>7. ASSUME NEW s \in Requests \ {r}, Found(req[s]),
               family[req[s].token] = family[req'[r].token]
        PROVE  family[req[s].token] \in contended'
    BY <2>1, <2>3, <2>7, UsesIsFound DEF Touch
  <2> QED
    BY <2>1, <2>3, <2>4, <2>6, <2>7, StillStepPreserves DEF StillStep
<1>9. ASSUME NEW r \in Requests, LogoutUnknown(r) PROVE SessionParts'
  <2>1. SameTable /\ contended \subseteq contended' /\ Elsewhere(r)
    BY <1>9 DEF LogoutUnknown, SameTable, FamilyInv, TypeOK
  <2>2. req'[r] = [req[r] EXCEPT !.pc = "commit", !.token = NoToken]
    BY <1>9 DEF LogoutUnknown, FamilyInv, TypeOK
  <2>3. ~Found(req'[r]) /\ req'[r].new = NoToken
    <3>1. req[r] \in Request
      BY DEF FamilyInv, TypeOK
    <3>2. req'[r].token = NoToken /\ req'[r].new = req[r].new
      BY <2>2, <3>1 DEF Request
    <3>3. req[r].new = NoToken
      BY <1>9 DEF LogoutUnknown, FamilyInv, Shapes, Shape
    <3> QED  BY <3>2, <3>3 DEF Found
  <2> QED
    BY <2>1, <2>3, StillStepPreserves DEF StillStep, Sound
<1>10. ASSUME NEW r \in Requests, CompanyBlocked(r) PROVE SessionParts'
  <2>1. SameTable /\ contended \subseteq contended' /\ req' = [req EXCEPT ![r] = Idle]
    BY <1>10 DEF CompanyBlocked, Rollback, End, SameTable, Touch
  <2> QED
    BY <2>1, EndPreserves
<1>11. ASSUME NEW r \in Requests, CompanyOpen(r) PROVE SessionParts'
  <2>1. SameTable /\ contended' = contended /\ Elsewhere(r)
    BY <1>11 DEF CompanyOpen, Step, SameTable, FamilyInv, TypeOK
  <2>2. /\ req'[r].token = req[r].token /\ req'[r].op = req[r].op
        /\ req'[r].new = req[r].new
        /\ req'[r].todo = req[r].todo
        /\ req'[r].held = req[r].held
        /\ req[r].pc = "company" /\ req'[r].pc = "account"
    BY <1>11 DEF CompanyOpen, Step, RevokedByRotation, RevokedWithFamily, FamilyInv, TypeOK,
       Request
  <2>3. req[r].op \in {"login", "refresh"}
    BY <1>11, <2>2 DEF CompanyOpen, Step, FamilyInv, Shapes, Shape, Sound, Found, Tokens,
       NoToken
  <2>4. \A g \in Tokens : LiveOf(g)' = LiveOf(g)
    BY <2>1 DEF LiveOf, Live, SameTable
  <2>5. Found(req'[r]) => Found(req[r])
    BY <2>2, <2>3 DEF Found
  <2>6. Sound(req[r])'
    <3> SUFFICES ASSUME Found(req'[r]) PROVE Sound(req[r])'
      BY DEF Sound
    <3>1. Sound(req[r]) /\ Found(req[r])
      BY <2>5 DEF FamilyInv
    <3>2. req[r].token \in rows /\ family[req[r].token] \in Tokens
      BY <3>1 DEF Sound, FamilyInv, FamiliesExist, TypeOK
    <3> QED
      BY <3>1, <3>2, <2>1, <2>2, <2>3, <2>4 DEF Sound, Found, SameTable
  <2> QED
    BY <2>1, <2>2, <2>3, <2>5, <2>6, StillStepPreserves DEF StillStep
<1>12. ASSUME NEW r \in Requests, AccountInactive(r) PROVE SessionParts'
  <2>1. SameTable /\ contended \subseteq contended' /\ req' = [req EXCEPT ![r] = Idle]
    BY <1>12 DEF AccountInactive, Rollback, End, SameTable, Touch
  <2> QED
    BY <2>1, EndPreserves
<1>13. ASSUME NEW r \in Requests, AccountActive(r) PROVE SessionParts'
  <2>1. SameTable /\ contended' = contended /\ Elsewhere(r)
    BY <1>13 DEF AccountActive, Step, SameTable, FamilyInv, TypeOK
  <2>2. /\ req'[r].token = req[r].token /\ req'[r].op = req[r].op
        /\ req'[r].new = req[r].new
        /\ req'[r].todo = req[r].todo
        /\ req'[r].held = req[r].held
        /\ req[r].pc = "account" /\ req'[r].pc = "write"
    BY <1>13 DEF AccountActive, Step, RevokedByRotation, RevokedWithFamily, FamilyInv, TypeOK,
       Request
  <2>3. req[r].op \in {"login", "refresh"}
    BY <1>13, <2>2 DEF AccountActive, Step, FamilyInv, Shapes, Shape, Sound, Found, Tokens,
       NoToken
  <2>4. \A g \in Tokens : LiveOf(g)' = LiveOf(g)
    BY <2>1 DEF LiveOf, Live, SameTable
  <2>5. Found(req'[r]) => Found(req[r])
    BY <2>2, <2>3 DEF Found
  <2>6. Sound(req[r])'
    <3> SUFFICES ASSUME Found(req'[r]) PROVE Sound(req[r])'
      BY DEF Sound
    <3>1. Sound(req[r]) /\ Found(req[r])
      BY <2>5 DEF FamilyInv
    <3>2. req[r].token \in rows /\ family[req[r].token] \in Tokens
      BY <3>1 DEF Sound, FamilyInv, FamiliesExist, TypeOK
    <3> QED
      BY <3>1, <3>2, <2>1, <2>2, <2>3, <2>4 DEF Sound, Found, SameTable
  <2> QED
    BY <2>1, <2>2, <2>3, <2>5, <2>6, StillStepPreserves DEF StillStep
<1>14. ASSUME NEW r \in Requests, IssueFirst(r) PROVE SessionParts'
  <2>1. SameTable /\ contended' = contended /\ Elsewhere(r)
    BY <1>14 DEF IssueFirst, Step, SameTable, FamilyInv, TypeOK
  <2>2. /\ req'[r].token = req[r].token /\ req'[r].op = req[r].op
        /\ IsNext(req'[r].new)
        /\ req'[r].todo = req[r].todo
        /\ req'[r].held = req[r].held
        /\ req[r].pc = "write" /\ req'[r].pc = "commit"
    BY <1>14 DEF IssueFirst, Step, RevokedByRotation, RevokedWithFamily, FamilyInv, TypeOK,
       Request
  <2>3. req[r].op = "login"
    BY <1>14, <2>2 DEF IssueFirst, Step, FamilyInv, Shapes, Shape, Sound, Found, Tokens, NoToken
  <2>4. \A g \in Tokens : LiveOf(g)' = LiveOf(g)
    BY <2>1 DEF LiveOf, Live, SameTable
  <2>5. Found(req'[r]) => Found(req[r])
    BY <2>2, <2>3 DEF Found
  <2>6. Sound(req[r])'
    <3> SUFFICES ASSUME Found(req'[r]) PROVE Sound(req[r])'
      BY DEF Sound
    <3>1. Sound(req[r]) /\ Found(req[r])
      BY <2>5 DEF FamilyInv
    <3>2. req[r].token \in rows /\ family[req[r].token] \in Tokens
      BY <3>1 DEF Sound, FamilyInv, FamiliesExist, TypeOK
    <3> QED
      BY <3>1, <3>2, <2>1, <2>2, <2>3, <2>4 DEF Sound, Found, SameTable
  <2> QED
    BY <2>1, <2>2, <2>3, <2>5, <2>6, StillStepPreserves DEF StillStep
<1>15. ASSUME NEW r \in Requests, Rotate(r) PROVE SessionParts'
  <2>1. SameTable /\ contended' = contended /\ Elsewhere(r)
    BY <1>15 DEF Rotate, Step, SameTable, FamilyInv, TypeOK
  <2>2. /\ req'[r].token = req[r].token /\ req'[r].op = req[r].op
        /\ IsNext(req'[r].new)
        /\ req'[r].todo = req[r].todo
        /\ req'[r].held = {req[r].token}
        /\ req[r].pc = "write" /\ req'[r].pc = "commit"
    BY <1>15 DEF Rotate, Step, RevokedByRotation, RevokedWithFamily, FamilyInv, TypeOK, Request
  <2>3. req[r].op = "refresh" /\ req[r].token \in rows /\ Found(req[r])
    <3>1. req[r].op = "refresh" /\ req[r].pc = "write"
      BY <1>15 DEF Rotate
    <3>2. req[r].token \in Tokens
      BY <3>1 DEF FamilyInv, Shapes, Shape
    <3>3. Found(req[r])
      BY <3>1, <3>2 DEF Found, Tokens, NoToken
    <3> QED  BY <3>1, <3>3 DEF FamilyInv, Sound
  <2>4. \A g \in Tokens : LiveOf(g)' = LiveOf(g)
    BY <2>1 DEF LiveOf, Live, SameTable
  <2>5. Found(req'[r]) => Found(req[r])
    BY <2>2, <2>3 DEF Found
  <2>6. Sound(req[r])'
    <3> SUFFICES ASSUME Found(req'[r]) PROVE Sound(req[r])'
      BY DEF Sound
    <3>1. Sound(req[r]) /\ Found(req[r])
      BY <2>5 DEF FamilyInv
    <3>2. req[r].token \in rows /\ family[req[r].token] \in Tokens
      BY <3>1 DEF Sound, FamilyInv, FamiliesExist, TypeOK
    <3> QED
      BY <3>1, <3>2, <2>1, <2>2, <2>3, <2>4 DEF Sound, Found, SameTable
  <2> QED
    BY <2>1, <2>2, <2>3, <2>5, <2>6, StillStepPreserves DEF StillStep
<1>16. ASSUME NEW r \in Requests, RevokeFamily(r) PROVE SessionParts'
  <2>1. SameTable /\ contended' = contended /\ Elsewhere(r)
    BY <1>16 DEF RevokeFamily, Step, SameTable, FamilyInv, TypeOK
  <2>2. /\ req'[r].token = req[r].token /\ req'[r].op = req[r].op
        /\ req'[r].new = req[r].new
        /\ req'[r].todo = LiveOf(family[req[r].token])
        /\ req'[r].held = req[r].held
        /\ req[r].pc = "revoke" /\ req'[r].pc = "rows"
    BY <1>16 DEF RevokeFamily, Step, RevokedByRotation, RevokedWithFamily, FamilyInv, TypeOK,
       Request
  <2>3. req[r].op \in {"refresh", "logout"}
    BY <1>16, <2>2 DEF RevokeFamily, Step, FamilyInv, Shapes, Shape, Sound, Found, Tokens,
       NoToken
  <2>4. \A g \in Tokens : LiveOf(g)' = LiveOf(g)
    BY <2>1 DEF LiveOf, Live, SameTable
  <2>5. Found(req'[r]) => Found(req[r])
    BY <2>2, <2>3 DEF Found
  <2>6. Sound(req[r])'
    <3> SUFFICES ASSUME Found(req'[r]) PROVE Sound(req[r])'
      BY DEF Sound
    <3>1. Sound(req[r]) /\ Found(req[r])
      BY <2>5 DEF FamilyInv
    <3>2. req[r].token \in rows /\ family[req[r].token] \in Tokens
      BY <3>1 DEF Sound, FamilyInv, FamiliesExist, TypeOK
    <3> QED
      BY <3>1, <3>2, <2>1, <2>2, <2>3, <2>4 DEF Sound, Found, SameTable, LiveOf, Live
  <2> QED
    BY <2>1, <2>2, <2>3, <2>5, <2>6, StillStepPreserves DEF StillStep
<1>17. ASSUME NEW r \in Requests, RevokeRow(r) PROVE SessionParts'
  <2>1. SameTable /\ contended' = contended /\ Elsewhere(r)
    BY <1>17 DEF RevokeRow, Step, SameTable, FamilyInv, TypeOK
  <2>2. PICK t \in req[r].todo :
          req' = [req EXCEPT ![r].todo = @ \ {t}, ![r].held = @ \cup ({t} \ revoked)]
    BY <1>17 DEF RevokeRow
  <2>3. /\ req'[r].token = req[r].token /\ req'[r].op = req[r].op /\ req'[r].new = req[r].new
        /\ req'[r].todo = req[r].todo \ {t}
        /\ req'[r].held = req[r].held \cup ({t} \ revoked)
        /\ req[r].pc = "rows" /\ req'[r].pc = "rows"
    BY <1>17, <2>2 DEF RevokeRow, FamilyInv, TypeOK, Request
  <2>4. \A g \in Tokens : LiveOf(g) \subseteq req[r].todo \cup req[r].held
                             => LiveOf(g)' \subseteq req'[r].todo \cup req'[r].held
    BY <2>1, <2>3 DEF LiveOf, Live, SameTable
  <2>5. Found(req'[r]) => Found(req[r])
    BY <2>2, <2>3 DEF Found
  <2>6. Sound(req[r])'
    <3> SUFFICES ASSUME Found(req'[r]) PROVE Sound(req[r])'
      BY DEF Sound
    <3>1. Sound(req[r]) /\ Found(req[r])
      BY <2>5 DEF FamilyInv
    <3>2. req[r].token \in rows /\ family[req[r].token] \in Tokens
      BY <3>1 DEF Sound, FamilyInv, FamiliesExist, TypeOK
    <3>3. \A u \in req'[r].todo \cup req'[r].held :
             u \in rows' /\ family'[u] = family'[req'[r].token]
      BY <3>1, <2>1, <2>3 DEF Sound, SameTable
    <3>4. \A g \in Tokens \ contended : g = family[req[r].token]
             => LiveOf(g)' \subseteq req'[r].todo \cup req'[r].held
      BY <3>1, <2>3, <2>4 DEF Sound
    <3> QED
      BY <3>1, <3>2, <2>1, <2>3, <3>3, <3>4 DEF Sound, Found, SameTable
  <2> QED
    BY <2>1, <2>2, <2>3, <2>5, <2>6, StillStepPreserves DEF StillStep
<1>18. ASSUME NEW r \in Requests, LogoutRevoked(r) PROVE SessionParts'
  <2>1. SameTable /\ contended' = contended /\ Elsewhere(r)
    BY <1>18 DEF LogoutRevoked, Step, SameTable, FamilyInv, TypeOK
  <2>2. /\ req'[r].token = req[r].token /\ req'[r].op = req[r].op
        /\ req'[r].new = req[r].new
        /\ req'[r].todo = req[r].todo
        /\ req'[r].held = req[r].held
        /\ req[r].pc = "rows" /\ req'[r].pc = "commit"
    BY <1>18 DEF LogoutRevoked, Step, RevokedByRotation, RevokedWithFamily, FamilyInv, TypeOK,
       Request
  <2>3. req[r].op = "logout" /\ req[r].todo = {}
    BY <1>18, <2>2 DEF LogoutRevoked, Step, FamilyInv, Shapes, Shape, Sound, Found, Tokens,
       NoToken
  <2>4. \A g \in Tokens : LiveOf(g)' = LiveOf(g)
    BY <2>1 DEF LiveOf, Live, SameTable
  <2>5. Found(req'[r]) => Found(req[r])
    BY <2>2, <2>3 DEF Found
  <2>6. Sound(req[r])'
    <3> SUFFICES ASSUME Found(req'[r]) PROVE Sound(req[r])'
      BY DEF Sound
    <3>1. Sound(req[r]) /\ Found(req[r])
      BY <2>5 DEF FamilyInv
    <3>2. req[r].token \in rows /\ family[req[r].token] \in Tokens
      BY <3>1 DEF Sound, FamilyInv, FamiliesExist, TypeOK
    <3> QED
      BY <3>1, <3>2, <2>1, <2>2, <2>3, <2>4 DEF Sound, Found, SameTable
  <2> QED
    BY <2>1, <2>2, <2>3, <2>5, <2>6, StillStepPreserves DEF StillStep
<1>19. ASSUME NEW r \in Requests, ReuseRaises(r) PROVE SessionParts'
  <2>1. SameTable /\ contended \subseteq contended' /\ req' = [req EXCEPT ![r] = Idle]
    BY <1>19 DEF ReuseRaises, Rollback, End, SameTable, Touch
  <2> QED
    BY <2>1, EndPreserves
<1>20. ASSUME NEW r \in Requests, CommitLogin(r) PROVE SessionParts'
  BY <1>20, CommitLoginPreserves
<1>21. ASSUME NEW r \in Requests, CommitRefresh(r) PROVE SessionParts'
  BY <1>21, CommitRefreshPreserves
<1>22. ASSUME NEW r \in Requests, CommitLogout(r) PROVE SessionParts'
  BY <1>22, CommitLogoutPreserves
<1>23. ASSUME NEW r \in Requests, Abort(r) PROVE SessionParts'
  <2>1. SameTable /\ contended \subseteq contended' /\ req' = [req EXCEPT ![r] = Idle]
    BY <1>23 DEF Abort, Rollback, End, SameTable, Touch
  <2> QED
    BY <2>1, EndPreserves
<1>24. ASSUME NEW t \in Tokens, Expire(t) PROVE SessionParts'
  <2>1. UNCHANGED <<rows, family, owner, revoked, replaced, closed, contended, req>>
    BY <1>24 DEF Expire
  <2> QED
    BY <2>1, UnchangedPreserves
<1>25. ASSUME NEW c \in Companies, Suspend(c) PROVE SessionParts'
  <2>1. UNCHANGED <<rows, family, owner, revoked, replaced, closed, contended, req>>
    BY <1>25 DEF Suspend
  <2> QED
    BY <2>1, UnchangedPreserves
<1>26. ASSUME NEW c \in Companies, Reinstate(c) PROVE SessionParts'
  <2>1. UNCHANGED <<rows, family, owner, revoked, replaced, closed, contended, req>>
    BY <1>26 DEF Reinstate
  <2> QED
    BY <2>1, UnchangedPreserves
<1>27. ASSUME NEW a \in Admins, Disable(a) PROVE SessionParts'
  <2>1. UNCHANGED <<rows, family, owner, revoked, replaced, closed, contended, req>>
    BY <1>27 DEF Disable
  <2> QED
    BY <2>1, UnchangedPreserves
<1>28. ASSUME NEW a \in Admins, Enable(a) PROVE SessionParts'
  <2>1. UNCHANGED <<rows, family, owner, revoked, replaced, closed, contended, req>>
    BY <1>28 DEF Enable
  <2> QED
    BY <2>1, UnchangedPreserves
<1>29. CASE UNCHANGED vars
  BY <1>29, UnchangedPreserves DEF vars
<1> QED
  BY <1>1, <1>2, <1>3, <1>4, <1>5, <1>6, <1>7, <1>8, <1>9, <1>10, <1>11, <1>12, <1>13, <1>14,
     <1>15, <1>16, <1>17, <1>18, <1>19, <1>20, <1>21, <1>22, <1>23, <1>24, <1>25, <1>26, <1>27,
     <1>28, <1>29 DEF Next, Arrive, Serve, Lookup, Check,
     Write, LockStep, Commit, Environment

-----------------------------------------------------------------------------
(* The theorems. *)

(* The empty table satisfies the invariant.                                *)
LEMMA FamilyInit == Init => FamilyInv
<1> SUFFICES ASSUME Init PROVE FamilyInv
  OBVIOUS
<1>1. TypeOK /\ Shapes
  BY IdleShape DEF Init, TypeOK, Shapes, Unbarred
<1>2. \A r \in Requests : ~Found(req[r]) /\ req[r].new = NoToken
  BY DEF Init, Idle, Found
<1> QED
  BY <1>1, <1>2 DEF Init, FamilyInv, Sound, FreshIds, FamiliesExist, OneUser,
     OneLiveTokenUnlessContended, LogoutEndsUncontendedFamily,
     UncontendedFamilyIsAChain, ReplacedIsRevoked, LiveOf, Live

(* Every step keeps the invariant.                                         *)
LEMMA FamilyStep == FamilyInv /\ [Next]_vars => FamilyInv'
<1> SUFFICES ASSUME FamilyInv, [Next]_vars PROVE FamilyInv'
  OBVIOUS
<1>1. TypeOK' /\ Shapes'
  BY TypeStep DEF FamilyInv
<1>2. SessionParts'
  BY <1>1, SessionStep
<1> QED
  BY <1>1, <1>2 DEF FamilyInv, SessionParts

(* The invariant holds of every reachable state.                           *)
THEOREM FamilyInvariance == Spec => []FamilyInv
BY FamilyInit, FamilyStep, PTL DEF Spec

(* Every variable keeps its type. *)
THEOREM TypeCorrect == Spec => []TypeOK
<1>1. FamilyInv => TypeOK
  BY DEF FamilyInv
<1> QED
  BY <1>1, FamilyInvariance, PTL

(* Rotation (service.py:refresh) never leaves two live tokens in a family  *)
(* that no two requests used at the same time.                             *)
THEOREM RotationReplaces == Spec => []OneLiveTokenUnlessContended
<1>1. FamilyInv => OneLiveTokenUnlessContended
  BY DEF FamilyInv
<1> QED
  BY <1>1, FamilyInvariance, PTL

(* Logout (service.py:logout) leaves no live token, now or later, in a     *)
(* family that no two requests used at the same time.                      *)
THEOREM LogoutIsFinal == Spec => []LogoutEndsUncontendedFamily
<1>1. FamilyInv => LogoutEndsUncontendedFamily
  BY DEF FamilyInv
<1> QED
  BY <1>1, FamilyInvariance, PTL

(* The rows of such a family are one chain of replaced_by_id links. *)
THEOREM FamilyIsAChain == Spec => []UncontendedFamilyIsAChain
<1>1. FamilyInv => UncontendedFamilyIsAChain
  BY DEF FamilyInv
<1> QED
  BY <1>1, FamilyInvariance, PTL

=============================================================================
