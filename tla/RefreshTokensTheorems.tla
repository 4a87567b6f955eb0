----------------------- MODULE RefreshTokensTheorems -----------------------
(* What a request may not do with a token that was dead, or for an account *)
(* that was barred, when it arrived; that replaced_by_id is written once;  *)
(* and that the store implements the sessions of Session.tla.              *)
EXTENDS RefreshTokensProofs

-----------------------------------------------------------------------------

(* A token that was dead when the request arrived still is when it is      *)
(* looked up, so the request never gets past the lookup.                   *)
DeadInv ==
    \A r \in Requests :
        req[r].op = "refresh" /\ since[r].dead =>
            /\ req[r].token \in revoked \cup expired
            /\ req[r].pc \in {"lookup", "revoke", "rows"}

(* A cause that has held since a request arrived holds now, and a request  *)
(* that has passed a check was not barred by what it checks.               *)
BarOK(r) ==
    /\ since[r].barred # {} => Subject(r) \in Admins
    /\ "suspended" \in since[r].barred => Scope[Subject(r)] \in suspended
    /\ "disabled" \in since[r].barred => Subject(r) \in disabled
    /\ req[r].op = "logout" => since[r].barred = {}
    /\ req[r].op = "refresh" /\ req[r].who # NoAdmin =>
          req[r].token \in rows /\ req[r].who = owner[req[r].token]
    /\ req[r].pc = "account" => "suspended" \notin since[r].barred
    /\ req[r].pc = "write" => since[r].barred = {}
    /\ req[r].new # NoToken => since[r].barred = {}

BarInv == \A r \in Requests : BarOK(r)

-----------------------------------------------------------------------------
(* replaced_by_id is written once in an uncontended family: it is written  *)
(* by the commit that revokes the row.                                     *)
LEMMA ReplacedStep ==
    ASSUME FamilyInv, [Next]_vars, NEW t \in rows, replaced[t] \notin {NoToken, replaced'[t]}
    PROVE  family[t] \in contended
<1>1. replaced' # replaced
  OBVIOUS
<1>2. PICK r \in Requests : CommitRefresh(r)
  BY <1>1, ZenonT(30) DEF Next, Arrive, Serve, Lookup, Check, Write, LockStep, Commit, Environment,
     vars, table, accounts, history, LoginArrives, RefreshArrives, LogoutArrives,
        RefreshUnknown, RefreshReused, RefreshExpired, RefreshLive, LogoutFound, LogoutUnknown,
        CompanyBlocked, CompanyOpen, AccountInactive, AccountActive, IssueFirst, Rotate,
        RevokeFamily, RevokeRow, LogoutRevoked, ReuseRaises, CommitLogin, CommitLogout, Abort,
        Expire, Suspend, Reinstate, Disable, Enable
<1>3. replaced' = [replaced EXCEPT ![req[r].token] = req[r].new]
  BY <1>2 DEF CommitRefresh, Link
<1>4. t = req[r].token /\ t \in revoked
  BY <1>3 DEF FamilyInv, ReplacedIsRevoked, TypeOK
<1>5. Found(req[r])
  BY <1>2 DEF CommitRefresh, Found, FamilyInv, Shapes, Shape, Tokens, NoToken
<1> QED
  BY <1>2, <1>4, <1>5 DEF CommitRefresh, FamilyInv, Sound

(* Theorem: replaced_by_id of a row is not overwritten unless requests     *)
(* raced for its family (service.py:refresh).                              *)
THEOREM ReplacedOnce == Spec => ReplacedOnceUnlessContended
<1>1. FamilyInv /\ [Next]_vars =>
        [\A t \in rows : replaced[t] \notin {NoToken, replaced'[t]}
                            => family[t] \in contended]_vars
  BY ReplacedStep
<1> QED
  BY <1>1, FamilyInvariance, PTL DEF Spec, ReplacedOnceUnlessContended

-----------------------------------------------------------------------------
(* Every step keeps dead tokens out of the writing stages.                 *)
LEMMA DeadStep ==
    ASSUME FamilyInv, DeadInv, [Next]_vars, FamilyInv'
    PROVE  DeadInv'
<1> USE DEF table, accounts, history
<1>0. req \in [Requests -> Request] /\ since \in [Requests -> [dead: BOOLEAN, barred: SUBSET Causes]]
  BY DEF FamilyInv, TypeOK
<1>1. ASSUME NEW r \in Requests, NEW a \in Admins, LoginArrives(r, a) PROVE DeadInv'
  BY <1>0, <1>1 DEF LoginArrives, DeadInv, Step, End, Rollback, Idle, Unbarred, Touch,
     IsRevoked, FirstCheck, Request
<1>2. ASSUME NEW r \in Requests, NEW t \in Tokens, RefreshArrives(r, t) PROVE DeadInv'
  BY <1>0, <1>2 DEF RefreshArrives, DeadInv, Step, End, Rollback, Idle, Unbarred, Touch,
     IsRevoked, FirstCheck, Request
<1>3. ASSUME NEW r \in Requests, NEW t \in Tokens, LogoutArrives(r, t) PROVE DeadInv'
  BY <1>0, <1>3 DEF LogoutArrives, DeadInv, Step, End, Rollback, Idle, Unbarred, Touch,
     IsRevoked, FirstCheck, Request
<1>4. ASSUME NEW r \in Requests, RefreshUnknown(r) PROVE DeadInv'
  BY <1>0, <1>4 DEF RefreshUnknown, DeadInv, Step, End, Rollback, Idle, Unbarred, Touch,
     IsRevoked, FirstCheck, Request
<1>5. ASSUME NEW r \in Requests, RefreshReused(r) PROVE DeadInv'
  BY <1>0, <1>5 DEF RefreshReused, DeadInv, Step, End, Rollback, Idle, Unbarred, Touch,
     IsRevoked, FirstCheck, Request
<1>6. ASSUME NEW r \in Requests, RefreshExpired(r) PROVE DeadInv'
  BY <1>0, <1>6 DEF RefreshExpired, DeadInv, Step, End, Rollback, Idle, Unbarred, Touch,
     IsRevoked, FirstCheck, Request
<1>7. ASSUME NEW r \in Requests, RefreshLive(r) PROVE DeadInv'
  BY <1>0, <1>7 DEF RefreshLive, DeadInv, Step, End, Rollback, Idle, Unbarred, Touch, IsRevoked,
     FirstCheck, Request
<1>8. ASSUME NEW r \in Requests, LogoutFound(r) PROVE DeadInv'
  BY <1>0, <1>8 DEF LogoutFound, DeadInv, Step, End, Rollback, Idle, Unbarred, Touch, IsRevoked,
     FirstCheck, Request
<1>9. ASSUME NEW r \in Requests, LogoutUnknown(r) PROVE DeadInv'
  BY <1>0, <1>9 DEF LogoutUnknown, DeadInv, Step, End, Rollback, Idle, Unbarred, Touch,
     IsRevoked, FirstCheck, Request
<1>10. ASSUME NEW r \in Requests, CompanyBlocked(r) PROVE DeadInv'
  BY <1>0, <1>10 DEF CompanyBlocked, DeadInv, Step, End, Rollback, Idle, Unbarred, Touch,
     IsRevoked, FirstCheck, Request
<1>11. ASSUME NEW r \in Requests, CompanyOpen(r) PROVE DeadInv'
  BY <1>0, <1>11 DEF CompanyOpen, DeadInv, Step, End, Rollback, Idle, Unbarred, Touch,
     IsRevoked, FirstCheck, Request
<1>12. ASSUME NEW r \in Requests, AccountInactive(r) PROVE DeadInv'
  BY <1>0, <1>12 DEF AccountInactive, DeadInv, Step, End, Rollback, Idle, Unbarred, Touch,
     IsRevoked, FirstCheck, Request
<1>13. ASSUME NEW r \in Requests, AccountActive(r) PROVE DeadInv'
  BY <1>0, <1>13 DEF AccountActive, DeadInv, Step, End, Rollback, Idle, Unbarred, Touch,
     IsRevoked, FirstCheck, Request
<1>14. ASSUME NEW r \in Requests, IssueFirst(r) PROVE DeadInv'
  BY <1>0, <1>14 DEF IssueFirst, DeadInv, Step, End, Rollback, Idle, Unbarred, Touch, IsRevoked,
     FirstCheck, Request
<1>15. ASSUME NEW r \in Requests, Rotate(r) PROVE DeadInv'
  BY <1>0, <1>15 DEF Rotate, DeadInv, Step, End, Rollback, Idle, Unbarred, Touch, IsRevoked,
     FirstCheck, Request
<1>16. ASSUME NEW r \in Requests, RevokeFamily(r) PROVE DeadInv'
  BY <1>0, <1>16 DEF RevokeFamily, DeadInv, Step, End, Rollback, Idle, Unbarred, Touch,
     IsRevoked, FirstCheck, Request
<1>17. ASSUME NEW r \in Requests, RevokeRow(r) PROVE DeadInv'
  BY <1>0, <1>17 DEF RevokeRow, DeadInv, Step, End, Rollback, Idle, Unbarred, Touch, IsRevoked,
     FirstCheck, Request
<1>18. ASSUME NEW r \in Requests, LogoutRevoked(r) PROVE DeadInv'
  BY <1>0, <1>18 DEF LogoutRevoked, DeadInv, Step, End, Rollback, Idle, Unbarred, Touch,
     IsRevoked, FirstCheck, Request
<1>19. ASSUME NEW r \in Requests, ReuseRaises(r) PROVE DeadInv'
  BY <1>0, <1>19 DEF ReuseRaises, DeadInv, Step, End, Rollback, Idle, Unbarred, Touch,
     IsRevoked, FirstCheck, Request
<1>20. ASSUME NEW r \in Requests, CommitLogin(r) PROVE DeadInv'
  BY <1>0, <1>20 DEF CommitLogin, DeadInv, Step, End, Rollback, Idle, Unbarred, Touch,
     IsRevoked, FirstCheck, Request
<1>21. ASSUME NEW r \in Requests, CommitRefresh(r) PROVE DeadInv'
  BY <1>0, <1>21 DEF CommitRefresh, DeadInv, Step, End, Rollback, Idle, Unbarred, Touch,
     IsRevoked, FirstCheck, Request
<1>22. ASSUME NEW r \in Requests, CommitLogout(r) PROVE DeadInv'
  BY <1>0, <1>22 DEF CommitLogout, DeadInv, Step, End, Rollback, Idle, Unbarred, Touch,
     IsRevoked, FirstCheck, Request
<1>23. ASSUME NEW r \in Requests, Abort(r) PROVE DeadInv'
  BY <1>0, <1>23 DEF Abort, DeadInv, Step, End, Rollback, Idle, Unbarred, Touch, IsRevoked,
     FirstCheck, Request
<1>24. ASSUME NEW t \in Tokens, Expire(t) PROVE DeadInv'
  BY <1>0, <1>24 DEF Expire, DeadInv, Step, End, Rollback, Idle, Unbarred, Touch, IsRevoked,
     FirstCheck, Request
<1>25. ASSUME NEW c \in Companies, Suspend(c) PROVE DeadInv'
  BY <1>0, <1>25 DEF Suspend, DeadInv, Step, End, Rollback, Idle, Unbarred, Touch, IsRevoked,
     FirstCheck, Request
<1>26. ASSUME NEW c \in Companies, Reinstate(c) PROVE DeadInv'
  BY <1>0, <1>26 DEF Reinstate, DeadInv, Step, End, Rollback, Idle, Unbarred, Touch, IsRevoked,
     FirstCheck, Request
<1>27. ASSUME NEW a \in Admins, Disable(a) PROVE DeadInv'
  BY <1>0, <1>27 DEF Disable, DeadInv, Step, End, Rollback, Idle, Unbarred, Touch, IsRevoked,
     FirstCheck, Request
<1>28. ASSUME NEW a \in Admins, Enable(a) PROVE DeadInv'
  BY <1>0, <1>28 DEF Enable, DeadInv, Step, End, Rollback, Idle, Unbarred, Touch, IsRevoked,
     FirstCheck, Request
<1>29. CASE UNCHANGED vars
  BY <1>29 DEF vars, DeadInv
<1> QED
  BY <1>1, <1>2, <1>3, <1>4, <1>5, <1>6, <1>7, <1>8, <1>9, <1>10, <1>11, <1>12, <1>13, <1>14,
     <1>15, <1>16, <1>17, <1>18, <1>19, <1>20, <1>21, <1>22, <1>23, <1>24, <1>25, <1>26, <1>27,
     <1>28, <1>29 DEF Next, Arrive, Serve, Lookup, Check,
     Write, LockStep, Commit, Environment

(* Theorem: no request rotates a token that was revoked or had expired     *)
(* when the request arrived (service.py:254-269).                          *)
THEOREM DeadTokensStayDead == Spec => []DeadTokenIsNeverRotated
<1>1. Init => DeadInv
  BY DEF Init, Idle, DeadInv
<1>2. FamilyInv /\ FamilyInv' /\ DeadInv /\ [Next]_vars => DeadInv'
  BY DeadStep
<1>3. FamilyInv /\ DeadInv => DeadTokenIsNeverRotated
  BY DEF DeadInv, DeadTokenIsNeverRotated, FamilyInv, Shapes, Shape
<1> QED
  BY <1>1, <1>2, <1>3, FamilyInvariance, PTL DEF Spec

-----------------------------------------------------------------------------
(* A slot without a token points at no row.                                *)
LEMMA NoTokenIsNoRow == TypeOK => NoToken \notin rows
BY DEF TypeOK, Tokens, NoToken

(* The account a request is about is the one it serves.                    *)
LEMMA SubjectIsWho ==
    ASSUME FamilyInv, BarInv, NEW r \in Requests,
           req[r].op \in {"login", "refresh"}, req[r].who \in Admins
    PROVE  Subject(r) = req[r].who
BY NoTokenIsNoRow, ScopeAssumption DEF FamilyInv, BarInv, BarOK, Subject, Shapes, Shape

(* A request that ends leaves nothing recorded.                            *)
LEMMA BarEnds ==
    ASSUME TypeOK, BarInv, NEW r \in Requests, End(r),
           UNCHANGED <<rows, owner, suspended, disabled>>
    PROVE  BarInv'
<1>1. BarOK(r)'
  BY DEF TypeOK, End, BarOK, Idle, Unbarred
<1>2. ASSUME NEW s \in Requests, s # r PROVE BarOK(s)'
  BY <1>2 DEF TypeOK, End, BarInv, BarOK, Subject
<1> QED
  BY <1>1, <1>2 DEF BarInv

(* A request that moves on without writing keeps what is recorded of its   *)
(* account.                                                                *)
LEMMA BarMoves ==
    ASSUME TypeOK, BarInv, NEW r \in Requests, NEW q,
           req' = [req EXCEPT ![r] = q],
           q.op = req[r].op, q.token = req[r].token, q.who = req[r].who,
           q.new = req[r].new, q.pc \notin {"account", "write"},
           UNCHANGED <<rows, owner, suspended, disabled, since>>
    PROVE  BarInv'
<1>1. req'[r] = q
  BY DEF TypeOK
<1>2. BarOK(r)'
  BY <1>1 DEF BarInv, BarOK, Subject
<1>3. ASSUME NEW s \in Requests, s # r PROVE BarOK(s)'
  BY <1>3 DEF TypeOK, BarInv, BarOK, Subject
<1> QED
  BY <1>2, <1>3 DEF BarInv

(* A commit adds a row; the rows the other requests point at stay.         *)
LEMMA BarCommits ==
    ASSUME FamilyInv, FamilyInv', BarInv, NEW r \in Requests, End(r),
           rows' = rows \cup {req[r].new},
           \A t \in rows : owner'[t] = owner[t],
           UNCHANGED <<suspended, disabled>>
    PROVE  BarInv'
<1>0. req \in [Requests -> Request] /\ since \in [Requests -> [dead: BOOLEAN, barred: SUBSET Causes]]
  BY DEF FamilyInv, TypeOK
<1>1. BarOK(r)'
  BY <1>0 DEF End, BarOK, Idle, Unbarred
<1>2. ASSUME NEW s \in Requests, s # r PROVE BarOK(s)'
  <2>1. BarOK(s) /\ req'[s] = req[s] /\ since'[s] = since[s]
    BY <1>0, <1>2 DEF End, BarInv
  <2>2. CASE req[s].token \in rows
    BY <2>1, <2>2 DEF BarOK, Subject
  <2>3. CASE req[s].token \notin rows
    <3>1. req[s].op = "login" => req[s].token \notin rows'
      BY DEF FamilyInv, TypeOK, Tokens, NoToken, Shapes, Shape
    <3>2. req[s].op = "refresh" => req[s].who = NoAdmin
      BY <2>1, <2>3 DEF BarOK
    <3>3. req[s].op \in {"refresh", "none", "logout"} => since[s].barred = {}
      BY <2>1, <2>3, <3>2, ScopeAssumption DEF BarOK, Subject, FamilyInv, Shapes, Shape, Idle
    <3>4. req[s].op \in Ops
      BY <1>0 DEF Request
    <3> QED
      BY <2>1, <2>3, <3>1, <3>2, <3>3, <3>4 DEF BarOK, Subject, Ops
  <2> QED
    BY <2>2, <2>3
<1> QED
  BY <1>1, <1>2 DEF BarInv

(* Every step keeps what is recorded of barred accounts true.              *)
LEMMA BarStep ==
    ASSUME FamilyInv, BarInv, [Next]_vars, FamilyInv'
    PROVE  BarInv'
<1> USE DEF table, accounts, history
<1>0. req \in [Requests -> Request] /\ since \in [Requests -> [dead: BOOLEAN, barred: SUBSET Causes]]
  BY DEF FamilyInv, TypeOK
<1>1. ASSUME NEW r \in Requests, NEW a \in Admins, LoginArrives(r, a) PROVE BarInv'
  <2>1. req'[r].token = NoToken /\ req'[r].who = a /\ req'[r].op = "login"
        /\ req'[r].pc = FirstCheck(a) /\ req'[r].new = NoToken /\ since'[r].barred = Barred(a)
        /\ UNCHANGED <<rows, suspended, disabled>>
    BY <1>0, <1>1 DEF LoginArrives, Idle
  <2>2. Subject(r)' = a
    BY <2>1, NoTokenIsNoRow DEF Subject, FamilyInv
  <2>3. BarOK(r)'
    BY <2>1, <2>2, ScopeAssumption DEF BarOK, Barred, FirstCheck, FamilyInv, TypeOK
  <2>4. ASSUME NEW s \in Requests, s # r PROVE BarOK(s)'
    BY <1>0, <1>1, <2>4 DEF LoginArrives, Step, BarInv, BarOK, Subject
  <2> QED
    BY <2>3, <2>4 DEF BarInv
<1>2. ASSUME NEW r \in Requests, NEW t \in Tokens, RefreshArrives(r, t) PROVE BarInv'
  BY <1>0, <1>2 DEF RefreshArrives, Idle, Unbarred, Barred, Causes, BarInv, BarOK, Subject,
     FamilyInv, FamiliesExist, TypeOK
<1>3. ASSUME NEW r \in Requests, NEW t \in Tokens, LogoutArrives(r, t) PROVE BarInv'
  BY <1>0, <1>3 DEF LogoutArrives, Idle, Unbarred, Barred, Causes, BarInv, BarOK, Subject,
     FamilyInv, FamiliesExist, TypeOK
<1>4. ASSUME NEW r \in Requests, RefreshUnknown(r) PROVE BarInv'
  <2>1. End(r) /\ UNCHANGED <<rows, owner, suspended, disabled>>
    BY <1>4 DEF RefreshUnknown, Rollback
  <2> QED
    BY <2>1, BarEnds DEF FamilyInv
<1>5. ASSUME NEW r \in Requests, RefreshReused(r) PROVE BarInv'
  <2> DEFINE q == [req[r] EXCEPT !.pc = "revoke"]
  <2>1. req' = [req EXCEPT ![r] = q] /\ UNCHANGED <<rows, owner, suspended, disabled, since>>
    BY <1>5 DEF RefreshReused, Step
  <2>2. /\ q.op = req[r].op /\ q.token = req[r].token /\ q.who = req[r].who
        /\ q.new = req[r].new /\ q.pc \notin {"account", "write"}
    BY <1>0 DEF Request
  <2> QED
    BY <2>1, <2>2, BarMoves DEF FamilyInv
<1>6. ASSUME NEW r \in Requests, RefreshExpired(r) PROVE BarInv'
  <2>1. End(r) /\ UNCHANGED <<rows, owner, suspended, disabled>>
    BY <1>6 DEF RefreshExpired, Rollback
  <2> QED
    BY <2>1, BarEnds DEF FamilyInv
<1>7. ASSUME NEW r \in Requests, RefreshLive(r) PROVE BarInv'
  <2> DEFINE t == req[r].token
  <2>1. req'[r].token = t /\ req'[r].who = owner[t] /\ req'[r].op = "refresh"
        /\ req'[r].pc = FirstCheck(owner[t]) /\ req'[r].new = NoToken /\ since' = since
        /\ UNCHANGED <<rows, owner, suspended, disabled>> /\ t \in rows
    <3>1. req[r] \in Request /\ Shape(req[r])
      BY <1>0 DEF FamilyInv, Shapes
    <3>2. req[r].op = "refresh" /\ req[r].pc = "lookup" /\ t \in rows
      BY <1>7 DEF RefreshLive
    <3>3. req[r].new = NoToken
      BY <3>1, <3>2 DEF Shape
    <3> QED
      BY <1>0, <1>7, <3>1, <3>2, <3>3 DEF RefreshLive, Request
  <2>2. Subject(r) = owner[t] /\ Subject(r)' = owner[t] /\ owner[t] \in Admins
    BY <2>1 DEF Subject, FamilyInv, FamiliesExist
  <2>3. BarOK(r)'
    BY <2>1, <2>2, ScopeAssumption DEF BarOK, BarInv, FirstCheck, FamilyInv, TypeOK
  <2>4. ASSUME NEW s \in Requests, s # r PROVE BarOK(s)'
    BY <1>0, <1>7, <2>4 DEF RefreshLive, Step, BarInv, BarOK, Subject
  <2> QED
    BY <2>3, <2>4 DEF BarInv
<1>8. ASSUME NEW r \in Requests, LogoutFound(r) PROVE BarInv'
  <2> DEFINE q == [req[r] EXCEPT !.pc = "revoke"]
  <2>1. req' = [req EXCEPT ![r] = q] /\ UNCHANGED <<rows, owner, suspended, disabled, since>>
    BY <1>8 DEF LogoutFound, Step
  <2>2. /\ q.op = req[r].op /\ q.token = req[r].token /\ q.who = req[r].who
        /\ q.new = req[r].new /\ q.pc \notin {"account", "write"}
    BY <1>0 DEF Request
  <2> QED
    BY <2>1, <2>2, BarMoves DEF FamilyInv
<1>9. ASSUME NEW r \in Requests, LogoutUnknown(r) PROVE BarInv'
  <2>1. req'[r].op = "logout" /\ req'[r].pc = "commit" /\ req'[r].new = req[r].new
        /\ since' = since /\ UNCHANGED <<rows, owner, suspended, disabled>>
    BY <1>0, <1>9 DEF LogoutUnknown, Request
  <2>2. since[r].barred = {}
    BY <1>9 DEF LogoutUnknown, BarInv, BarOK
  <2>3. BarOK(r)'
    BY <2>1, <2>2 DEF BarOK
  <2>4. ASSUME NEW s \in Requests, s # r PROVE BarOK(s)'
    BY <1>0, <1>9, <2>4 DEF LogoutUnknown, BarInv, BarOK, Subject
  <2> QED
    BY <2>3, <2>4 DEF BarInv
<1>10. ASSUME NEW r \in Requests, CompanyBlocked(r) PROVE BarInv'
  <2>1. End(r) /\ UNCHANGED <<rows, owner, suspended, disabled>>
    BY <1>10 DEF CompanyBlocked, Rollback
  <2> QED
    BY <2>1, BarEnds DEF FamilyInv
<1>11. ASSUME NEW r \in Requests, CompanyOpen(r) PROVE BarInv'
  <2>1. Subject(r) = req[r].who /\ req[r].who \in Admins
    BY <1>11, SubjectIsWho DEF CompanyOpen, Step, FamilyInv, Shapes, Shape
  <2>2. "suspended" \notin since[r].barred
    BY <1>11, <2>1 DEF CompanyOpen, BarInv, BarOK
  <2>3. req'[r].token = req[r].token /\ req'[r].who = req[r].who /\ req'[r].op = req[r].op
        /\ req'[r].pc = "account" /\ req'[r].new = req[r].new /\ since' = since
        /\ UNCHANGED <<rows, owner, suspended, disabled>>
    BY <1>0, <1>11 DEF CompanyOpen, Step, Request
  <2>4. BarOK(r)'
    BY <2>2, <2>3 DEF BarOK, BarInv, Subject
  <2>5. ASSUME NEW s \in Requests, s # r PROVE BarOK(s)'
    BY <1>0, <1>11, <2>5 DEF CompanyOpen, Step, BarInv, BarOK, Subject
  <2> QED
    BY <2>4, <2>5 DEF BarInv
<1>12. ASSUME NEW r \in Requests, AccountInactive(r) PROVE BarInv'
  <2>1. End(r) /\ UNCHANGED <<rows, owner, suspended, disabled>>
    BY <1>12 DEF AccountInactive, Rollback
  <2> QED
    BY <2>1, BarEnds DEF FamilyInv
<1>13. ASSUME NEW r \in Requests, AccountActive(r) PROVE BarInv'
  <2>1. Subject(r) = req[r].who /\ req[r].who \in Admins
    BY <1>13, SubjectIsWho DEF AccountActive, Step, FamilyInv, Shapes, Shape
  <2>2. since[r].barred = {}
    <3>1. "disabled" \notin since[r].barred
      BY <1>13, <2>1 DEF AccountActive, BarInv, BarOK
    <3>2. "suspended" \notin since[r].barred
      BY <1>13 DEF AccountActive, Step, BarInv, BarOK
    <3> QED
      BY <1>0, <3>1, <3>2 DEF Causes
  <2>3. req'[r].token = req[r].token /\ req'[r].who = req[r].who /\ req'[r].op = req[r].op
        /\ req'[r].pc = "write" /\ req'[r].new = req[r].new /\ since' = since
        /\ UNCHANGED <<rows, owner, suspended, disabled>>
    BY <1>0, <1>13 DEF AccountActive, Step, Request
  <2>4. BarOK(r)'
    BY <2>2, <2>3 DEF BarOK, BarInv, Subject
  <2>5. ASSUME NEW s \in Requests, s # r PROVE BarOK(s)'
    BY <1>0, <1>13, <2>5 DEF AccountActive, Step, BarInv, BarOK, Subject
  <2> QED
    BY <2>4, <2>5 DEF BarInv
<1>14. ASSUME NEW r \in Requests, IssueFirst(r) PROVE BarInv'
  <2>1. req'[r].token = req[r].token /\ req'[r].who = req[r].who /\ req'[r].op = req[r].op
        /\ req'[r].pc = "commit" /\ since' = since
        /\ UNCHANGED <<rows, owner, suspended, disabled>>
    BY <1>0, <1>14 DEF IssueFirst, Request
  <2>2. since[r].barred = {}
    BY <1>14 DEF IssueFirst, BarInv, BarOK
  <2>3. BarOK(r)'
    BY <2>1, <2>2 DEF BarOK, BarInv
  <2>4. ASSUME NEW s \in Requests, s # r PROVE BarOK(s)'
    BY <1>0, <1>14, <2>4 DEF IssueFirst, BarInv, BarOK, Subject
  <2> QED
    BY <2>3, <2>4 DEF BarInv
<1>15. ASSUME NEW r \in Requests, Rotate(r) PROVE BarInv'
  <2>1. req'[r].token = req[r].token /\ req'[r].who = req[r].who /\ req'[r].op = req[r].op
        /\ req'[r].pc = "commit" /\ since' = since
        /\ UNCHANGED <<rows, owner, suspended, disabled>>
    BY <1>0, <1>15 DEF Rotate, Request
  <2>2. since[r].barred = {}
    BY <1>15 DEF Rotate, BarInv, BarOK
  <2>3. BarOK(r)'
    BY <2>1, <2>2 DEF BarOK, BarInv
  <2>4. ASSUME NEW s \in Requests, s # r PROVE BarOK(s)'
    BY <1>0, <1>15, <2>4 DEF Rotate, BarInv, BarOK, Subject
  <2> QED
    BY <2>3, <2>4 DEF BarInv
<1>16. ASSUME NEW r \in Requests, RevokeFamily(r) PROVE BarInv'
  <2> DEFINE q == [req[r] EXCEPT !.pc = "rows", !.todo = RevokedWithFamily(req[r].token)]
  <2>1. req' = [req EXCEPT ![r] = q] /\ UNCHANGED <<rows, owner, suspended, disabled, since>>
    BY <1>16 DEF RevokeFamily
  <2>2. /\ q.op = req[r].op /\ q.token = req[r].token /\ q.who = req[r].who
        /\ q.new = req[r].new /\ q.pc \notin {"account", "write"}
    BY <1>0 DEF Request
  <2> QED
    BY <2>1, <2>2, BarMoves DEF FamilyInv
<1>17. ASSUME NEW r \in Requests, RevokeRow(r) PROVE BarInv'
  <2>1. PICK t \in req[r].todo :
          req' = [req EXCEPT ![r].todo = @ \ {t}, ![r].held = @ \cup ({t} \ revoked)]
    BY <1>17 DEF RevokeRow
  <2> DEFINE q == [req[r] EXCEPT !.todo = @ \ {t}, !.held = @ \cup ({t} \ revoked)]
  <2>2. req' = [req EXCEPT ![r] = q] /\ UNCHANGED <<rows, owner, suspended, disabled, since>>
    <3>1. UNCHANGED <<rows, owner, suspended, disabled, since>>
      BY <1>17 DEF RevokeRow, table, accounts
    <3>2. req' = [req EXCEPT ![r] = q]
      BY <1>0, <2>1
    <3> QED  BY <3>1, <3>2
  <2>3. /\ q.op = req[r].op /\ q.token = req[r].token /\ q.who = req[r].who
        /\ q.new = req[r].new /\ q.pc \notin {"account", "write"}
    <3>1. req[r] \in Request /\ req[r].pc = "rows"
      BY <1>0, <1>17 DEF RevokeRow
    <3> QED  BY <3>1 DEF Request
  <2> QED
    BY <2>2, <2>3, BarMoves DEF FamilyInv
<1>18. ASSUME NEW r \in Requests, LogoutRevoked(r) PROVE BarInv'
  <2> DEFINE q == [req[r] EXCEPT !.pc = "commit"]
  <2>1. req' = [req EXCEPT ![r] = q] /\ UNCHANGED <<rows, owner, suspended, disabled, since>>
    BY <1>18 DEF LogoutRevoked, Step
  <2>2. /\ q.op = req[r].op /\ q.token = req[r].token /\ q.who = req[r].who
        /\ q.new = req[r].new /\ q.pc \notin {"account", "write"}
    BY <1>0 DEF Request
  <2> QED
    BY <2>1, <2>2, BarMoves DEF FamilyInv
<1>19. ASSUME NEW r \in Requests, ReuseRaises(r) PROVE BarInv'
  <2>1. End(r) /\ UNCHANGED <<rows, owner, suspended, disabled>>
    BY <1>19 DEF ReuseRaises, Rollback
  <2> QED
    BY <2>1, BarEnds DEF FamilyInv
<1>20. ASSUME NEW r \in Requests, CommitLogin(r) PROVE BarInv'
  <2>1. /\ End(r) /\ rows' = rows \cup {req[r].new}
        /\ \A t \in rows : owner'[t] = owner[t]
        /\ UNCHANGED <<suspended, disabled>>
    BY <1>20 DEF CommitLogin, FamilyInv, TypeOK, Shapes, Shape, FreshIds
  <2> QED
    BY <2>1, BarCommits
<1>21. ASSUME NEW r \in Requests, CommitRefresh(r) PROVE BarInv'
  <2>1. /\ End(r) /\ rows' = rows \cup {req[r].new}
        /\ \A t \in rows : owner'[t] = owner[t]
        /\ UNCHANGED <<suspended, disabled>>
    BY <1>21 DEF CommitRefresh, FamilyInv, TypeOK, Shapes, Shape, FreshIds
  <2> QED
    BY <2>1, BarCommits
<1>22. ASSUME NEW r \in Requests, CommitLogout(r) PROVE BarInv'
  <2>1. End(r) /\ UNCHANGED <<rows, owner, suspended, disabled>>
    BY <1>22 DEF CommitLogout, Rollback
  <2> QED
    BY <2>1, BarEnds DEF FamilyInv
<1>23. ASSUME NEW r \in Requests, Abort(r) PROVE BarInv'
  <2>1. End(r) /\ UNCHANGED <<rows, owner, suspended, disabled>>
    BY <1>23 DEF Abort, Rollback
  <2> QED
    BY <2>1, BarEnds DEF FamilyInv
<1>24. ASSUME NEW t \in Tokens, Expire(t) PROVE BarInv'
  BY <1>0, <1>24 DEF Expire, BarInv, BarOK, Subject
<1>25. ASSUME NEW c \in Companies, Suspend(c) PROVE BarInv'
  BY <1>0, <1>25 DEF Suspend, BarInv, BarOK, Subject
<1>26. ASSUME NEW c \in Companies, Reinstate(c) PROVE BarInv'
  BY <1>0, <1>26, ScopeAssumption DEF Reinstate, BarInv, BarOK, Subject
<1>27. ASSUME NEW a \in Admins, Disable(a) PROVE BarInv'
  BY <1>0, <1>27 DEF Disable, BarInv, BarOK, Subject
<1>28. ASSUME NEW a \in Admins, Enable(a) PROVE BarInv'
  BY <1>0, <1>28, ScopeAssumption DEF Enable, BarInv, BarOK, Subject
<1>29. CASE UNCHANGED vars
  BY <1>29 DEF vars, BarInv, BarOK, Subject
<1> QED
  BY <1>1, <1>2, <1>3, <1>4, <1>5, <1>6, <1>7, <1>8, <1>9, <1>10, <1>11, <1>12, <1>13, <1>14,
     <1>15, <1>16, <1>17, <1>18, <1>19, <1>20, <1>21, <1>22, <1>23, <1>24, <1>25, <1>26, <1>27,
     <1>28, <1>29 DEF Next, Arrive, Serve, Lookup, Check,
     Write, LockStep, Commit, Environment

(* Theorem: no token is written for an account that was disabled, or whose *)
(* company was suspended, from the arrival of the request on               *)
(* (service.py:143, 167-169, 275, 280, 285).                               *)
THEOREM BarredGetsNothing == Spec => []BarredAccountGetsNoToken
<1>1. Init => BarInv
  BY DEF Init, Idle, Unbarred, BarInv, BarOK
<1>2. FamilyInv /\ FamilyInv' /\ BarInv /\ [Next]_vars => BarInv'
  BY BarStep
<1>3. BarInv => BarredAccountGetsNoToken
  BY DEF BarInv, BarOK, BarredAccountGetsNoToken
<1> QED
  BY <1>1, <1>2, <1>3, FamilyInvariance, PTL DEF Spec

-----------------------------------------------------------------------------
(* The refinement of Session. *)


(* A family is named by a row of its own, and only families are contended. *)
RootInv ==
    /\ \A t \in rows : family[family[t]] = family[t]
    /\ contended \subseteq rows

(* Nothing that a session stands for changes. *)
LEMMA SessionStutters ==
    ASSUME UNCHANGED <<rows, family, revoked, contended>>
    PROVE  UNCHANGED Promised!vars
BY DEF Promised!vars, PhaseOf, TokenOf, LiveOf, Live

(* What a session stands for is a matter of its family alone. *)
LEMMA OtherSessionsStay ==
    ASSUME NEW f, f \in rows' <=> f \in rows, f \in rows => family'[f] = family[f],
           f \in contended' <=> f \in contended, LiveOf(f)' = LiveOf(f)
    PROVE  PhaseOf(f)' = PhaseOf(f) /\ TokenOf(f)' = TokenOf(f)
BY DEF PhaseOf, TokenOf

(* The first use of a session by two requests at once forks it. *)
LEMMA TouchForks ==
    ASSUME FamilyInv, RootInv, NEW r \in Requests, NEW t \in rows, Touch(r, family[t]),
           UNCHANGED <<rows, family, revoked>>
    PROVE  Promised!Fork(family[t]) \/ UNCHANGED Promised!vars
<1>1. CASE contended' = contended
  BY <1>1, SessionStutters
<1>2. CASE contended' # contended
  <2>1. PICK f : f = family[t]
    OBVIOUS
  <2>2. /\ f \in rows /\ f \in Tokens /\ family[f] = f /\ f \notin contended
        /\ contended' = contended \cup {f}
    BY <1>2, <2>1 DEF Touch, FamilyInv, FamiliesExist, RootInv, TypeOK
  <2>3. PhaseOf(f) \in {"open", "ended"}
    BY <2>2 DEF PhaseOf
  <2>4. PhaseOf(f)' = "forked" /\ TokenOf(f)' = NoToken
    BY <2>2 DEF PhaseOf, TokenOf
  <2>5. \A g \in Tokens \ {f} : PhaseOf(g)' = PhaseOf(g) /\ TokenOf(g)' = TokenOf(g)
    BY <2>2, OtherSessionsStay DEF LiveOf, Live
  <2>6. [g \in Tokens |-> PhaseOf(g)'] = [[g \in Tokens |-> PhaseOf(g)] EXCEPT ![f] = "forked"]
    BY <2>2, <2>4, <2>5
  <2>7. [g \in Tokens |-> TokenOf(g)'] = [[g \in Tokens |-> TokenOf(g)] EXCEPT ![f] = NoToken]
    BY <2>2, <2>4, <2>5
  <2> QED  BY <2>1, <2>2, <2>3, <2>6, <2>7 DEF Promised!Fork
<1> QED  BY <1>1, <1>2

(* What a committed login or refresh did to the table. *)
LEMMA InsertedRow ==
    ASSUME FamilyInv, RootInv, NEW r \in Requests, req[r].new # NoToken
    PROVE  /\ req[r].new \in Tokens \ rows /\ req[r].new \notin contended
           /\ \A t \in rows : family[t] \in rows /\ family[t] # req[r].new
           /\ req[r].new \notin revoked
BY DEF FamilyInv, TypeOK, Request, FreshIds, FamiliesExist, RootInv

(* A committed login opens a session that nobody has used yet. *)
LEMMA LoginOpens ==
    ASSUME FamilyInv, RootInv, NEW r \in Requests, CommitLogin(r)
    PROVE  Promised!Open(req[r].new, req[r].new)
<1>1. PICK n : n = req[r].new
  OBVIOUS
<1>2. /\ n \in Tokens /\ n \notin rows /\ n \notin contended /\ n \notin revoked
      /\ \A t \in rows : family[t] \in rows /\ family[t] # n
  <2>1. req[r].new # NoToken
    BY DEF CommitLogin, FamilyInv, Shapes, Shape
  <2> QED  BY <1>1, <2>1, InsertedRow
<1>3. /\ rows' = rows \cup {n} /\ family' = [family EXCEPT ![n] = n]
      /\ UNCHANGED <<revoked, contended>>
  BY <1>1 DEF CommitLogin, history
<1>4. family'[n] = n /\ \A t \in Tokens \ {n} : family'[t] = family[t]
  BY <1>2, <1>3 DEF FamilyInv, TypeOK
<1>5. LiveOf(n)' = {n}
  BY <1>2, <1>3, <1>4 DEF LiveOf, Live, FamilyInv, TypeOK
<1>6. PhaseOf(n) = "new" /\ PhaseOf(n)' = "open" /\ TokenOf(n)' = n
  BY <1>2, <1>3, <1>4, <1>5 DEF PhaseOf, TokenOf
<1>7. ASSUME NEW f \in Tokens \ {n} PROVE PhaseOf(f)' = PhaseOf(f) /\ TokenOf(f)' = TokenOf(f)
  <2>1. LiveOf(f)' = LiveOf(f)
    BY <1>2, <1>3, <1>4 DEF LiveOf, Live, FamilyInv, TypeOK
  <2> QED  BY <1>3, <1>4, <2>1, OtherSessionsStay
<1>8. [f \in Tokens |-> PhaseOf(f)'] = [[f \in Tokens |-> PhaseOf(f)] EXCEPT ![n] = "open"]
  BY <1>2, <1>6, <1>7
<1>9. [f \in Tokens |-> TokenOf(f)'] = [[f \in Tokens |-> TokenOf(f)] EXCEPT ![n] = n]
  BY <1>2, <1>6, <1>7
<1> QED  BY <1>1, <1>2, <1>3, <1>6, <1>8, <1>9 DEF Promised!Open, Promised!Give

(* A committed refresh replaces the valid token of its session; in a       *)
(* forked one it adds a token.                                             *)
LEMMA RefreshRotates ==
    ASSUME FamilyInv, RootInv, NEW r \in Requests, CommitRefresh(r)
    PROVE  /\ family[req[r].token] \in Tokens /\ req[r].new \in Tokens
           /\ \/ Promised!Rotate(family[req[r].token], req[r].new)
              \/ Promised!RotateForked(req[r].new)
<1>1. PICK n, t, f : n = req[r].new /\ t = req[r].token /\ f = family[req[r].token]
  OBVIOUS
<1>2. /\ n \in Tokens /\ n \notin rows /\ n \notin contended /\ n \notin revoked
      /\ \A u \in rows : family[u] \in rows /\ family[u] # n
  <2>1. req[r].new # NoToken
    BY DEF CommitRefresh, FamilyInv, Shapes, Shape
  <2> QED  BY <1>1, <2>1, InsertedRow
<1>3. /\ req[r].op = "refresh" /\ req[r].pc = "commit" /\ Found(req[r])
      /\ req[r].held = {t}
  BY <1>1 DEF CommitRefresh, FamilyInv, Shapes, Shape, Found, Tokens, NoToken
<1>4. /\ t \in rows /\ family[t] = f /\ f \in rows /\ f \in Tokens /\ f # n /\ family[f] = f
      /\ f \notin contended => t \notin revoked
  BY <1>1, <1>2, <1>3 DEF FamilyInv, Sound, TypeOK, RootInv
<1>5. /\ rows' = rows \cup {n} /\ family' = [family EXCEPT ![n] = f]
      /\ revoked' = revoked \cup {t} /\ UNCHANGED contended
  BY <1>1, <1>3 DEF CommitRefresh, FamilyOfSuccessor, history
<1>6. family'[n] = f /\ \A u \in Tokens \ {n} : family'[u] = family[u]
  BY <1>2, <1>5 DEF FamilyInv, TypeOK
<1>7. ASSUME NEW g \in Tokens \ {f} PROVE PhaseOf(g)' = PhaseOf(g) /\ TokenOf(g)' = TokenOf(g)
  <2>1. LiveOf(g)' = LiveOf(g)
    BY <1>2, <1>4, <1>5, <1>6 DEF LiveOf, Live, FamilyInv, TypeOK
  <2>2. CASE g = n
    BY <1>2, <1>4, <1>6, <2>2 DEF PhaseOf, TokenOf
  <2>3. CASE g # n
    BY <1>5, <1>6, <2>1, <2>3, OtherSessionsStay
  <2> QED  BY <2>2, <2>3
<1>8. CASE f \in contended
  <2>1. PhaseOf(f) = "forked" /\ PhaseOf(f)' = "forked" /\ TokenOf(f)' = TokenOf(f)
    BY <1>2, <1>4, <1>5, <1>6, <1>8 DEF PhaseOf, TokenOf
  <2>2. [g \in Tokens |-> PhaseOf(g)'] = [g \in Tokens |-> PhaseOf(g)]
    BY <1>7, <2>1
  <2>3. [g \in Tokens |-> TokenOf(g)'] = [g \in Tokens |-> TokenOf(g)]
    BY <1>7, <2>1
  <2> QED  BY <1>1, <1>2, <1>4, <1>5, <2>1, <2>2, <2>3 DEF Promised!RotateForked
<1>9. CASE f \notin contended
  <2>1. LiveOf(f) = {t}
    BY <1>4, <1>9 DEF FamilyInv, OneLiveTokenUnlessContended, LiveOf, Live
  <2>2. LiveOf(f)' = {n}
    BY <1>2, <1>4, <1>5, <1>6, <2>1 DEF LiveOf, Live, FamilyInv, TypeOK
  <2>3. PhaseOf(f) = "open" /\ PhaseOf(f)' = "open" /\ TokenOf(f)' = n
    BY <1>2, <1>4, <1>5, <1>6, <1>9, <2>1, <2>2 DEF PhaseOf, TokenOf
  <2>4. [g \in Tokens |-> PhaseOf(g)'] = [g \in Tokens |-> PhaseOf(g)]
    BY <1>7, <2>3
  <2>5. [g \in Tokens |-> TokenOf(g)'] = [[g \in Tokens |-> TokenOf(g)] EXCEPT ![f] = n]
    BY <1>4, <1>7, <2>3
  <2> QED
    BY <1>1, <1>2, <1>4, <1>5, <2>3, <2>4, <2>5 DEF Promised!Rotate, Promised!Give
<1> QED  BY <1>1, <1>2, <1>4, <1>8, <1>9

(* A committed logout ends its session, if that was still open. *)
LEMMA LogoutEnds ==
    ASSUME FamilyInv, RootInv, NEW r \in Requests, CommitLogout(r)
    PROVE  \/ family[req[r].token] \in Tokens /\ Promised!End(family[req[r].token])
           \/ UNCHANGED Promised!vars
<1>1. PICK t, f : t = req[r].token /\ f = family[req[r].token]
  OBVIOUS
<1>2. /\ UNCHANGED <<rows, family, contended>> /\ revoked' = revoked \cup req[r].held
      /\ req[r].op = "logout" /\ req[r].pc = "commit" /\ req[r].todo = {}
  BY DEF CommitLogout, FamilyInv, Shapes, Shape
<1>3. CASE t = NoToken
  <2>1. req[r].held = {}
    BY <1>1, <1>3 DEF FamilyInv, Shapes, Shape
  <2> QED  BY <1>2, <2>1, SessionStutters
<1>4. CASE t # NoToken
  <2>1. Found(req[r])
    BY <1>1, <1>2, <1>4 DEF Found
  <2>2. /\ t \in rows /\ family[t] = f /\ f \in rows /\ f \in Tokens /\ family[f] = f
        /\ \A u \in req[r].held : u \in rows /\ family[u] = f
        /\ f \notin contended => LiveOf(f) \subseteq req[r].held
    <3>1. Sound(req[r])
      BY DEF FamilyInv
    <3>2. /\ t \in rows /\ \A u \in req[r].held : u \in rows /\ family[u] = f
          /\ f \notin contended => LiveOf(f) \subseteq req[r].held
      BY <1>1, <1>2, <2>1, <3>1 DEF Sound
    <3> QED  BY <1>1, <3>2 DEF FamilyInv, FamiliesExist, TypeOK, RootInv
  <2>3. ASSUME NEW g \in Tokens \ {f} PROVE PhaseOf(g)' = PhaseOf(g) /\ TokenOf(g)' = TokenOf(g)
    <3>1. LiveOf(g)' = LiveOf(g)
      BY <1>2, <2>2 DEF LiveOf, Live
    <3> QED  BY <1>2, <3>1, OtherSessionsStay
  <2>4. CASE f \in contended \/ LiveOf(f) = {}
    <3>1. PhaseOf(f)' = PhaseOf(f) /\ TokenOf(f)' = TokenOf(f)
      <4>1. LiveOf(f) = {} => LiveOf(f)' = {}
        BY <1>2 DEF LiveOf, Live
      <4> QED  BY <1>2, <2>2, <2>4, <4>1 DEF PhaseOf, TokenOf
    <3> QED  BY <1>2, <2>3, <3>1 DEF Promised!vars
  <2>5. CASE f \notin contended /\ LiveOf(f) # {}
    <3>1. LiveOf(f)' = {}
      BY <1>2, <2>2, <2>5 DEF LiveOf, Live
    <3>2. PhaseOf(f) = "open" /\ PhaseOf(f)' = "ended" /\ TokenOf(f)' = NoToken
      BY <1>2, <2>2, <2>5, <3>1 DEF PhaseOf, TokenOf
    <3>3. [g \in Tokens |-> PhaseOf(g)'] = [[g \in Tokens |-> PhaseOf(g)] EXCEPT ![f] = "ended"]
      BY <2>2, <2>3, <3>2
    <3>4. [g \in Tokens |-> TokenOf(g)'] = [[g \in Tokens |-> TokenOf(g)] EXCEPT ![f] = NoToken]
      BY <2>2, <2>3, <3>2
    <3> QED  BY <1>1, <1>2, <2>2, <3>2, <3>3, <3>4 DEF Promised!End
  <2> QED  BY <2>4, <2>5
<1> QED  BY <1>3, <1>4

(* Every step but a lookup or a commit leaves the sessions as they are. *)
LEMMA QuietSteps ==
    ASSUME [Next]_vars,
           ~ \E r \in Requests : \/ RefreshReused(r) \/ RefreshExpired(r) \/ RefreshLive(r)
                                 \/ LogoutFound(r) \/ Commit(r)
    PROVE  UNCHANGED <<rows, family, revoked, contended>>
<1> USE DEF table, accounts, history
<1>1. CASE UNCHANGED vars
  BY <1>1 DEF vars
<1>2. ASSUME NEW r \in Requests, Arrive(r) PROVE UNCHANGED <<rows, family, revoked, contended>>
  BY <1>2 DEF Arrive, LoginArrives, RefreshArrives, LogoutArrives
<1>3. ASSUME NEW r \in Requests,
             RefreshUnknown(r) \/ LogoutUnknown(r) \/ Check(r) \/ Abort(r)
      PROVE  UNCHANGED <<rows, family, revoked, contended>>
  BY <1>3 DEF RefreshUnknown, LogoutUnknown, Check, Abort, CompanyBlocked, CompanyOpen,
     AccountInactive, AccountActive
<1>4. ASSUME NEW r \in Requests, Write(r) \/ LockStep(r)
      PROVE  UNCHANGED <<rows, family, revoked, contended>>
  BY <1>4 DEF Write, LockStep, IssueFirst, RevokeFamily, LogoutRevoked, ReuseRaises, Rotate,
     RevokeRow
<1>5. CASE Environment
  BY <1>5 DEF Environment, Expire, Suspend, Reinstate, Disable, Enable
<1> QED
  BY <1>1, <1>2, <1>3, <1>4, <1>5 DEF Next, Serve, Lookup

(* A family keeps its root, and only families are ever contended. *)
LEMMA RootStep == FamilyInv /\ RootInv /\ [Next]_vars => RootInv'
<1> SUFFICES ASSUME FamilyInv, RootInv, [Next]_vars PROVE RootInv'
  OBVIOUS
<1>1. CASE UNCHANGED <<rows, family, revoked, contended>>
  BY <1>1 DEF RootInv
<1>2. ASSUME NEW r \in Requests,
             RefreshReused(r) \/ RefreshExpired(r) \/ RefreshLive(r) \/ LogoutFound(r)
      PROVE  RootInv'
  <2>1. /\ req[r].token \in rows /\ Touch(r, family[req[r].token])
        /\ UNCHANGED <<rows, family>>
    BY <1>2 DEF RefreshReused, RefreshExpired, RefreshLive, LogoutFound, table
  <2>2. contended' \subseteq contended \cup {family[req[r].token]}
    BY <2>1 DEF Touch
  <2> QED  BY <2>1, <2>2 DEF RootInv, FamilyInv, FamiliesExist
<1>3. ASSUME NEW r \in Requests, Commit(r) PROVE RootInv'
  <2>1. CASE CommitLogout(r)
    BY <2>1 DEF CommitLogout, RootInv
  <2>2. CASE CommitLogin(r) \/ CommitRefresh(r)
    <3>1. req[r].new # NoToken
      BY <2>2 DEF CommitLogin, CommitRefresh, FamilyInv, Shapes, Shape
    <3>2. PICK n : n = req[r].new
      OBVIOUS
    <3>3. /\ n \in Tokens \ rows
          /\ \A t \in rows : family[t] \in rows /\ family[t] # n
      BY <3>1, <3>2, InsertedRow
    <3>4. PICK f : f = IF CommitLogin(r) THEN n ELSE family[req[r].token]
      OBVIOUS
    <3>5. /\ rows' = rows \cup {n} /\ family' = [family EXCEPT ![n] = f]
          /\ UNCHANGED contended
      BY <2>2, <3>2, <3>4 DEF CommitLogin, CommitRefresh, FamilyOfSuccessor, history
    <3>6. f = n \/ (f \in rows /\ family[f] = f)
      <4>1. CASE CommitLogin(r)
        BY <3>4, <4>1
      <4>2. CASE CommitRefresh(r) /\ ~CommitLogin(r)
        <5>1. Found(req[r])
          BY <4>2 DEF CommitRefresh, FamilyInv, Shapes, Shape, Found, Tokens, NoToken
        <5>2. req[r].token \in rows
          BY <5>1 DEF FamilyInv, Sound
        <5> QED  BY <3>3, <3>4, <4>2, <5>2 DEF RootInv
      <4> QED  BY <2>2, <4>1, <4>2
    <3>7. family'[n] = f /\ \A t \in rows : family'[t] = family[t]
      BY <3>3, <3>5 DEF FamilyInv, TypeOK
    <3> QED  BY <3>3, <3>5, <3>6, <3>7 DEF RootInv
  <2> QED  BY <1>3, <2>1, <2>2 DEF Commit
<1> QED  BY <1>1, <1>2, <1>3, QuietSteps

(* Every step of the store is one of the session's, or none. *)
LEMMA SessionNext ==
    FamilyInv /\ RootInv /\ [Next]_vars => [Promised!Next]_(Promised!vars)
<1> SUFFICES ASSUME FamilyInv, RootInv, [Next]_vars
             PROVE  Promised!Next \/ UNCHANGED Promised!vars
  OBVIOUS
<1>1. CASE UNCHANGED <<rows, family, revoked, contended>>
  BY <1>1, SessionStutters
<1>2. ASSUME NEW r \in Requests,
             RefreshReused(r) \/ RefreshExpired(r) \/ RefreshLive(r) \/ LogoutFound(r)
      PROVE  Promised!Next \/ UNCHANGED Promised!vars
  <2>1. /\ req[r].token \in rows /\ Touch(r, family[req[r].token])
        /\ UNCHANGED <<rows, family, revoked>>
    BY <1>2 DEF RefreshReused, RefreshExpired, RefreshLive, LogoutFound, table
  <2>2. family[req[r].token] \in Tokens
    BY <2>1 DEF FamilyInv, FamiliesExist, TypeOK
  <2> QED  BY <2>1, <2>2, TouchForks DEF Promised!Next
<1>3. ASSUME NEW r \in Requests, CommitLogin(r) PROVE Promised!Next
  BY <1>3, LoginOpens DEF Promised!Next, Promised!Open, Promised!Give
<1>4. ASSUME NEW r \in Requests, CommitRefresh(r) PROVE Promised!Next
  BY <1>4, RefreshRotates DEF Promised!Next
<1>5. ASSUME NEW r \in Requests, CommitLogout(r)
      PROVE  Promised!Next \/ UNCHANGED Promised!vars
  BY <1>5, LogoutEnds DEF Promised!Next
<1> QED  BY <1>1, <1>2, <1>3, <1>4, <1>5, QuietSteps DEF Commit

(* The rows, transactions and locks of refresh_tokens implement Session,   *)
(* step by step and for any number of tokens and requests: each step opens *)
(* a session, rotates it to a fresh token, forks it at the first overlap,  *)
(* or ends it, and otherwise changes nothing that a session stands for.    *)
THEOREM StoreImplementsSession == Spec => ImplementsSession
<1>1. Init => RootInv /\ Promised!Init
  BY DEF Init, RootInv, Promised!Init, PhaseOf, TokenOf
<1> QED
  BY <1>1, RootStep, SessionNext, FamilyInvariance, PTL DEF Spec, ImplementsSession, Promised!Spec
=============================================================================
