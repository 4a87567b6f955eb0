--------------------------- MODULE RefreshTokens ---------------------------
(***************************************************************************)
(* The refresh-token store behind /auth/login, /auth/refresh and           *)
(* /auth/logout (domains/auth/service.py).  Every request runs in one      *)
(* PostgreSQL transaction opened by core/db.py:get_request_session, at the *)
(* default READ COMMITTED level: a statement sees what was committed when  *)
(* it started, an UPDATE waits for the lock of a row another transaction   *)
(* has written, and an exception leaving the handler rolls everything back.*)
(*                                                                         *)
(* Passwords, TOTP codes and throttling decide only whether a login gets   *)
(* this far; they are in LoginThrottle.  A family_id is represented by the *)
(* first token of the family, and token ids grow in order of creation.     *)
(***************************************************************************)
EXTENDS Naturals, FiniteSets

CONSTANTS
    Requests,    \* slots for HTTP requests executing at the same time
    MaxTokens,   \* bound on the refresh tokens ever created
    Admins,      \* accounts of platform and company administrators
    NoAdmin,     \* not an account
    Companies,   \* tenants
    Platform,    \* the scope of an account that belongs to no company
    Scope        \* the company of each account, or Platform

ASSUME BoundAssumption == MaxTokens \in Nat
ASSUME ScopeAssumption ==
    /\ NoAdmin \notin Admins /\ Platform \notin Companies
    /\ Scope \in [Admins -> Companies \cup {Platform}]

VARIABLES
    rows,        \* committed rows of refresh_tokens
    family,      \* family_id of a row
    owner,       \* principal_id of a row
    revoked,     \* rows with revoked_at set
    expired,     \* rows with expires_at in the past
    replaced,    \* replaced_by_id of a row
    suspended,   \* companies with a status in _BLOCKING_STATUSES
    disabled,    \* company accounts with is_active = false
    req,         \* the request in each slot
    contended,   \* history: families two requests used at the same time
    closed,      \* history: families a logout has answered 204 for
    reused,      \* history: families a reuse has been answered 401 for
    since        \* history: what has held ever since a request arrived

table == <<rows, family, owner, revoked, expired, replaced>>
accounts == <<suspended, disabled>>
history == <<contended, closed, reused>>
vars == <<table, accounts, req, history, since>>

Tokens == 1..MaxTokens
NoToken == 0
Causes == {"suspended", "disabled"}
Ops == {"none", "login", "refresh", "logout"}

(* Where a request stands: the statement it executes next. *)
Stages == {"idle", "lookup", "company", "account", "write",
           "revoke", "rows", "commit"}

Request ==
    [op: Ops, pc: Stages,
     token: Tokens \cup {NoToken},   \* the token presented
     who: Admins \cup {NoAdmin},     \* the principal being served
     todo: SUBSET Tokens,            \* rows revoke_family still has to visit
     held: SUBSET Tokens,            \* rows revoked but not yet committed
     new: Tokens \cup {NoToken}]     \* row inserted but not yet committed

Idle == [op |-> "none", pc |-> "idle", token |-> NoToken, who |-> NoAdmin,
         todo |-> {}, held |-> {}, new |-> NoToken]

Live == rows \ revoked
LiveOf(f) == {t \in Live : family[t] = f}

Locked(r, t) == \E s \in Requests \ {r} : t \in req[s].held
Inserted == {req[r].new : r \in Requests} \ {NoToken}

(* The id the next inserted row gets. *)
IsNext(n) ==
    /\ n \in Tokens
    /\ \A t \in rows \cup Inserted : t < n
    /\ n = 1 \/ n - 1 \in rows \cup Inserted

(* Requests that may still insert a row, and the bound on arrivals that    *)
(* keeps an id for each of them.                                           *)
MayInsert == {r \in Requests : req[r].op \in {"login", "refresh"}
                                 /\ req[r].new = NoToken}
Room == \A t \in rows \cup Inserted \cup {0} :
            t + Cardinality(MayInsert) < MaxTokens

(* A request uses family f from the lookup of its token to its end. *)
Uses(r, f) == /\ req[r].op \in {"refresh", "logout"}
              /\ req[r].pc \notin {"idle", "lookup"}
              /\ req[r].token \in rows
              /\ family[req[r].token] = f

(* A request starts to use family f; requests already there make it contended. *)
Touch(r, f) ==
    contended' = IF \E s \in Requests \ {r} : Uses(s, f)
                   THEN contended \cup {f} ELSE contended

(* Mutant: the tenant's status is not looked at. *)
FirstCheckAccountOnly(a) == "account"

(* A platform account has no company to look at. *)
FirstCheck(a) == IF Scope[a] = Platform THEN "account" ELSE "company"

Unbarred == [dead |-> FALSE, barred |-> {}]

(* Why a request of account a should be refused. *)
Barred(a) == {c \in Causes : \/ c = "suspended" /\ Scope[a] \in suspended
                             \/ c = "disabled" /\ a \in disabled}

Step(r, from, to) ==
    /\ req[r].pc = from
    /\ req' = [req EXCEPT ![r].pc = to]

End(r) == /\ req' = [req EXCEPT ![r] = Idle]
          /\ since' = [since EXCEPT ![r] = Unbarred]

(* Mutant: the session is left open, with its locks, when a handler raises. *)
RollbackKeepsLocks(r) ==
    /\ req' = [req EXCEPT ![r] = [Idle EXCEPT !.held = req[r].held]]
    /\ since' = [since EXCEPT ![r] = Unbarred]

(* The transaction ends without effect: a refusal raised in the handler, a *)
(* lost connection, a crash.                                               *)
Rollback(r) == End(r)

Init ==
    /\ rows = {} /\ revoked = {} /\ expired = {}
    /\ family = [t \in Tokens |-> NoToken]
    /\ owner = [t \in Tokens |-> NoAdmin]
    /\ replaced = [t \in Tokens |-> NoToken]
    /\ suspended = {} /\ disabled = {}
    /\ req = [r \in Requests |-> Idle]
    /\ contended = {} /\ closed = {} /\ reused = {}
    /\ since = [r \in Requests |-> Unbarred]

-----------------------------------------------------------------------------
(* Arrival of requests. *)

LoginArrives(r, a) ==
    /\ req[r].pc = "idle" /\ Room
    /\ req' = [req EXCEPT ![r] =
                 [Idle EXCEPT !.op = "login", !.pc = FirstCheck(a), !.who = a]]
    /\ since' = [since EXCEPT ![r] = [dead |-> FALSE, barred |-> Barred(a)]]
    /\ UNCHANGED <<table, accounts, history>>

RefreshArrives(r, t) ==
    /\ req[r].pc = "idle"
    /\ t \in revoked \/ Room
    /\ req' = [req EXCEPT ![r] =
                 [Idle EXCEPT !.op = "refresh", !.pc = "lookup", !.token = t]]
    /\ since' = [since EXCEPT ![r] =
                   [dead |-> t \in revoked \cup expired,
                    barred |-> IF t \in rows THEN Barred(owner[t]) ELSE {}]]
    /\ UNCHANGED <<table, accounts, history>>

LogoutArrives(r, t) ==
    /\ req[r].pc = "idle"
    /\ req' = [req EXCEPT ![r] =
                 [Idle EXCEPT !.op = "logout", !.pc = "lookup", !.token = t]]
    /\ since' = [since EXCEPT ![r] = Unbarred]
    /\ UNCHANGED <<table, accounts, history>>

-----------------------------------------------------------------------------
(* SELECT ... WHERE token_hash = ..., and the branches on what it returns. *)

RefreshUnknown(r) ==
    /\ req[r].op = "refresh" /\ req[r].pc = "lookup"
    /\ req[r].token \notin rows
    /\ Rollback(r)
    /\ UNCHANGED <<table, accounts, history>>

(* Mutant: revoked_at is not looked at. *)
NothingIsRevoked(t) == FALSE

IsRevoked(t) == t \in revoked

RefreshReused(r) ==
    LET t == req[r].token IN
    /\ req[r].op = "refresh" /\ t \in rows /\ IsRevoked(t)
    /\ Step(r, "lookup", "revoke")
    /\ Touch(r, family[t])
    /\ UNCHANGED <<table, accounts, closed, reused, since>>

RefreshExpired(r) ==
    LET t == req[r].token IN
    /\ req[r].op = "refresh" /\ req[r].pc = "lookup"
    /\ t \in rows /\ ~IsRevoked(t) /\ t \in expired
    /\ Touch(r, family[t])
    /\ Rollback(r)
    /\ UNCHANGED <<table, accounts, closed, reused>>

RefreshLive(r) ==
    LET t == req[r].token IN
    /\ req[r].op = "refresh" /\ req[r].pc = "lookup"
    /\ t \in rows /\ ~IsRevoked(t) /\ t \notin expired
    /\ req' = [req EXCEPT ![r].pc = FirstCheck(owner[t]), ![r].who = owner[t]]
    /\ Touch(r, family[t])
    /\ UNCHANGED <<table, accounts, closed, reused, since>>

LogoutFound(r) ==
    LET t == req[r].token IN
    /\ req[r].op = "logout" /\ t \in rows
    /\ Step(r, "lookup", "revoke")
    /\ Touch(r, family[t])
    /\ UNCHANGED <<table, accounts, closed, reused, since>>

LogoutUnknown(r) ==
    /\ req[r].op = "logout" /\ req[r].pc = "lookup"
    /\ req[r].token \notin rows
    /\ req' = [req EXCEPT ![r].pc = "commit", ![r].token = NoToken]
    /\ UNCHANGED <<table, accounts, history, since>>

-----------------------------------------------------------------------------
(* The checks of the company and of the account, one SELECT each. *)

CompanyBlocked(r) ==
    /\ req[r].pc = "company" /\ Scope[req[r].who] \in suspended
    /\ Rollback(r)
    /\ UNCHANGED <<table, accounts, history>>

CompanyOpen(r) ==
    /\ Step(r, "company", "account")
    /\ Scope[req[r].who] \notin suspended
    /\ UNCHANGED <<table, accounts, history, since>>

AccountInactive(r) ==
    /\ req[r].pc = "account" /\ req[r].who \in disabled
    /\ Rollback(r)
    /\ UNCHANGED <<table, accounts, history>>

AccountActive(r) ==
    /\ Step(r, "account", "write")
    /\ req[r].who \notin disabled
    /\ UNCHANGED <<table, accounts, history, since>>

-----------------------------------------------------------------------------
(* The writes. *)

IssueFirst(r) ==
    /\ req[r].op = "login" /\ req[r].pc = "write"
    /\ \E n \in Tokens :
          /\ IsNext(n)
          /\ req' = [req EXCEPT ![r].pc = "commit", ![r].new = n]
    /\ UNCHANGED <<table, accounts, history, since>>

(* Mutant: token.revoked_at = now is forgotten. *)
RevokesNothing(t) == {}

RevokedByRotation(t) == {t}

(* One flush: UPDATE of the presented row, which waits for its lock and    *)
(* has no condition but the row's id, then INSERT of its successor.        *)
Rotate(r) ==
    LET t == req[r].token IN
    /\ req[r].op = "refresh" /\ req[r].pc = "write"
    /\ ~Locked(r, t)
    /\ \E n \in Tokens :
          /\ IsNext(n)
          /\ req' = [req EXCEPT ![r].pc = "commit", ![r].new = n,
                                ![r].held = RevokedByRotation(t)]
    /\ UNCHANGED <<table, accounts, history, since>>

(* Mutants: only the presented token is revoked; the UPDATE also sees rows *)
(* that are not committed yet.                                             *)
PresentedOnly(t) == {t} \ revoked
DirtyFamily(t) == LiveOf(family[t]) \cup Inserted

RevokedWithFamily(t) == LiveOf(family[t])

(* UPDATE ... WHERE family_id = ... AND revoked_at IS NULL: the rows it    *)
(* will visit are those its snapshot shows; it takes them in table order,  *)
(* waits for each lock and drops a row that was revoked meanwhile.         *)
RevokeFamily(r) ==
    /\ req[r].pc = "revoke"
    /\ req' = [req EXCEPT ![r].pc = "rows",
                          ![r].todo = RevokedWithFamily(req[r].token)]
    /\ UNCHANGED <<table, accounts, history, since>>

RevokeRow(r) ==
    \E t \in req[r].todo :
       /\ req[r].pc = "rows"
       /\ \A u \in req[r].todo : t <= u
       /\ ~Locked(r, t)
       /\ req' = [req EXCEPT ![r].todo = @ \ {t},
                             ![r].held = @ \cup ({t} \ revoked)]
       /\ UNCHANGED <<table, accounts, history, since>>

LogoutRevoked(r) ==
    /\ req[r].op = "logout" /\ req[r].todo = {}
    /\ Step(r, "rows", "commit")
    /\ UNCHANGED <<table, accounts, history, since>>

(* Reuse: after revoke_family and the audit row the handler raises         *)
(* InvalidRefresh, the router turns it into a 401, and the exception       *)
(* passes through session.begin().                                         *)
ReuseRaises(r) ==
    /\ req[r].op = "refresh" /\ req[r].pc = "rows" /\ req[r].todo = {}
    /\ reused' = reused \cup {family[req[r].token]}
    /\ Rollback(r)
    /\ UNCHANGED <<table, accounts, contended, closed>>

-----------------------------------------------------------------------------
(* COMMIT. *)

CommitLogin(r) ==
    LET n == req[r].new IN
    /\ req[r].op = "login" /\ req[r].pc = "commit"
    /\ rows' = rows \cup {n}
    /\ family' = [family EXCEPT ![n] = n]
    /\ owner' = [owner EXCEPT ![n] = req[r].who]
    /\ End(r)
    /\ UNCHANGED <<revoked, expired, replaced, accounts, history>>

(* Mutants: the successor starts a family of its own; replaced_by_id is    *)
(* written on the successor; every row of the family is linked to it.      *)
OwnFamily(t, n) == n
LinkBackward(t, n) == [replaced EXCEPT ![n] = t]
LinkWholeFamily(t, n) ==
    [u \in Tokens |-> IF u \in rows /\ family[u] = family[t]
                        THEN n ELSE replaced[u]]

FamilyOfSuccessor(t, n) == family[t]
Link(t, n) == [replaced EXCEPT ![t] = n]

CommitRefresh(r) ==
    LET n == req[r].new
        t == req[r].token IN
    /\ req[r].op = "refresh" /\ req[r].pc = "commit"
    /\ rows' = rows \cup {n}
    /\ family' = [family EXCEPT ![n] = FamilyOfSuccessor(t, n)]
    /\ owner' = [owner EXCEPT ![n] = req[r].who]
    /\ revoked' = revoked \cup req[r].held
    /\ replaced' = Link(t, n)
    /\ End(r)
    /\ UNCHANGED <<expired, accounts, history>>

CommitLogout(r) ==
    /\ req[r].op = "logout" /\ req[r].pc = "commit"
    /\ revoked' = revoked \cup req[r].held
    /\ closed' = closed \cup {family[t] : t \in {req[r].token} \cap rows}
    /\ End(r)
    /\ UNCHANGED <<rows, family, owner, expired, replaced, accounts,
                   contended, reused>>

Abort(r) ==
    /\ req[r].pc # "idle"
    /\ Rollback(r)
    /\ UNCHANGED <<table, accounts, history>>

-----------------------------------------------------------------------------
(* What other parts of the system do to the rows a request reads. *)

(* Time passes.  All tokens have the same lifetime, so they expire in the  *)
(* order in which they were created.                                       *)
Expire(t) ==
    /\ t \in rows \ expired
    /\ \A u \in rows \cup Inserted : u < t => u \in expired
    /\ expired' = expired \cup {t}
    /\ UNCHANGED <<rows, family, owner, revoked, replaced, accounts, req,
                   history, since>>

(* The account a request is about, once known. *)
Subject(r) == IF req[r].token \in rows THEN owner[req[r].token] ELSE req[r].who

(* update_company: a platform administrator suspends or reinstates a tenant. *)
Suspend(c) ==
    /\ c \notin suspended
    /\ suspended' = suspended \cup {c}
    /\ UNCHANGED <<table, disabled, req, history, since>>

Reinstate(c) ==
    /\ c \in suspended
    /\ suspended' = suspended \ {c}
    /\ since' = [r \in Requests |->
                   IF Subject(r) \in Admins /\ Scope[Subject(r)] = c
                     THEN [since[r] EXCEPT !.barred = @ \ {"suspended"}]
                     ELSE since[r]]
    /\ UNCHANGED <<table, disabled, req, history>>

(* update_admin: a company owner disables or enables an account of the     *)
(* tenant.  Nothing in the code disables a platform account.               *)
Disable(a) ==
    /\ a \notin disabled /\ Scope[a] # Platform
    /\ disabled' = disabled \cup {a}
    /\ UNCHANGED <<table, suspended, req, history, since>>

Enable(a) ==
    /\ a \in disabled
    /\ disabled' = disabled \ {a}
    /\ since' = [r \in Requests |->
                   IF Subject(r) = a
                     THEN [since[r] EXCEPT !.barred = @ \ {"disabled"}]
                     ELSE since[r]]
    /\ UNCHANGED <<table, suspended, req, history>>

-----------------------------------------------------------------------------
Arrive(r) ==
    \/ \E a \in Admins : LoginArrives(r, a)
    \/ \E t \in Tokens : RefreshArrives(r, t)
    \/ \E t \in Tokens : LogoutArrives(r, t)

Lookup(r) ==
    \/ RefreshUnknown(r) \/ RefreshReused(r) \/ RefreshExpired(r)
    \/ RefreshLive(r) \/ LogoutFound(r) \/ LogoutUnknown(r)

Check(r) ==
    \/ CompanyBlocked(r) \/ CompanyOpen(r)
    \/ AccountInactive(r) \/ AccountActive(r)

(* Steps that may have to wait for a row lock. *)
LockStep(r) == Rotate(r) \/ RevokeRow(r)

Write(r) ==
    \/ IssueFirst(r) \/ RevokeFamily(r) \/ LogoutRevoked(r) \/ ReuseRaises(r)

Commit(r) == CommitLogin(r) \/ CommitRefresh(r) \/ CommitLogout(r)

Serve(r) == Lookup(r) \/ Check(r) \/ Write(r) \/ Commit(r)

Environment ==
    \/ \E t \in Tokens : Expire(t)
    \/ \E c \in Companies : Suspend(c) \/ Reinstate(c)
    \/ \E a \in Admins : Disable(a) \/ Enable(a)

Next ==
    \/ \E r \in Requests : Arrive(r) \/ Serve(r) \/ LockStep(r) \/ Abort(r)
    \/ Environment

(* The event loop keeps running a request's coroutine (weak fairness), and *)
(* PostgreSQL grants a row lock to its waiters in turn, so that one that   *)
(* is released again and again is obtained (strong fairness).              *)
Fairness == \A r \in Requests : WF_vars(Serve(r)) /\ SF_vars(LockStep(r))

Spec == Init /\ [][Next]_vars
FairSpec == Spec /\ Fairness

-----------------------------------------------------------------------------
(* Properties. *)

TypeOK ==
    /\ rows \subseteq Tokens /\ revoked \subseteq rows /\ expired \subseteq rows
    /\ family \in [Tokens -> Tokens \cup {NoToken}]
    /\ owner \in [Tokens -> Admins \cup {NoAdmin}]
    /\ replaced \in [Tokens -> Tokens \cup {NoToken}]
    /\ suspended \subseteq Companies /\ disabled \subseteq Admins
    /\ req \in [Requests -> Request]
    /\ contended \subseteq Tokens /\ closed \subseteq Tokens
    /\ reused \subseteq Tokens
    /\ since \in [Requests -> [dead: BOOLEAN, barred: SUBSET Causes]]

(* Rotation replaces: as long as no two requests used a family at the same *)
(* time, at most one of its tokens can be refreshed.  A session can fork   *)
(* only when refreshes race.                                               *)
OneLiveTokenUnlessContended ==
    \A f \in Tokens \ contended : \A t, u \in LiveOf(f) : t = u

(* A logout ends the session for good, unless requests raced with it: no   *)
(* token of the family is live then or later.                              *)
LogoutEndsUncontendedFamily == \A f \in closed \ contended : LiveOf(f) = {}

(* The rows of an uncontended family form one chain: each row but the      *)
(* first is the replaced_by_id of a revoked row of the same family.        *)
UncontendedFamilyIsAChain ==
    \A t \in rows :
        family[t] \notin contended /\ t # family[t] =>
            \E u \in revoked : family[u] = family[t] /\ replaced[u] = t

(* A token that was revoked or had expired before the request arrived is   *)
(* never rotated, whatever runs beside the request.                        *)
DeadTokenIsNeverRotated ==
    \A r \in Requests :
        req[r].op = "refresh" /\ req[r].new # NoToken => ~since[r].dead

(* No token is written for an account that was disabled, or whose company  *)
(* was suspended, from the arrival of the request on.                      *)
BarredAccountGetsNoToken ==
    \A r \in Requests : req[r].new # NoToken => since[r].barred = {}

(* replaced_by_id is written once, unless the family is contended. *)
ReplacedOnceUnlessContended ==
    [][\A t \in rows : replaced[t] \notin {NoToken, replaced'[t]}
                          => family[t] \in contended]_vars

(* The session a family stands for, in the terms of Session. *)
PhaseOf(f) ==
    IF f \notin rows \/ family[f] # f THEN "new"
    ELSE IF f \in contended THEN "forked"
    ELSE IF LiveOf(f) = {} THEN "ended" ELSE "open"

TokenOf(f) ==
    IF PhaseOf(f) = "open" THEN CHOOSE t \in LiveOf(f) : TRUE ELSE NoToken

Promised == INSTANCE Session WITH
    Sessions <- Tokens,
    phase <- [f \in Tokens |-> PhaseOf(f)],
    token <- [f \in Tokens |-> TokenOf(f)],
    issued <- rows

(* The store implements Session: a login opens a session with one valid    *)
(* token, each refresh replaces it, logout, reuse and failed commits at    *)
(* most end it, and only requests that race fork it.                       *)
ImplementsSession == Promised!Spec

(* Every request is answered: no cycle of row locks, no lost wake-up. *)
EveryRequestEnds ==
    \A r \in Requests : req[r].pc # "idle" ~> req[r].pc = "idle"

(* What tests/integration/test_auth_company_flow.py says of a reuse: the   *)
(* whole family is revoked, the rotated token no longer works.  (Violated.)*)
ReuseRevokesFamily == \A f \in reused : LiveOf(f) = {}

(* What docs/architecture/04-api-design.md says of a logout: it revokes    *)
(* the refresh family.  (Violated when a refresh is under way.)            *)
LogoutRevokesFamily == \A f \in closed : LiveOf(f) = {}
=============================================================================
