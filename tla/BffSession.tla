----------------------------- MODULE BffSession -----------------------------
(***************************************************************************)
(* One browser, its cookies, and the Next.js server between it and the     *)
(* backend (src/frontend/app/api): the authenticated proxy that rotates    *)
(* the refresh token on a 401 and retries, and the login and logout        *)
(* routes.  Every fetch is a step; answers reach the browser in any order  *)
(* or not at all.                                                          *)
(*                                                                         *)
(* A pair of tokens issued together has one id.  The backend is as coarse  *)
(* as the races allow: a rotation looks its token up and commits later, a  *)
(* logout revokes what its UPDATE saw and commits later (RefreshTokens).   *)
(***************************************************************************)
EXTENDS Naturals, FiniteSets

CONSTANTS
    Calls,     \* slots for browser requests in flight at the same time
    MaxPairs,  \* bound on the pairs of tokens ever issued
    MaxLosses  \* bound on requests lost half-way

ASSUME BffAssumption == MaxPairs \in Nat /\ MaxLosses \in Nat

VARIABLES
    jar,       \* the cookies tin_at and tin_rt
    call,      \* the request in each slot
    issued,    \* pairs 1..issued exist
    family,    \* first pair of the session a pair belongs to
    live,      \* pairs whose refresh token is not revoked
    aged,      \* pairs whose access token has expired
    losses,    \* requests lost half-way
    lost,      \* history: sessions of which a rotated pair never arrived
    leaving,   \* history: sessions for which a logout was sent
    ended      \* history: sessions revoked while none of their tokens rotated

backend == <<issued, family, live, aged>>
faults == <<losses, lost>>
history == <<leaving, ended>>
vars == <<jar, call, backend, faults, history>>

Pairs == 1..MaxPairs
None == 0

(* What a call does: a proxied request to a handler behind                 *)
(* get_current_principal ("me" is GET /auth/me, the one of them with a 401 *)
(* of its own), a proxied POST /auth/login or /auth/refresh ("credential", *)
(* which need no access token), and the two routes that handle cookies.    *)
Kinds == {"data", "me", "credential", "login", "logout"}
Stages == {"idle", "send", "hit", "lookup", "commit",
           "login", "logout", "revoke", "leave", "answer"}
Statuses == {"none", "ok", "401", "error"}

Call == [kind: Kinds, pc: Stages,
         access: 0..MaxPairs, \* the cookies it came with
         refresh: 0..MaxPairs,
         got: 0..MaxPairs,    \* the pair this call has obtained
         status: Statuses,    \* of the last answer of the backend
         runs: 0..2,          \* times the backend has run the handler
         commits: 0..2,       \* times it has committed what the handler did
         seen: 0..MaxPairs]   \* pairs issued when a logout's UPDATE ran

EmptyJar == [access |-> None, refresh |-> None]

Idle == [kind |-> "data", pc |-> "idle", access |-> None, refresh |-> None,
         got |-> None, status |-> "none", runs |-> 0,
         commits |-> 0, seen |-> 0]

Init ==
    /\ jar = EmptyJar
    /\ call = [c \in Calls |-> Idle]
    /\ issued = 0 /\ live = {} /\ aged = {}
    /\ family = [p \in Pairs |-> None]
    /\ losses = 0 /\ lost = {}
    /\ leaving = {} /\ ended = {}

Flying(c) == call[c].pc # "idle"
FamilyOf(p) == IF p \in Pairs THEN family[p] ELSE None
LiveOf(f) == {p \in live : family[p] = f}

(* Calls that may still obtain a pair; arrivals leave one for each.        *)
MayObtain == {c \in Calls : /\ call[c].got = None
                            /\ call[c].pc \in Stages \ {"idle", "logout", "revoke", "leave", "answer"}
                            /\ call[c].refresh # None \/ call[c].kind = "login"}
Room == issued + Cardinality(MayObtain) < MaxPairs

Step(c, from, to) ==
    /\ call[c].pc = from
    /\ call' = [call EXCEPT ![c].pc = to]

(* get_current_principal accepts the access token of p. *)
Admitted(p) == p # None /\ p \notin aged

-----------------------------------------------------------------------------
(* The browser sends a request with the cookies it has. *)

(* The double-submit check of the CSRF cookie refuses a call or does not;  *)
(* it touches no other cookie, and exempts /auth/ and safe methods.        *)
FirstStages(kind) ==
    CASE kind = "data" -> {"send", "answer"}
      [] kind \in {"me", "credential"} -> {"send"}
      [] OTHER -> {kind}

Arrive(c, kind) ==
    /\ ~Flying(c)
    /\ Room \/ kind = "logout" \/ (jar.refresh = None /\ kind # "login")
    /\ \E first \in FirstStages(kind) :
         call' = [call EXCEPT ![c] =
                    [Idle EXCEPT !.kind = kind, !.pc = first,
                                 !.access = jar.access, !.refresh = jar.refresh]]
    /\ leaving' = IF kind = "logout" THEN leaving \cup ({FamilyOf(jar.refresh)} \ {None})
                                     ELSE leaving
    /\ UNCHANGED <<jar, backend, faults, ended>>

-----------------------------------------------------------------------------
(* The proxy: send, rotate once on a 401, send again. *)

(* The token of the retry is the new one. *)
Bearer(c) == IF call[c].got # None THEN call[c].got ELSE call[c].access

Passes(c) == call[c].kind = "credential" \/ Admitted(Bearer(c))

(* Handlers that answer 401 themselves: to a wrong password, a dead token, *)
(* an account that is gone.                                                *)
RefusesItself(kind) == kind \in {"credential", "me"}

Reply == [status: Statuses, ran: BOOLEAN, committed: BOOLEAN]

(* What the backend may do with a proxied request.  An error says nothing  *)
(* of how far it got; a refusal by the handler is an exception, which      *)
(* rolls back what it wrote (not what it counted in Redis).  The pair that *)
(* a credential handler creates goes into the body, and into no cookie.    *)
Replies(c) ==
    {r \in Reply :
        /\ r.ran => Passes(c)
        /\ r.committed => r.ran
        /\ \/ r.status = "error"
           \/ r.status = "ok" /\ r.committed
           \/ /\ r.status = "401" /\ ~r.committed
              /\ r.ran = Passes(c)
              /\ Passes(c) => RefusesItself(call[c].kind)}

(* Mutant: any failure is retried. *)
RetriesFailure(c, status) ==
    status \in {"401", "error"} /\ call[c].refresh # None /\ call[c].got = None

Retries(c, status) ==
    status = "401" /\ call[c].refresh # None /\ call[c].got = None

Send(c) ==
    /\ call[c].pc = "send"
    /\ \E r \in Replies(c) :
          call' = [call EXCEPT
                     ![c].pc = IF Retries(c, r.status) THEN "hit" ELSE "answer",
                     ![c].status = r.status,
                     ![c].runs = IF r.ran THEN @ + 1 ELSE @,
                     ![c].commits = IF r.committed THEN @ + 1 ELSE @]
    /\ UNCHANGED <<jar, backend, faults, history>>

(* The rate limiter (RateLimiter) lets the rotation through or not; like   *)
(* every other answer of /auth/refresh that is not ok, its 429 leaves the  *)
(* 401 as the answer.                                                      *)
Hit(c) ==
    /\ \E to \in {"lookup", "answer"} : Step(c, "hit", to)
    /\ UNCHANGED <<jar, backend, faults, history>>

IsLive(p) == p \in live

Lookup(c) ==
    /\ Step(c, "lookup", IF IsLive(call[c].refresh) THEN "commit" ELSE "answer")
    /\ UNCHANGED <<jar, backend, faults, history>>

Rotate(c) ==
    LET new == issued + 1
        old == call[c].refresh IN
    /\ call[c].pc = "commit" /\ new \in Pairs
    /\ issued' = new
    /\ family' = [family EXCEPT ![new] = family[old]]
    /\ live' = (live \ {old}) \cup {new}
    /\ call' = [call EXCEPT ![c].pc = "send", ![c].got = new]
    /\ UNCHANGED <<jar, aged, faults, history>>

-----------------------------------------------------------------------------
(* The routes /api/auth/login and /api/auth/logout. *)

Login(c) ==
    LET new == issued + 1 IN
    /\ call[c].pc = "login" /\ new \in Pairs
    /\ issued' = new
    /\ family' = [family EXCEPT ![new] = new]
    /\ live' = live \cup {new}
    /\ call' = [call EXCEPT ![c].pc = "answer", ![c].got = new, ![c].status = "ok"]
    /\ UNCHANGED <<jar, aged, faults, history>>

LoginFails(c) ==
    /\ call[c].pc = "login"
    /\ call' = [call EXCEPT ![c].pc = "answer", ![c].status = "401"]
    /\ UNCHANGED <<jar, backend, faults, history>>

(* The backend is asked only when there is a refresh cookie, refuses an    *)
(* access token that has expired, and its answer is not looked at.         *)
LogoutSent(c) ==
    LET q == call[c]
        accepted == q.refresh # None /\ Admitted(q.access) IN
    /\ q.pc = "logout"
    /\ call' = [call EXCEPT ![c].pc = IF accepted THEN "revoke" ELSE "answer"]
    /\ UNCHANGED <<jar, backend, faults, history>>

(* A failure of the call to the backend is caught. *)
LogoutFetchFails(c) ==
    /\ call[c].pc \in {"logout", "revoke", "leave"}
    /\ call' = [call EXCEPT ![c].pc = "answer"]
    /\ losses < MaxLosses /\ losses' = losses + 1
    /\ UNCHANGED <<jar, backend, lost, history>>

(* The UPDATE of revoke_family, whose snapshot fixes what it revokes. *)
Revoke(c) ==
    /\ call[c].pc = "revoke"
    /\ call' = [call EXCEPT ![c].pc = "leave", ![c].seen = issued]
    /\ UNCHANGED <<jar, backend, faults, history>>

(* Mutant: only the presented token is revoked. *)
PresentedOnly(q) == {q.refresh}
RevokedByLogout(q) == {p \in LiveOf(FamilyOf(q.refresh)) : p <= q.seen}

(* A token of the family was or is being rotated beside the logout. *)
Overtaken(q) ==
    LET f == FamilyOf(q.refresh) IN
    \/ \E p \in Pairs : q.seen < p /\ p <= issued /\ family[p] = f
    \/ \E d \in Calls : call[d].pc = "commit" /\ FamilyOf(call[d].refresh) = f

LogoutCommits(c) ==
    LET q == call[c] IN
    /\ q.pc = "leave"
    /\ live' = live \ RevokedByLogout(q)
    /\ ended' = IF Overtaken(q) THEN ended ELSE ended \cup {FamilyOf(q.refresh)}
    /\ call' = [call EXCEPT ![c].pc = "answer", ![c].status = "ok"]
    /\ UNCHANGED <<jar, issued, family, aged, faults, leaving>>

-----------------------------------------------------------------------------
(* The answer reaches the browser, with its Set-Cookie headers. *)

(* Mutant: cookies are stored only with a good answer. *)
SetsPairWhenOk(q) == q.got # None /\ q.status = "ok"
SetsPair(q) == q.got # None

(* Mutant: only the access cookie is deleted. *)
ForgetsAccess(q) == [jar EXCEPT !.access = None]
JarAfterLogout(q) == EmptyJar

JarAfter(q) ==
    IF q.kind = "logout" THEN JarAfterLogout(q)
    ELSE IF SetsPair(q) THEN [access |-> q.got, refresh |-> q.got] ELSE jar

Answer(c) ==
    /\ call[c].pc = "answer"
    /\ jar' = JarAfter(call[c])
    /\ call' = [call EXCEPT ![c] = Idle]
    /\ UNCHANGED <<backend, faults, history>>

(* The Next.js server, the backend or a connection fails: the browser gets *)
(* no cookie, and what the backend has committed stays.                    *)
Lose(c) ==
    /\ Flying(c) /\ losses < MaxLosses
    /\ losses' = losses + 1
    /\ lost' = IF call[c].got # None THEN lost \cup {family[call[c].got]} ELSE lost
    /\ call' = [call EXCEPT ![c] = Idle]
    /\ UNCHANGED <<jar, backend, history>>

(* An access token expires; its cookie, of the same lifetime, may linger.  *)
Age(p) ==
    /\ p <= issued /\ p \notin aged
    /\ aged' = aged \cup {p}
    /\ UNCHANGED <<jar, call, issued, family, live, faults, history>>

-----------------------------------------------------------------------------
Serve(c) ==
    \/ Send(c) \/ Hit(c) \/ Lookup(c) \/ Rotate(c)
    \/ Login(c) \/ LoginFails(c) \/ LogoutSent(c) \/ LogoutFetchFails(c)
    \/ Revoke(c) \/ LogoutCommits(c) \/ Answer(c)

Next ==
    \/ \E c \in Calls : (\E kind \in Kinds : Arrive(c, kind)) \/ Serve(c) \/ Lose(c)
    \/ \E p \in Pairs : Age(p)

Spec == Init /\ [][Next]_vars

-----------------------------------------------------------------------------
(* Properties. *)

TypeOK ==
    /\ jar \in {[access |-> p, refresh |-> p] : p \in 0..issued}
    /\ call \in [Calls -> Call]
    /\ issued \in 0..MaxPairs
    /\ live \subseteq 1..issued /\ aged \subseteq 1..issued
    /\ family \in [Pairs -> 0..MaxPairs]
    /\ losses \in 0..MaxLosses
    /\ lost \subseteq 1..MaxPairs /\ leaving \subseteq 1..MaxPairs
    /\ ended \subseteq leaving

(* The browser keeps its session through parallel rotations, retries that  *)
(* fail and answers out of order: its refresh cookie is live, or an answer *)
(* under way brings a live one of the same session, unless such an answer  *)
(* was lost or the user has logged out.                                    *)
BrowserKeepsItsSession ==
    LET f == FamilyOf(jar.refresh) IN
    jar.refresh \notin live \cup {None} /\ f \notin lost \cup leaving =>
        \E c \in Calls : call[c].got \in LiveOf(f)

(* The transparent retry repeats nothing that stays: no browser request    *)
(* commits twice, whatever it is and however its two attempts end.  A      *)
(* handler that answers 401 itself (login, refresh, me) does run twice,    *)
(* and counts twice in Redis; any other runs once.                         *)
RetryRepeatsNothing ==
    \A c \in Calls :
        /\ call[c].commits <= 1
        /\ ~RefusesItself(call[c].kind) => call[c].runs <= 1

(* A logout that the backend committed is final unless it was overtaken by *)
(* a rotation past its lookup: no request in flight, no retry and no       *)
(* answer that sets the old cookies again revives the session.             *)
AcceptedLogoutIsFinal == \A p \in live : family[p] \notin ended

(* What the comment in api/auth/logout/route.ts:4 says: logout revokes the *)
(* family, then clears the cookies.  (Violated: the backend refuses an     *)
(* expired access token and the route does not notice.)                    *)
LogoutRevokesThenClears ==
    \A c \in Calls :
        call[c].kind = "logout" /\ call[c].pc = "answer" /\ call[c].refresh # None =>
            LiveOf(FamilyOf(call[c].refresh)) = {}
=============================================================================
