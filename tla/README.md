# A verification of the TIN Collection Portal

TLA+ models of the parts of this repository that have state and concurrency, TLC runs that check
them on small instances, and TLAPS proofs of their main properties for every instance. The backend
is a FastAPI application (`src/backend/app`) over PostgreSQL and Redis; a Next.js application
(`src/frontend`) holds the browser's cookies and calls it. `PROJECT.json` maps every definition to
the lines it stands for and lists the hazards of the code, each at its line, with the properties
about it.

## Inventory

| Component | State | Operations | What is hard | What makes it correct |
|---|---|---|---|---|
| Refresh-token sessions (`domains/auth/service.py`) | `refresh_tokens` rows | login, refresh, logout | concurrent use of one token, rollback of a refusal, expiry | one live token per session, a dead token stays dead, logout and reuse end the session |
| Login throttle (`core/rate_limit.py:LoginThrottle`) | two Redis keys per identity | check, record_failure, record_success | separate commands, lost requests, late commands | a bound on guesses, lockouts that nobody outside can prolong |
| Rate limiter (`core/rate_limit.py:RedisRateLimiter`) | one Redis counter per address | hit | crash between INCR and EXPIRE | the limit holds, and nobody is refused for ever |
| TOTP enrolment (`domains/auth/service.py`) | pending secret in Redis, secret in the account row | enroll, verify | overlap, DEL before COMMIT | the stored secret is one the user confirmed, and the last one |
| Company admin accounts (`domains/admins`) | `company_admins` rows | list, create, update | write skew, stale reads, mail before commit | an owner is left, the audit explains the table, invites open accounts |
| Platform (`domains/platform`) | `companies` rows | create, update, get, list | check-then-insert, mail before commit, two snapshots of a page | one tenant per slug, with the owner that was mailed |
| Branding and settings (`domains/companies`) | one row each per tenant | read (which would create it), update | two creators, overlapping updates | a row is always there; updates merge |
| Request transactions, tenant isolation (`core/db.py`, `core/tenancy.py`, `core/repository.py`, RLS migration) | pooled connections, context variable, GUC | get_request_session, get_tenant_session, tenant_session | what is committed when a handler raises; a connection reused by another tenant | all or nothing; no row of another tenant |
| Access tokens and RBAC (`core/security.py`, `core/rbac.py`) | tokens in circulation | sign, decode, require | authority older than the tables | staleness bounded by the life of a token |
| Development key pair (`core/security.py:_keypair`) | two files, one pair per process | read, generate, write | processes that start together, a stop or a full disk between two writes | a process verifies what it signs, tokens survive a restart |
| BFF (`src/frontend/app/api`) | cookies of a browser | login, proxy with transparent rotation, logout | parallel requests of one browser, lost and late answers | a browser keeps its session, no retry commits twice, a logout ends it |
| Audit log (`domains/audit`) | `audit_logs` rows | record | shares the transaction of its caller | one committed row per committed action |
| Seed, worker, scheduler, health, logging, providers, empty domains, pages | – | – | placeholders, pure I/O, rendering | – |

Components interact through the database (every handler of a request shares one transaction opened
by its session dependency), through Redis (outside any transaction) and, for the BFF, by HTTP.
`update_company` and `update_admin` change rows that login and refresh read. An exception that
leaves a handler passes through `session.begin()` and rolls back everything the request wrote in
the database, and nothing it wrote in Redis or mailed.

## Modules

| Module | Models |
|---|---|
| `RefreshTokens` | login, refresh and logout over `refresh_tokens`; environment: expiry, suspension of tenants, disabling of accounts |
| `Session` | the abstract session that `RefreshTokens` implements |
| `BffSession` | one browser, its cookies and the Next.js routes between it and the backend |
| `LoginThrottle`, `RateLimiter`, `TotpEnrolment` | the three users of Redis |
| `CompanyAdmins` | `update_admin` and `create_admin` of one tenant |
| `TenantData` | companies, their settings and branding, over pooled connections with row-level security |
| `Authority` | access tokens, their claims and the permission check against tables that change |
| `KeyPair` | the key pair on disk that signs them on a machine without provisioned keys |
| `...Proofs`, `RefreshTokensTheorems` | inductive invariants and theorems: `RedisProofs` and `AccessProofs` about the instances that `MCRedis` and `MCTenantData` make of `RateLimiter`, `TotpEnrolment`, `Authority` and `KeyPair`, the others about the module they are named after |
| `MC...` | constants, symmetry and compositions for TLC |

### RefreshTokens and Session

A slot of `Requests` is one HTTP request with its transaction. `req[r].pc` names the SQL statement
it executes next, so that every statement is a step, at READ COMMITTED:

- `RefreshUnknown/Reused/Expired/Live`, `LogoutFound/Unknown`: the SELECT by token hash and the
  branches of `refresh` (249-269) and `logout` (334-336);
- `CompanyBlocked/Open`, `AccountInactive/Active`: the checks of tenant and account, a SELECT each;
- `Rotate`: one flush, UPDATE of the presented row by its id and INSERT of the successor. The
  UPDATE waits for the row's lock and does not look at `revoked_at` again, as in the code;
- `RevokeFamily`, `RevokeRow`: the bulk UPDATE. Its snapshot fixes the rows it visits; it takes their
  locks one by one and skips a row that was revoked meanwhile;
- `CommitLogin/Refresh/Logout` make the writes visible; `Rollback` drops them. `ReuseRaises` is the
  end of a detected reuse: the handler raises, so it is a rollback;
- `Abort`: a lost connection, a crash, a rate-limited or otherwise refused request.

A family is named by its first token, and tokens are numbered in order of creation. `contended`,
`closed`, `reused` and `since` are history variables: no guard reads them. A family is *contended*
once two requests used it at the same time, from lookup to end. Left out: the password, TOTP and
throttle steps of a login (they decide only whether it arrives here), `last_login_at`, the audit
rows of successful requests, the claims of the access token.

`Session` has no requests, rows or locks: a session is new, open with one valid token, ended, or
forked. `Promised` is the mapping: a family whose first row is not committed is new; a contended
one is forked; an uncontended one is open with its only live token, or ended. Property
`ImplementsSession` is `Promised!Spec`: a commit of a login, refresh or logout and the moment two
requests meet are each one step of `Session`, everything else stutters, an expiry too: a session
whose token has expired is still open with it, and no refresh will rotate it.

### BffSession

A slot of `Calls` is one browser request inside the Next.js server; every fetch of a route is a
step. A pair of access and refresh token has one number. The catch-all proxy forwards any path, so
a proxied call is of one of three kinds. `"credential"` is POST `/auth/login` or `/auth/refresh`,
which need no access token and answer 401 themselves (`auth/router.py:33-46`); `"me"` is GET
`/auth/me`, which needs one and answers 401 itself when the account is gone (124-125); `"data"` is
everything else behind `get_current_principal`, where a 401 means that the handler did not run
(`Passes`, `RefusesItself`). `Replies` is what the backend may do with a send: answer ok after a
commit, answer 401 with everything rolled back, or fail at any point. `Send` counts in `runs` how
often the handler ran and in `commits` how often it committed; `Hit`, `Lookup` and `Rotate` are the
call of `/auth/refresh` (429, the dead token, the commit), and a second `Send` the retry.

`Login`, `LoginFails`, `LogoutSent`, `LogoutFetchFails`, `Revoke` and `LogoutCommits` are the two
routes that handle cookies. `Answer` is the moment the browser applies the Set-Cookie headers, in
any order among calls; `Lose` drops a request wherever it stands. The backend is as coarse as its
races allow: lookup and commit of a rotation are two steps, and so are the UPDATE of a logout, whose
snapshot fixes the pairs it revokes (`seen`), and its commit; a rotation that has looked its token
up may survive the logout, as in `RefreshTokens`. `ended` is history: sessions whose logout was
committed and not `Overtaken` by such a rotation. The pair that a proxied login or refresh creates
is not in the model, because it reaches no cookie; the pages can present no token of their own,
since the cookies are out of their reach.

### LoginThrottle, RateLimiter, TotpEnrolment

A slot is one request, and each Redis command is a step. In `LoginThrottle`: TTL
(`CheckLocked/Open`), INCR (`VerifyWrong`), EXPIRE (`Expire`), SET EX (`SetLock`), DEL
(`ClearFails`), DEL of both (`ClearBoth`); what the database says about the attempt is one of right,
wrong and blocked. In `RateLimiter`: `Incr` and `Expire`, with the counter cut off above
the limit. `Crash` and `Orphan` lose a request between two commands; what it has sent to Redis
stays. `WindowEnds` and `LockoutEnds` are Redis dropping a key whose TTL has passed; a key without
TTL is never dropped. `lock` is a lock key with TTL left: SET EX always gives it one, and `check`
would not see it without. `guesses` and `prolonged` are history: wrong guesses since the throttle
last let go, and how often the standing lock was set again. In `TotpEnrolment` a code is the number of the secret it was computed from;
`Enroll` is one SET, `CodeRefused/Accepted` the GET and the check, `DeletePending` the DEL, and the
row changes with `Commit`. `excused` collects the secrets that an expiry, a lost verify or an
overlap with an older verify may lose, so that the properties say exactly what is promised.

### CompanyAdmins

A slot of `Requests` is one PATCH or POST. An update reads the row (`ReadAdmin`), counts the other
active owners when the guard applies (`GuardPasses`, `LastOwnerProtected`), flushes the changed
columns and the audit row (`WriteAdmin`, which waits for the row) and commits. A creation checks the
address, draws a password, inserts (waiting for another transaction with the same key;
`InsertFails` is the uncaught IntegrityError), mails the invite and commits. Deletion does not
exist. `stale` marks a request whose reads an update committed since may contradict; `raced`
becomes true when such a request commits an update. Both are history. Requests may arrive at any
time because they are authorised by the role claim of a token, not by the table.

### TenantData

A slot of `Connections` is a pooled connection. `guc[k]` is its `app.current_company_id`, set by
`Bind` (`set_current_company`) and gone with the transaction, because `set_config` is local to it.
`Visible` and `PassesCheck` are the RLS policy on `company_settings` and `company_branding`, which
have the same code and appear as one table "config"; `companies` is exempt from RLS.

- *Creation*: slug lookup, INSERT with its unique key (`MayInsert` waits for another transaction's;
  `InsertFails` is the IntegrityError), `Bind`, settings, branding and first owner in one flush
  (`InsertChildren`), the mail (`SendInvite`, delivered or not, reported or not), commit.
- *Update* of a company or of a tenant's configuration: `ReadRow`, then `Flush` of the columns that
  differ from what was read (SQLAlchemy writes no others), then `CommitUpdate`; with nothing to
  change it is `CommitRead`, which also stands for a GET. `Flush` waits for the row.
- *List*: rows, then count. `Crash` is a rollback anywhere.

`wanted` is history: what the last commit that named a column asked of it. `stale` are the columns
of its row that others changed since a request read them.

### Authority and KeyPair

`Authority`: a login or refresh checks the tenant, reads the account and signs a token with the role
it read; `Admit` is `get_current_principal` and `require(p)` on the claims alone; `SetRole` and
`SetStatus` change the tables meanwhile. The clock ticks; a request lasts at most `Patience`, which
the code does not bound itself (it is the server's or a proxy's timeout). `granted` and `opened`
remember when an account last had a permission and when its tenant was last open.

`KeyPair`: each process looks for both files, reads them one after the other or generates a pair and
writes them one after the other; opening a file for writing empties it. An `OSError` is swallowed
(`CannotPersist`), a process may stop anywhere and start again (`Stop`, `Start`). `torn` and
`lost` remember that a pair was written beside another process, was left with an empty
`public.pem`, or could not be written; what holds otherwise is the property.

## Compositions

`MCRedis` puts the three users of Redis side by side, `MCTenantData` puts `TenantData`, `Authority`
and `KeyPair` side by side. The parts of a composition share no key, row, file or request, so a
behaviour of the whole is a shuffle of behaviours of its parts, and a property of one part needs
no interleaving with another. In these modules one part moves only while the others are in their
initial state: every reachable state of each part is still reached and every behaviour of
it is a behaviour of the run, without the product of the state spaces.

The parts that do share rows meet inside one module: suspension and disabling in `RefreshTokens`
and `Authority`, rotation and logout of the backend in `BffSession`.

## Runs

| Run | Asks | Instance |
|---|---|---|
| `rt_sessions` | what do rotation, logout and the checks guarantee, under every race of two requests; does the table implement `Session`? | 2 requests; either 3 tokens of a platform account, or 2 tokens of a tenant account that is disabled and whose tenant is suspended at any point |
| `rt_live` | does every request end, though they wait for each other's rows? | 2 requests on a forked session of 3 rows |
| `rt_reuse` | is the family revoked when a reuse is answered 401? – **no** | 1 request |
| `rt_logout` | is the family dead when a logout is answered 204? – **no** | 2 requests |
| `rd_redis` | how many guesses and refreshes get through; do counters end; can a lockout be stretched; which TOTP secret is stored? | 2 attempts, cap 2, 1 crash; 2 hits, limit 3, 1 crash; 2 verifies, 3 secrets |
| `lt_audit` | is a failed login audited? – **no** | 1 attempt |
| `lt_ttl` | are INCR and TTL atomic? – **no** | 1 attempt, 1 crash |
| `ca_accounts` | guard, audit trail and invites under overlap | 2 requests, 2 addresses, 2 passwords, 1 crash |
| `ca_lockout` | can a tenant lose its last active owner? – **yes** | 2 requests |
| `bff_session` | does a browser keep its session; does a retry repeat what was committed; is an accepted logout final? | 2 calls at a time, 3 token pairs, 1 loss |
| `bff_logout` | is the family dead when the cookies are cleared? – **no** | 1 call at a time |
| `td_tenants` | isolation, invites, merged updates, pages; age of authority; key pair | 2 connections, 2 tenants, 2 columns, 3 writes; 1 request, 2 accounts, tokens of 2 ticks; 2 processes, 3 keys |

**Bounds.** The races of this code are between two requests: the second must read what the first
is about to overwrite. Slots are reused without end, so longer histories are covered by sequences
of requests. Three tokens are the least in which a session forks (one token, two successors), and a
chain of two rotations fits as well; the same holds of the three pairs of a browser.
`rt_sessions` keeps the two kinds of account apart (`OneKindOfAccount`) because sessions of
different accounts share no row. `rt_live` starts from a fork, which `rt_sessions` reaches, since only
there does a revocation wait for more than one row; nothing expires and nobody logs in in that run. A
cap of two has both a first failure and a locking one; a limit of three leaves a hit that
neither opens the window nor is refused. Two addresses are the two owners of a write skew, and two
passwords let a second creation mail another one. Two tenants on two connections give every
connection a predecessor of the other tenant; three writes are two overlapping updates after a
creation. `Authority` needs one request at a time, because requests meet only in the tokens they
leave. Three keys are two first pairs and a third drawn after a restart. `Room` keeps an id for
every request that may still insert a row, so the bound on tokens stops arrivals, never a request
half-way.

**Fairness.** `RefreshTokens`: weak fairness of every statement (the event loop keeps running a
request's coroutine), strong fairness of the steps that wait for a row lock (PostgreSQL queues the
waiters of a lock); none for arrivals, aborts or the environment. `RateLimiter`: weak fairness of
the EXPIRE of a request that has begun, and of a TTL that has been set. No other run needs any.

**Symmetry** permutes request slots, connections, tenants and columns, in runs that check
invariants and safety properties only.

## What the violated runs show

1. A detected reuse is refused, but the revocation of its family and the audit row are rolled back
   by the same exception: the other token of the family stays usable (`service.py:256-266`, against
   the integration test that expects the family to be revoked).
2. A refresh that looked its token up before a logout survives it (`service.py:334-336`).
3. `ADMIN_LOGIN_FAILED` rows are rolled back with the 401 (`service.py:231`). `ADMIN_LOGIN_BLOCKED`
   has the same shape.
4. A request lost between INCR and EXPIRE leaves a counter without a deadline (`rate_limit.py:86`).
5. Two overlapping updates leave a tenant without an active owner (`admins/service.py:162`).
6. A logout with an expired access token is refused by the backend, the route does not notice, and
   the cookies are cleared while the refresh tokens stay live (`api/auth/logout/route.ts:9`).

Observed on the way, without a run: a platform administrator's list and detail of companies never
show settings, because RLS hides them from a connection that is bound to no tenant (in `TenantData`,
`saw` of such a request is empty, which `TenantIsolation` proves); a write of `public.pem` that
fails after the file was opened leaves an empty key that every later process reads, hence `torn`;
the Next.js server forwards no address, so that all its browsers share one refresh counter; the
login page (`login/page.tsx:24` through `lib/bff.ts:18`) posts to the proxy and not to the login
route, and the proxy stores only pairs it has rotated itself (`route.ts:84`), so that the tokens go
to the page in the body, no cookie is set and the next request has no session; the logout button of
`admin/layout.tsx:39` posts `/auth/logout` without a body through the proxy, which the backend
refuses, so it neither revokes the family nor clears a cookie; a wrong password sent through the
proxy beside a refresh cookie is sent again after a rotation, and counts twice in the throttle, as
a refused `/auth/refresh` does in the limiter.

## Proofs

Every theorem holds for all values of the constants under the `ASSUME`s of its modules, which the
runs evaluate. Each safety property that a run checks is a theorem, with the invariant it needs;
each invariant was model-checked before it was proved.

- **Sessions.** The safety properties of an uncontended family are not inductive: a commit is
  safe only because of what the request read before. `FamilyInv` adds the shape of a request at each
  stage (`Shapes`), what its reads imply (`Sound`: in an uncontended family a refresh works on a
  live token, and a revocation has every live token among the rows it visits), that only one request
  uses an uncontended family (`OneUser`), and that uncommitted ids are new (`FreshIds`). Each commit
  is a lemma of its own. `TypeCorrect`, `RotationReplaces`, `LogoutIsFinal` and `FamilyIsAChain`
  follow; `ReplacedOnce` is an action property from the same invariant. `DeadTokensStayDead` needs
  `DeadInv` (a dead token keeps its request at the lookup or in the reuse branch), `BarredGetsNothing`
  needs `BarInv` (a cause that has held since arrival holds now, so the check for it fails).
- **Refinement.** `StoreImplementsSession`: `FamilyInv` and the fact that a family is named by a row of
  its own (`RootInv`) are enough to say of each step which step of `Session` it is. The
  commit of a login opens, that of a refresh rotates (or rotates a fork), that of a logout ends,
  the first overlap forks; a step that changes no row and contends no
  family, an expiry for one, is a stutter (`SessionStutters`), and a step in one family leaves the others
  alone (`OtherSessionsStay`).
- **Throttle.** `CounterExpires`: whoever creates the counter is the one still due to run EXPIRE.
  `GuessesBounded` is not inductive, because it does not say who may still guess. `GuessInv`
  counts: without a lock, guesses are covered by the counter and, at the cap, by the attempts about
  to set the lock and by those that were lost; under a lock, every attempt past the check is
  a guess that is already in the bound. `LockoutBounded` counts the attempts that may still set the
  lock (`ProlongInv`): while it stands nobody joins them, and each SET takes one away.
- **Limiter.** `LimiterInv` adds that what was let through is at most the counter; `LimitHolds` and
  `WindowsClose` follow.
- **Enrolment.** `EnrolmentInv` adds that a pending secret is the last one generated, so that
  secrets are confirmed in the order of their generation (`Confirmations`); that a verify deletes its
  own secret or an excused one (`Deletions`); and that, unless the secret confirmed last is excused,
  every running verify carries it, and one that found it stored still does (`Rivals`). The
  proof of the commit shows what the lock of the account's row is not needed for: two verifies
  that write at once either write the same secret or the later confirmed one is excused.
- **Accounts.** `AdminInv` adds that a request which is not stale has read the row as it is
  and that, if its update had to be guarded, another active owner is there (`FreshRead`); that a row
  is held once (`OneHolder`), so that an account being created is absent (`InsertedIsAbsent`); and
  that a creation inserts what it audits. `GuardKeepsAnOwner`, `AuditReplays`, `CreatedOnce` follow.
  `InviteOpens` adds that a creation about to commit has mailed the password it inserted
  (`MailStands`); that nobody mails another to that address meanwhile is `OneHolder` again.
- **Tenants.** `DataInv` says of each request what its stage implies (`Staged`), that a bound
  connection serves a request of that very tenant and has seen no other (`Bound`), whether its
  tenant exists (`Placed`), that a column which is not stale is still as it was read (`Fresh`), and
  what was mailed and counted (`Invited`, `Counted`); and that a company and its configuration exist
  together, that nothing was asked of an absent tenant, and that a slug is created by one request at
  a time. A step that changes one request and nothing committed is `LocalStep`; the three commits are
  lemmas of their own. `TenantsAreIsolated`, `ConfigIsFound`, `InvitesOpenTenants`,
  `UpdatesAreMerged` and `PagesAreCovered` follow.
- **Browser.** `BffInv` rests on one idea: a pair on its way to the browser is known to nobody else
  (`PairsAreFresh`), so that nobody can have rotated it and only a logout can have revoked it
  (`PairsAreLive`). `SessionKept` follows. For `AcceptedLogoutFinal` it adds that an ended session
  has no live token and nobody who has looked one up (`EndedIsDead`), so that no rotation can bring
  it back; for `NothingRepeated`, what a call has run and committed at each stage (`RunsOK`):
  whatever is sent again was refused by the guard, or by the handler, which committed nothing.
- **Authority.** `AgeInv` bounds three ages in turn: what a request has read is at most `Patience`
  old when it signs; a token expires within `Ttl` of that; an admission is at most `Patience` older
  than the moment it passed. `AuthorityAges` adds them up.
- **Keys.** `KeysInv` says, while no pair is torn: who writes is alone at the files
  (`WritersAlone`), holds a pair of its own and has no written public key before it (`WriterHolds`);
  a reader finds a pair (`ReaderFinds`), the files match (`FilesMatch`), and whatever signed did so
  with the key in the file (`SignedInFile`). `PairsMatch` and `TokensSurvive` follow.
- **Compositions.** The theorems about an instance are theorems of its own `Spec`; `RedisComposes`
  and `TenantsCompose` show that the specifications of the runs imply those of their parts.

Only model-checked: liveness (`EveryRequestEnds`, `RefusalEnds`), which rests on fairness and ENABLED and is out of the prover's reach, and the
violations. The other formulas of the runs are proved.

## Not modelled

- Bootstrap seed and migrations run once at deployment, before any request. Of the migrations only
  the policies are modelled.
- Worker and scheduler are placeholders (a ping, a heartbeat); the domains of certificates,
  customers, dashboard, exports, invitations, notifications, OCR and validation hold no code.
- Health probes, error mapping, logging, middleware, pagination arithmetic, configuration and the
  frontend's pages keep no state between requests.
- Providers other than e-mail are interfaces. E-mail is `SendInvite`: it may fail, and it may fail
  after it has delivered.
- Password hashing, token encoding, provisioned keys, the CSRF cookie beyond its refusal, and the
  context variable of `core/tenancy.py`, which names the tenant of a request from its first
  statement to its last.

## Plan

Left to prove: the type correctness of `RateLimiter`, `TotpEnrolment`, `Authority` and `KeyPair` is
part of their invariants and has no theorem of its own, since no run states it. An abstract
specification of `TenantData` (one table of tenants, each created and updated in one step) would be
a second refinement worth stating. Left to model: nothing of the present code that has shared state;
the empty domains when they are written.
