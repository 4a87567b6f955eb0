----------------------------- MODULE TenantData -----------------------------
(***************************************************************************)
(* Tenants and their configuration: create, update, get and list of        *)
(* companies by a platform administrator (domains/platform/service.py) and *)
(* branding and settings of a tenant by its owner (domains/companies/      *)
(* service.py), over pooled connections with row-level security            *)
(* (core/db.py, migration 3d27c8ac90bd).                                   *)
(*                                                                         *)
(* A slot of Connections is a pooled connection: requests use it one after *)
(* the other, each in one READ COMMITTED transaction.  Companies are named *)
(* by their slug.  The table "companies" is exempt from RLS; "config"      *)
(* stands for company_settings and company_branding, which have the same   *)
(* code and the same policy.                                               *)
(***************************************************************************)
EXTENDS Naturals, FiniteSets

CONSTANTS
    Connections,  \* pooled connections
    Slugs,        \* slugs of the tenants that may be created
    Columns,      \* columns of a company or of its configuration
    Values,       \* what a column may hold
    Default,      \* server default of every column
    None,         \* no row, no tenant, or a field the body leaves out
    MaxWrites     \* bound on requests that may change a row

ASSUME TenantAssumption ==
    /\ Default \in Values /\ None \notin Values /\ None \notin Slugs
    /\ None \notin [Columns -> Values]
    /\ MaxWrites \in Nat /\ IsFiniteSet(Slugs)

Tables == {"companies", "config"}
Payload == [Columns -> Values \cup {None}]

VARIABLES
    rows,      \* committed columns of a table's row for a tenant, or None
    owner,     \* first owner's password and whether its invite was reported
    mailed,    \* password of the last invite sent to a slug's first owner
    guc,       \* app.current_company_id of a connection
    req,       \* the request each connection serves
    writes,    \* requests that may change a row so far; numbers the passwords
    wanted     \* history: what the last committed request naming a column asked,
               \* or None where another one had changed it since the read

tables == <<rows, owner>>
vars == <<tables, mailed, guc, req, writes, wanted>>

Nothing == [c \in Columns |-> None]
DefaultRow == [c \in Columns |-> Default]
Owner == [password: 0..MaxWrites, invited: BOOLEAN]
NoOwner == [password |-> 0, invited |-> FALSE]

Stages == {"idle", "check", "insert", "bind", "children", "invite", "commit",
           "read", "write", "flushed", "items", "count", "page"}

Idle == [pc |-> "idle", op |-> "none", id |-> 0, tenant |-> None, payload |-> Nothing,
         seen |-> Nothing, saw |-> {}, owner |-> NoOwner, stale |-> {},
         items |-> 0, total |-> 0]

Init ==
    /\ rows = [t \in Tables |-> [s \in Slugs |-> None]]
    /\ owner = [s \in Slugs |-> NoOwner]
    /\ mailed = [s \in Slugs |-> 0]
    /\ guc = [k \in Connections |-> None]
    /\ req = [k \in Connections |-> Idle]
    /\ writes = 0
    /\ wanted = [t \in Tables |-> [s \in Slugs |-> DefaultRow]]

Exists(s) == rows["companies"][s] # None
TableOf(k) == IF req[k].op = "config" THEN "config" ELSE "companies"

(* The tenant a request may see configuration of: that of its principal,   *)
(* or the one it creates; the other platform requests have none.           *)
ScopeOf(k) == IF req[k].op \in {"config", "create"} THEN {req[k].tenant} ELSE {}

(* The policy tenant_isolation: unset or empty means no row. *)
Visible(k) == {s \in Slugs : guc[k] = s /\ rows["config"][s] # None}
PassesCheck(k, s) == guc[k] = s

(* Mutant: set_config(..., is_local => false) outlives the transaction. *)
GucStays(k) == guc
GucAfter(k) == [guc EXCEPT ![k] = None]

Proceed(k, now) ==
    /\ req' = [req EXCEPT ![k] = now]
    /\ UNCHANGED <<tables, mailed, wanted>>

(* The end of a transaction that has changed nothing. *)
Leave(k) ==
    /\ req' = [req EXCEPT ![k] = Idle]
    /\ guc' = GucAfter(k)
    /\ UNCHANGED <<tables, mailed, writes, wanted>>

(* A row, or the unique slug of one, is held from the flush to the end.    *)
Holds(k, t, s) ==
    /\ req[k].tenant = s
    /\ \/ req[k].pc = "flushed" /\ TableOf(k) = t
       \/ req[k].op = "create" /\ req[k].pc \in {"bind", "children", "invite", "commit"}
IsFree(t, s) == \A k \in Connections : ~Holds(k, t, s)

-----------------------------------------------------------------------------
(* create_company *)

CreateArrives(k, s) ==
    /\ req[k].pc = "idle"
    /\ writes < MaxWrites /\ writes' = writes + 1
    /\ Proceed(k, [Idle EXCEPT !.pc = "check", !.op = "create",
                               !.id = writes + 1, !.tenant = s])
    /\ UNCHANGED guc

SlugTaken(k) ==
    /\ req[k].pc = "check" /\ Exists(req[k].tenant)
    /\ Leave(k)

SlugLooksFree(k) ==
    /\ req[k].pc = "check" /\ ~Exists(req[k].tenant)
    /\ Proceed(k, [req[k] EXCEPT !.pc = "insert"])
    /\ UNCHANGED <<guc, writes>>

(* Mutant: slug without a unique constraint. *)
InsertUnchecked(s) == TRUE
MayInsert(s) == IsFree("companies", s) /\ ~Exists(s)

InsertCompany(k) ==
    /\ req[k].pc = "insert" /\ MayInsert(req[k].tenant)
    /\ Proceed(k, [req[k] EXCEPT !.pc = "bind"])
    /\ UNCHANGED <<guc, writes>>

(* IntegrityError, which nothing catches. *)
InsertFails(k) ==
    /\ req[k].pc = "insert"
    /\ IsFree("companies", req[k].tenant) /\ Exists(req[k].tenant)
    /\ Leave(k)

(* set_current_company, on the way of a creation and of a tenant's request. *)
Bind(k) ==
    /\ req[k].pc = "bind"
    /\ guc' = [guc EXCEPT ![k] = req[k].tenant]
    /\ Proceed(k, [req[k] EXCEPT !.pc = IF req[k].op = "create"
                                          THEN "children" ELSE "read"])
    /\ UNCHANGED writes

(* Settings, branding and the owner with a temporary password, one flush. *)
InsertChildren(k) ==
    /\ req[k].pc = "children" /\ PassesCheck(k, req[k].tenant)
    /\ Proceed(k, [req[k] EXCEPT !.pc = "invite", !.owner.password = req[k].id])
    /\ UNCHANGED <<guc, writes>>

(* The mail leaves before the commit; an error may follow a delivery. *)
SendInvite(k, delivered, reported) ==
    /\ req[k].pc = "invite"
    /\ reported => delivered
    /\ mailed' = IF delivered
                   THEN [mailed EXCEPT ![req[k].tenant] = req[k].owner.password]
                   ELSE mailed
    /\ req' = [req EXCEPT ![k].pc = "commit", ![k].owner.invited = reported]
    /\ UNCHANGED <<tables, guc, writes, wanted>>

(* Mutant: the tenant's configuration is left to its first use. *)
CompanyOnly == {"companies"}
CreatedTables == Tables

CommitCreate(k) ==
    LET s == req[k].tenant IN
    /\ req[k].pc = "commit"
    /\ rows' = [t \in Tables |-> [rows[t] EXCEPT ![s] = IF t \in CreatedTables
                                                        THEN DefaultRow ELSE @]]
    /\ owner' = [owner EXCEPT ![s] = req[k].owner]
    /\ req' = [req EXCEPT ![k] = Idle]
    /\ guc' = GucAfter(k)
    /\ UNCHANGED <<mailed, writes, wanted>>

-----------------------------------------------------------------------------
(* update_company, update_branding, update_settings and their reads: load  *)
(* the row, set what the body names, flush what differs.                   *)

(* A platform administrator's request names any tenant; an owner's token   *)
(* names the tenant it was issued for.                                     *)
UpdateArrives(k, op, s, payload) ==
    /\ req[k].pc = "idle"
    /\ op = "config" => Exists(s)
    /\ IF payload = Nothing THEN writes' = writes
       ELSE writes < MaxWrites /\ writes' = writes + 1
    /\ Proceed(k, [Idle EXCEPT !.pc = IF op = "config" THEN "bind" ELSE "read",
                               !.op = op, !.tenant = s, !.payload = payload])
    /\ UNCHANGED guc

Misses(k) == IF req[k].op = "config" THEN req[k].tenant \notin Visible(k)
             ELSE ~Exists(req[k].tenant)

(* 404 for a company.  A tenant's configuration would be created here; see *)
(* ConfigIsNeverMissing.                                                   *)
CompanyNotFound(k) ==
    /\ req[k].pc = "read" /\ req[k].op = "company" /\ Misses(k)
    /\ Leave(k)

(* With the company, selectinload reads the settings the policy shows. *)
ReadRow(k) ==
    /\ req[k].pc = "read" /\ ~Misses(k)
    /\ Proceed(k, [req[k] EXCEPT !.pc = "write", !.saw = Visible(k),
                                 !.seen = rows[TableOf(k)][req[k].tenant]])
    /\ UNCHANGED <<guc, writes>>

Named(k) == {c \in Columns : req[k].payload[c] # None}
Changed(k) == {c \in Named(k) : req[k].payload[c] # req[k].seen[c]}

(* Mutants: the UPDATE writes every column, as it was read; it sets the    *)
(* columns that the body leaves out to null.                               *)
WholeRow(k) == [c \in Columns |->
    IF c \in Named(k) THEN req[k].payload[c] ELSE req[k].seen[c]]
UnsetToo(k) == req[k].payload

UpdatedRow(k) == [c \in Columns |->
    IF c \in Changed(k) THEN req[k].payload[c] ELSE rows[TableOf(k)][req[k].tenant][c]]

(* The history of a commit: what was asked of the columns named, unless    *)
(* somebody else had changed them meanwhile.                               *)
Remember(k) ==
    wanted' = [wanted EXCEPT ![TableOf(k)][req[k].tenant] =
                 [c \in Columns |-> IF c \notin Named(k) THEN @[c]
                                    ELSE IF c \in req[k].stale THEN None
                                    ELSE req[k].payload[c]]]

(* A GET, or a body that changes nothing: at most an audit row is written. *)
CommitRead(k) ==
    /\ req[k].pc = "write" /\ Changed(k) = {}
    /\ Remember(k)
    /\ req' = [req EXCEPT ![k] = Idle]
    /\ guc' = GucAfter(k)
    /\ UNCHANGED <<tables, mailed, writes>>

Flush(k) ==
    /\ req[k].pc = "write" /\ Changed(k) # {}
    /\ IsFree(TableOf(k), req[k].tenant)
    /\ Proceed(k, [req[k] EXCEPT !.pc = "flushed"])
    /\ UNCHANGED <<guc, writes>>

CommitUpdate(k) ==
    LET t == TableOf(k)
        s == req[k].tenant IN
    /\ req[k].pc = "flushed"
    /\ rows' = [rows EXCEPT ![t][s] = UpdatedRow(k)]
    /\ Remember(k)
    /\ req' = [l \in Connections |->
         IF l = k THEN Idle
         ELSE IF req[l].pc \in {"write", "flushed"} /\ TableOf(l) = t /\ req[l].tenant = s
                THEN [req[l] EXCEPT !.stale = @ \cup Changed(k)]
                ELSE req[l]]
    /\ guc' = GucAfter(k)
    /\ UNCHANGED <<owner, mailed, writes>>

-----------------------------------------------------------------------------
(* list_companies: a page of rows, then their number, two snapshots. *)

ListArrives(k) ==
    /\ req[k].pc = "idle"
    /\ Proceed(k, [Idle EXCEPT !.pc = "items", !.op = "list"])
    /\ UNCHANGED <<guc, writes>>

Tenants == {s \in Slugs : Exists(s)}

(* Mutant: the count is taken before the rows. *)
CountedFirst(first, second) == [items |-> second, total |-> first]
Page(first, second) == [items |-> first, total |-> second]

ListItems(k) ==
    /\ req[k].pc = "items"
    /\ Proceed(k, [req[k] EXCEPT !.pc = "count", !.saw = Visible(k),
                                 !.items = Cardinality(Tenants)])
    /\ UNCHANGED <<guc, writes>>

ListCount(k) ==
    LET page == Page(req[k].items, Cardinality(Tenants)) IN
    /\ req[k].pc = "count"
    /\ Proceed(k, [req[k] EXCEPT !.pc = "page", !.items = page.items,
                                 !.total = page.total])
    /\ UNCHANGED <<guc, writes>>

ListAnswers(k) ==
    /\ req[k].pc = "page"
    /\ Leave(k)

(* The process or a database call fails: the transaction is rolled back.   *)
Crash(k) == req[k].pc # "idle" /\ Leave(k)

-----------------------------------------------------------------------------
Create(k) ==
    \/ \E s \in Slugs : CreateArrives(k, s)
    \/ SlugTaken(k) \/ SlugLooksFree(k) \/ InsertCompany(k) \/ InsertFails(k)
    \/ Bind(k) \/ InsertChildren(k)
    \/ \E delivered, reported \in BOOLEAN : SendInvite(k, delivered, reported)
    \/ CommitCreate(k)

Update(k) ==
    \/ \E op \in {"company", "config"}, s \in Slugs, payload \in Payload :
          UpdateArrives(k, op, s, payload)
    \/ CompanyNotFound(k) \/ ReadRow(k)
    \/ CommitRead(k) \/ Flush(k) \/ CommitUpdate(k)

List(k) == ListArrives(k) \/ ListItems(k) \/ ListCount(k) \/ ListAnswers(k)

Next == \E k \in Connections : Create(k) \/ Update(k) \/ List(k) \/ Crash(k)

Spec == Init /\ [][Next]_vars

-----------------------------------------------------------------------------
(* Properties. *)

Request ==
    [pc: Stages, op: {"none", "create", "company", "config", "list"},
     id: 0..MaxWrites, tenant: Slugs \cup {None}, payload: Payload, seen: Payload,
     saw: SUBSET Slugs, owner: Owner, stale: SUBSET Columns,
     items: Nat, total: Nat]

TypeOK ==
    /\ rows \in [Tables -> [Slugs -> [Columns -> Values] \cup {None}]]
    /\ owner \in [Slugs -> Owner]
    /\ mailed \in [Slugs -> 0..MaxWrites]
    /\ guc \in [Connections -> Slugs \cup {None}]
    /\ req \in [Connections -> Request]
    /\ writes \in 0..MaxWrites
    /\ wanted \in [Tables -> [Slugs -> Payload]]

(* No statement shows the configuration of a tenant that is not the        *)
(* request's own, whichever requests used the connection before.           *)
TenantIsolation == \A k \in Connections : req[k].saw \subseteq ScopeOf(k)

(* A tenant's request finds its settings and branding: the branch that     *)
(* would insert them (and could do so twice) is never taken, because they  *)
(* are created with the company and the tenant is bound when they are read.*)
ConfigIsNeverMissing ==
    \A k \in Connections : req[k].pc = "read" /\ req[k].op = "config" => ~Misses(k)

(* A tenant whose invite is recorded as sent opens with the password of    *)
(* the last mail to its first owner, though mails leave before the commit  *)
(* and creations of one slug overlap.                                      *)
InviteOpensTenant ==
    \A s \in Slugs : Exists(s) /\ owner[s].invited => mailed[s] = owner[s].password

(* Updates merge: a column holds what the last committed request that      *)
(* named it asked for, even if it found nothing to change, unless another  *)
(* one changed that very column under its feet.                            *)
UpdatesMerge ==
    \A t \in Tables, s \in Slugs, c \in Columns :
        rows[t][s] # None /\ wanted[t][s][c] # None => rows[t][s][c] = wanted[t][s][c]

(* A page never holds more companies than the total beside it, although    *)
(* tenants are created between the two statements.                         *)
TotalCoversPage ==
    \A k \in Connections : req[k].pc = "page" => req[k].items <= req[k].total
=============================================================================
