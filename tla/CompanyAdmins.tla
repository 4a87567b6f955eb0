--------------------------- MODULE CompanyAdmins ---------------------------
(***************************************************************************)
(* The admin accounts of one tenant: domains/admins/service.py, with       *)
(* concurrent PATCH /admin/users/{id} and POST /admin/users requests.      *)
(* Each request is one READ COMMITTED transaction (core/db.py): a SELECT   *)
(* sees what is committed when it runs, an UPDATE holds its row and an     *)
(* INSERT holds its (company_id, email) until the transaction ends.        *)
(* A request is authorised by the role claim of its access token, which    *)
(* may be older than the table, so requests may arrive at any time.        *)
(***************************************************************************)
EXTENDS Naturals, FiniteSets

CONSTANTS
    Requests,     \* slots for requests executing at the same time
    Emails,       \* addresses an account can have
    First,        \* the owner create_company made
    Roles,        \* CompanyRole
    Owner,        \* COMPANY_OWNER
    None,         \* no account, or a field the PATCH leaves out
    MaxPasswords, \* bound on temporary passwords drawn
    MaxCrashes    \* bound on requests lost half-way

Rows == [role: Roles, active: BOOLEAN, password: Nat, invited: BOOLEAN]
Fields == [role: Roles \cup {None}, active: BOOLEAN \cup {None}]

ASSUME AdminAssumption ==
    /\ First \in Emails /\ Owner \in Roles
    /\ None \notin Roles /\ None \notin BOOLEAN /\ None \notin Rows
    /\ MaxPasswords \in Nat /\ MaxCrashes \in Nat

VARIABLES
    accounts,   \* committed rows of company_admins, by email
    trail,      \* role and status, replayed from the committed audit rows
    mailed,     \* the temporary password of the last invite sent, by email
    req,        \* the request in each slot
    passwords,  \* temporary passwords drawn so far
    crashes,    \* requests lost half-way
    raced       \* history: an update was committed on a table that another
                \* update had changed since it was read

vars == <<accounts, trail, mailed, req, passwords, crashes, raced>>

Nothing == [role |-> None, active |-> None]

FirstRow == [role |-> Owner, active |-> TRUE, password |-> 0, invited |-> TRUE]

Idle == [pc |-> "idle", email |-> First, data |-> Nothing, seen |-> FirstRow,
         stale |-> FALSE]

Init ==
    /\ accounts = [e \in Emails |-> IF e = First THEN FirstRow ELSE None]
    /\ trail = [e \in Emails |-> IF e = First
                                       THEN [role |-> Owner, active |-> TRUE]
                                       ELSE Nothing]
    /\ mailed = [e \in Emails |-> 0]
    /\ req = [r \in Requests |-> Idle]
    /\ passwords = 0 /\ crashes = 0 /\ raced = FALSE

Exists(e) == accounts[e] # None
IsActiveOwner(e) == Exists(e) /\ accounts[e].role = Owner /\ accounts[e].active

(* The end of a request that has committed nothing. *)
Leave(r) ==
    /\ req' = [req EXCEPT ![r] = Idle]
    /\ UNCHANGED <<accounts, trail, mailed, passwords, raced>>

Proceed(r, now) ==
    /\ req' = [req EXCEPT ![r] = now]
    /\ UNCHANGED <<accounts, trail, mailed, crashes, raced>>

(* A row is held from its UPDATE or INSERT to the end of the transaction. *)
Holds(r, e) == req[r].email = e /\ req[r].pc \in {"commitUpdate", "invite", "commitCreate"}
IsFree(e) == \A r \in Requests : ~Holds(r, e)

-----------------------------------------------------------------------------
(* update_admin *)

UpdateArrives(r, e, data) ==
    /\ req[r].pc = "idle"
    /\ Proceed(r, [Idle EXCEPT !.pc = "read", !.email = e, !.data = data])
    /\ UNCHANGED passwords

(* The columns the UPDATE sets: those that differ from the row as read. *)
Changes(data, seen) ==
    [role |-> IF data.role = seen.role THEN None ELSE data.role,
     active |-> IF data.active = seen.active THEN None ELSE data.active]

(* Mutant: a deactivation is not guarded. *)
GuardsDemotionOnly(data, seen) ==
    seen.role = Owner /\ data.role \notin {None, Owner}

NeedsGuard(data, seen) ==
    /\ seen.role = Owner
    /\ data.role \notin {None, Owner} \/ data.active = FALSE

AdminNotFound(r) ==
    /\ req[r].pc = "read" /\ ~Exists(req[r].email)
    /\ Leave(r) /\ UNCHANGED crashes

ReadAdmin(r) ==
    /\ req[r].pc = "read" /\ Exists(req[r].email)
    /\ LET seen == accounts[req[r].email] IN
         Proceed(r, [req[r] EXCEPT
             !.pc = IF NeedsGuard(req[r].data, seen) THEN "guard" ELSE "write",
             !.seen = seen])
    /\ UNCHANGED passwords

(* count_active_owners, leaving the account itself out. *)
OtherActiveOwners(e) == {f \in Emails \ {e} : IsActiveOwner(f)}

LastOwnerProtected(r) ==
    /\ req[r].pc = "guard" /\ OtherActiveOwners(req[r].email) = {}
    /\ Leave(r) /\ UNCHANGED crashes

GuardPasses(r) ==
    /\ req[r].pc = "guard" /\ OtherActiveOwners(req[r].email) # {}
    /\ Proceed(r, [req[r] EXCEPT !.pc = "write"])
    /\ UNCHANGED passwords

Writes(r) == Changes(req[r].data, req[r].seen)

NothingToWrite(r) ==
    /\ req[r].pc = "write" /\ Writes(r) = Nothing
    /\ Leave(r) /\ UNCHANGED crashes

(* The flush of the UPDATE and of its audit row. *)
WriteAdmin(r) ==
    /\ req[r].pc = "write" /\ Writes(r) # Nothing
    /\ IsFree(req[r].email)
    /\ Proceed(r, [req[r] EXCEPT !.pc = "commitUpdate"])
    /\ UNCHANGED passwords

(* Mutant: a field the PATCH leaves out is written as null. *)
SetEveryColumn(row, change) ==
    [row EXCEPT !.role = change.role, !.active = change.active]

SetColumns(row, change) ==
    [row EXCEPT !.role = IF change.role = None THEN @ ELSE change.role,
                !.active = IF change.active = None THEN @ ELSE change.active]

(* Mutant: the UPDATE writes the whole row back, as it was read. *)
WholeRow(r) == SetColumns(req[r].seen, Writes(r))

UpdatedRow(r) == SetColumns(accounts[req[r].email], Writes(r))

(* A committed update makes what the others have read stale. *)
Outdated(q) ==
    [q EXCEPT !.stale = @ \/ q.pc \in {"guard", "write", "commitUpdate"}]

CommitUpdate(r) ==
    /\ req[r].pc = "commitUpdate"
    /\ LET e == req[r].email IN
         /\ accounts' = [accounts EXCEPT ![e] = UpdatedRow(r)]
         /\ trail' = [trail EXCEPT ![e] = SetColumns(trail[e], Writes(r))]
    /\ req' = [q \in Requests |-> IF q = r THEN Idle ELSE Outdated(req[q])]
    /\ raced' = (raced \/ req[r].stale)
    /\ UNCHANGED <<mailed, passwords, crashes>>

-----------------------------------------------------------------------------
(* create_admin *)

CreateArrives(r, e, role) ==
    /\ req[r].pc = "idle"
    /\ Proceed(r, [Idle EXCEPT !.pc = "check", !.email = e,
                               !.data = [role |-> role, active |-> TRUE]])
    /\ UNCHANGED passwords

AdminEmailTaken(r) ==
    /\ req[r].pc = "check" /\ Exists(req[r].email)
    /\ Leave(r) /\ UNCHANGED crashes

(* The address looks free: a temporary password is drawn. *)
EmailLooksFree(r) ==
    /\ req[r].pc = "check" /\ ~Exists(req[r].email)
    /\ passwords < MaxPasswords
    /\ passwords' = passwords + 1
    /\ Proceed(r, [req[r] EXCEPT
           !.pc = "insert",
           !.seen = [role |-> req[r].data.role, active |-> TRUE,
                     password |-> passwords + 1, invited |-> FALSE]])

(* Mutant: no unique constraint on (company_id, email). *)
InsertUnchecked(e) == TRUE

MayInsert(e) == IsFree(e) /\ ~Exists(e)

(* The INSERT waits for another transaction's row with the same key. *)
InsertAdmin(r) ==
    /\ req[r].pc = "insert" /\ MayInsert(req[r].email)
    /\ Proceed(r, [req[r] EXCEPT !.pc = "invite"])
    /\ UNCHANGED passwords

(* IntegrityError, which nothing catches. *)
InsertFails(r) ==
    /\ req[r].pc = "insert" /\ IsFree(req[r].email) /\ Exists(req[r].email)
    /\ Leave(r) /\ UNCHANGED crashes

(* The mail leaves before the commit.  A provider that raises may still    *)
(* have delivered it.                                                      *)
SendInvite(r, delivered, reported) ==
    /\ req[r].pc = "invite"
    /\ reported => delivered
    /\ mailed' = IF delivered
                   THEN [mailed EXCEPT ![req[r].email] = req[r].seen.password]
                   ELSE mailed
    /\ req' = [req EXCEPT ![r].pc = "commitCreate", ![r].seen.invited = reported]
    /\ UNCHANGED <<accounts, trail, passwords, crashes, raced>>

CommitCreate(r) ==
    /\ req[r].pc = "commitCreate"
    /\ accounts' = [accounts EXCEPT ![req[r].email] = req[r].seen]
    /\ trail' = [trail EXCEPT ![req[r].email] = req[r].data]
    /\ req' = [req EXCEPT ![r] = Idle]
    /\ UNCHANGED <<mailed, passwords, crashes, raced>>

(* The process or a database call fails: the transaction is rolled back. *)
Crash(r) ==
    /\ req[r].pc # "idle" /\ crashes < MaxCrashes
    /\ crashes' = crashes + 1
    /\ Leave(r)

Update(r) ==
    \/ \E e \in Emails, data \in Fields : UpdateArrives(r, e, data)
    \/ AdminNotFound(r) \/ ReadAdmin(r) \/ LastOwnerProtected(r) \/ GuardPasses(r)
    \/ NothingToWrite(r) \/ WriteAdmin(r) \/ CommitUpdate(r)

Create(r) ==
    \/ \E e \in Emails, role \in Roles : CreateArrives(r, e, role)
    \/ AdminEmailTaken(r) \/ EmailLooksFree(r) \/ InsertAdmin(r) \/ InsertFails(r)
    \/ \E delivered, reported \in BOOLEAN : SendInvite(r, delivered, reported)
    \/ CommitCreate(r)

Next == \E r \in Requests : Update(r) \/ Create(r) \/ Crash(r)

Spec == Init /\ [][Next]_vars

-----------------------------------------------------------------------------
(* Properties. *)

Stages == {"idle", "read", "guard", "write", "commitUpdate",
           "check", "insert", "invite", "commitCreate"}

TypeOK ==
    /\ accounts \in [Emails -> Rows \cup {None}]
    /\ trail \in [Emails -> Fields]
    /\ mailed \in [Emails -> Nat]
    /\ req \in [Requests -> [pc: Stages, email: Emails, data: Fields, seen: Rows,
                             stale: BOOLEAN]]
    /\ passwords \in 0..MaxPasswords /\ crashes \in 0..MaxCrashes
    /\ raced \in BOOLEAN

SomeActiveOwner == \E e \in Emails : IsActiveOwner(e)

(* The guard keeps an active owner as long as no update was committed on a *)
(* table that another one had changed since its read.                      *)
OwnerUnlessRaced == raced \/ SomeActiveOwner

(* What domains/admins/service.py:4-5 says: a tenant can never be locked   *)
(* out.  (Violated: two updates that overlap each count the other's owner.)*)
TenantIsNeverLockedOut == SomeActiveOwner

(* Whatever the overlap, the audit rows replayed in commit order give the  *)
(* table: an update writes the columns it audits and no other.             *)
TrailGivesTable ==
    \A e \in Emails : Exists(e) =>
        trail[e] = [role |-> accounts[e].role, active |-> accounts[e].active]

(* An account whose invite is recorded as sent opens with the password of  *)
(* the last mail sent to its address, though mails leave before the commit *)
(* and other requests may have mailed other passwords to it.               *)
InviteOpensAccount ==
    \A e \in Emails \ {First} :
        Exists(e) /\ accounts[e].invited => mailed[e] = accounts[e].password

(* No request replaces an account that exists: however many creations of   *)
(* one address overlap, one password is stored for it for good.            *)
AccountIsCreatedOnce ==
    [][\A e \in Emails : Exists(e) =>
        accounts'[e] # None /\ accounts'[e].password = accounts[e].password]_vars
=============================================================================
