----------------------------- MODULE Authority -----------------------------
(***************************************************************************)
(* Access tokens and role-based access control.  A login or a refresh      *)
(* checks the tenant, reads the account and signs a JWT with the role it   *)
(* read (domains/auth/service.py, core/security.py); a handler trusts the  *)
(* claims alone, never the database (core/rbac.py).  Meanwhile tenants are *)
(* suspended and accounts promoted, demoted and disabled.                  *)
(*                                                                         *)
(* The clock ticks in units of time; a request lasts at most Patience of   *)
(* them, and a token Ttl.  A permission stands for its class in the matrix *)
(* of rbac.py.                                                             *)
(***************************************************************************)
EXTENDS Naturals, FiniteSets

CONSTANTS
    Requests,    \* slots for requests executing at the same time
    Accounts,    \* administrators
    FirstRole,   \* the role each account was created with
    Ttl,         \* settings.jwt_access_ttl_seconds
    Patience,    \* the longest a request runs
    MaxTokens,   \* bound on the access tokens in circulation
    Horizon      \* bound on the time that passes

PlatformRoles == {"PLATFORM_OWNER", "PLATFORM_ADMIN"}
CompanyRoles == {"COMPANY_OWNER", "COMPANY_ADMIN", "COMPANY_VIEWER"}
Roles == PlatformRoles \cup CompanyRoles \cup {"BUSINESS_CUSTOMER"}
Disabled == "DISABLED"

AuthorityAssumption ==
    /\ Ttl \in Nat /\ Patience \in Nat /\ MaxTokens \in Nat /\ Horizon \in Nat
    /\ FirstRole \in [Accounts -> PlatformRoles \cup CompanyRoles]

(* ROLE_PERMISSIONS; a role that is not in it has none. *)
Permissions == {"manage_companies", "manage_admins", "manage_customers",
                "view_records", "upload_certificate"}

PermissionsFor(role) ==
    CASE role \in PlatformRoles -> {"manage_companies"}
      [] role = "COMPANY_OWNER" -> {"manage_admins", "manage_customers", "view_records"}
      [] role = "COMPANY_ADMIN" -> {"manage_customers", "view_records"}
      [] role = "COMPANY_VIEWER" -> {"view_records"}
      [] role = "BUSINESS_CUSTOMER" -> {"upload_certificate"}
      [] OTHER -> {}

VARIABLES
    now,         \* the time
    role,        \* role of an account, or Disabled
    open,        \* the tenant is neither suspended nor cancelled
    tokens,      \* access tokens signed so far
    req,         \* the request in each slot
    granted,     \* history: when an account last had a permission
    opened       \* history: when the tenant was last open

vars == <<now, role, open, tokens, req, granted, opened>>

(* The age of a token's authority has this bound; time starts here, so     *)
(* that 0 in the history reads as never.                                   *)
Staleness == Ttl + 2 * Patience

Token == [who: Accounts, role: Roles, exp: Nat]
Request == [pc: {"idle", "company", "account", "sign", "handle"},
            who: Accounts \cup {"nobody"}, role: Roles \cup {Disabled},
            perm: Permissions \cup {"none"}, at: Nat]
Idle == [pc |-> "idle", who |-> "nobody", role |-> Disabled, perm |-> "none", at |-> 0]

IsPlatform(a) == FirstRole[a] \in PlatformRoles

(* When account a last had permission p, if its role is r. *)
Grants(r, t) == [a \in Accounts |-> [p \in Permissions |->
                    IF p \in PermissionsFor(r[a]) THEN t ELSE granted[a][p]]]

Init ==
    /\ now = Staleness
    /\ role = FirstRole /\ open = TRUE
    /\ tokens = {}
    /\ req = [r \in Requests |-> Idle]
    /\ granted = [a \in Accounts |-> [p \in Permissions |->
                    IF p \in PermissionsFor(FirstRole[a]) THEN Staleness ELSE 0]]
    /\ opened = Staleness

-----------------------------------------------------------------------------
(* login and refresh: the tenant, the account, the token. *)

Arrive(r, a) ==
    /\ req[r].pc = "idle"
    /\ req' = [req EXCEPT ![r] = [Idle EXCEPT
                 !.pc = IF IsPlatform(a) THEN "account" ELSE "company",
                 !.who = a, !.at = now]]
    /\ UNCHANGED <<now, role, open, tokens, granted, opened>>

CompanyOpen(r) ==
    /\ req[r].pc = "company" /\ open
    /\ req' = [req EXCEPT ![r].pc = "account"]
    /\ UNCHANGED <<now, role, open, tokens, granted, opened>>

(* Mutant: a refresh copies the role of the token it replaces. *)
RoleOfLastToken(a) ==
    LET own == {t \in tokens : t.who = a} IN
    IF own = {} THEN role[a]
    ELSE (CHOOSE t \in own : \A u \in own : u.exp <= t.exp).role

RoleToSign(a) == role[a]

AccountActive(r) ==
    /\ req[r].pc = "account" /\ role[req[r].who] # Disabled
    /\ req' = [req EXCEPT ![r].pc = "sign", ![r].role = RoleToSign(req[r].who)]
    /\ UNCHANGED <<now, role, open, tokens, granted, opened>>

(* create_access_token, the moment iat and exp are taken. *)
Sign(r) ==
    /\ req[r].pc = "sign" /\ Cardinality(tokens) < MaxTokens
    /\ tokens' = tokens \cup {[who |-> req[r].who, role |-> req[r].role, exp |-> now + Ttl]}
    /\ req' = [req EXCEPT ![r] = Idle]
    /\ UNCHANGED <<now, role, open, granted, opened>>

-----------------------------------------------------------------------------
(* A protected endpoint. *)

(* Mutant: the token is decoded without checking exp. *)
NeverExpires(t) == TRUE
IsValid(t) == now < t.exp

(* get_current_principal and require(p), before the handler runs. *)
Admit(r, t, p) ==
    /\ req[r].pc = "idle"
    /\ IsValid(t) /\ p \in PermissionsFor(t.role)
    /\ req' = [req EXCEPT ![r] =
                 [Idle EXCEPT !.pc = "handle", !.who = t.who, !.perm = p, !.at = now]]
    /\ UNCHANGED <<now, role, open, tokens, granted, opened>>

(* A request is answered, refused by a check above, or lost. *)
End(r) ==
    /\ req[r].pc # "idle"
    /\ req' = [req EXCEPT ![r] = Idle]
    /\ UNCHANGED <<now, role, open, tokens, granted, opened>>

-----------------------------------------------------------------------------
(* update_admin and update_company; nothing changes a platform account.    *)

SetRole(a, to) ==
    /\ ~IsPlatform(a) /\ to # role[a]
    /\ role' = [role EXCEPT ![a] = to]
    /\ granted' = Grants(role', now)
    /\ UNCHANGED <<now, open, tokens, req, opened>>

SetStatus ==
    /\ open' = ~open /\ opened' = now
    /\ UNCHANGED <<now, role, tokens, req, granted>>

(* Time passes; no request outlives its patience. *)
Tick ==
    /\ now < Staleness + Horizon
    /\ \A r \in Requests : req[r].pc # "idle" => now < req[r].at + Patience
    /\ now' = now + 1
    /\ granted' = Grants(role, now')
    /\ opened' = IF open THEN now' ELSE opened
    /\ UNCHANGED <<role, open, tokens, req>>

Next ==
    \/ \E r \in Requests :
          \/ \E a \in Accounts : Arrive(r, a)
          \/ CompanyOpen(r) \/ AccountActive(r) \/ Sign(r)
          \/ \E t \in tokens, p \in Permissions : Admit(r, t, p)
          \/ End(r)
    \/ \E a \in Accounts, to \in CompanyRoles \cup {Disabled} : SetRole(a, to)
    \/ SetStatus \/ Tick

Spec == Init /\ [][Next]_vars

-----------------------------------------------------------------------------
(* Properties. *)

TypeOK ==
    /\ now \in Nat /\ open \in BOOLEAN /\ opened \in Nat
    /\ role \in [Accounts -> PlatformRoles \cup CompanyRoles \cup {Disabled}]
    /\ tokens \subseteq Token
    /\ req \in [Requests -> Request]
    /\ granted \in [Accounts -> [Permissions -> Nat]]

(* A handler trusts claims, but not old ones: as long as a request runs    *)
(* with a permission, its account has had that permission, and its tenant  *)
(* has been open, within the life of a token and of the two requests that  *)
(* signed and presented it.                                                *)
AuthorityIsRecent ==
    \A r \in Requests :
        req[r].pc = "handle" =>
            /\ now - granted[req[r].who][req[r].perm] < Staleness
            /\ IsPlatform(req[r].who) \/ now - opened < Staleness
=============================================================================
