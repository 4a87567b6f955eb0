---------------------------- MODULE MCTenantData ----------------------------
(* Requests of administrators: what they do to tenants (two connections,   *)
(* two tenants, three requests that may change a row), on what authority   *)
(* (one request at a time, since requests meet only in the tokens they     *)
(* leave; a token lives two ticks, a request one), and with which keys     *)
(* their tokens are signed (two processes, three keys).  The three share   *)
(* no state, so one of them moves while the others are at rest.            *)
EXTENDS TenantData, TLC

CONSTANTS k1, k2, acme, zeta, x, y, none,
          r1, admin, root, Requests, Accounts, FirstRole, Ttl, Patience, MaxTokens, Horizon,
          Processes, Keys, Missing, Empty

VARIABLES auNow, auRole, auOpen, auTokens, auReq, auGranted, auOpened,
          kpPrivate, kpPublic, kpProc, kpUsed, kpSigned, kpTorn, kpLost

auVars == <<auNow, auRole, auOpen, auTokens, auReq, auGranted, auOpened>>
kpVars == <<kpPrivate, kpPublic, kpProc, kpUsed, kpSigned, kpTorn, kpLost>>

Authority == INSTANCE Authority WITH
    now <- auNow, role <- auRole, open <- auOpen, tokens <- auTokens,
    req <- auReq, granted <- auGranted, opened <- auOpened

KeyPair == INSTANCE KeyPair WITH
    private <- kpPrivate, public <- kpPublic, proc <- kpProc, used <- kpUsed,
    signed <- kpSigned, torn <- kpTorn, lost <- kpLost

ASSUME InstancesAssumption ==
    Authority!AuthorityAssumption /\ KeyPair!KeyPairAssumption

(* The accounts at the start: one of the platform, and owners of a tenant. *)
FirstRoles == [a \in Accounts |-> IF a = root THEN "PLATFORM_ADMIN" ELSE "COMPANY_OWNER"]

DataMoves == Authority!Init /\ KeyPair!Init /\ Next /\ UNCHANGED <<auVars, kpVars>>
AuthorityMoves == Init /\ KeyPair!Init /\ Authority!Next /\ UNCHANGED <<vars, kpVars>>
KeysMove == Init /\ Authority!Init /\ KeyPair!Next /\ UNCHANGED <<vars, auVars>>

TenantsInit == Init /\ Authority!Init /\ KeyPair!Init

TenantsSpec ==
    /\ TenantsInit
    /\ [][DataMoves \/ AuthorityMoves \/ KeysMove]_<<vars, auVars, kpVars>>

AuthorityIsRecent == Authority!AuthorityIsRecent
PairMatches == KeyPair!PairMatches
TokensSurviveRestart == KeyPair!TokensSurviveRestart

Symmetry == Permutations(Connections) \cup Permutations(Slugs) \cup Permutations(Columns)
=============================================================================
