---------------------------- MODULE AccessProofs ----------------------------
(***************************************************************************)
(* What access rests on: the two instances Authority and KeyPair of        *)
(* MCTenantData.  However long a token lives and a request runs, and       *)
(* however many accounts and requests there are, the authority a handler   *)
(* trusts is younger than the life of a token and of two requests.  And    *)
(* however many processes share the development keys, start, stop and die, *)
(* they hold one pair as long as one of them at a time writes the files.   *)
(***************************************************************************)
EXTENDS MCTenantData, TLAPS

(* The history is up to date, and never ahead of the time. *)
HistoryInv ==
    /\ auOpened <= auNow /\ (auOpen => auOpened = auNow)
    /\ \A a \in Accounts, p \in Authority!Permissions :
          /\ auGranted[a][p] <= auNow
          /\ p \in Authority!PermissionsFor(auRole[a]) => auGranted[a][p] = auNow

(* A request has not outlived its patience.  What it has read held when it *)
(* arrived or later; the token it was admitted with was signed on reads    *)
(* no older than the life of a token and of one more request.              *)
RequestOK(r) ==
    LET q == auReq[r] IN
    q.pc # "idle" =>
        /\ q.who \in Accounts /\ q.at <= auNow /\ auNow <= q.at + Patience
        /\ q.pc \in {"account", "sign"} => Authority!IsPlatform(q.who) \/ q.at <= auOpened
        /\ q.pc = "sign" =>
              /\ q.role \in Authority!Roles
              /\ \A p \in Authority!Permissions :
                    p \in Authority!PermissionsFor(q.role) => q.at <= auGranted[q.who][p]
        /\ q.pc = "handle" =>
              /\ q.perm \in Authority!Permissions
              /\ q.at < auGranted[q.who][q.perm] + Patience + Ttl
              /\ Authority!IsPlatform(q.who) \/ q.at < auOpened + Patience + Ttl

(* A token expires within its life and one request of the time when its    *)
(* account had the permissions of its role and its tenant was open.        *)
TokenOK(t) ==
    /\ \A p \in Authority!Permissions :
          p \in Authority!PermissionsFor(t.role) =>
              t.exp <= auGranted[t.who][p] + Patience + Ttl
    /\ Authority!IsPlatform(t.who) \/ t.exp <= auOpened + Patience + Ttl

(* All that, and the types. *)
AgeInv ==
    /\ Authority!TypeOK /\ HistoryInv
    /\ \A r \in Requests : RequestOK(r)
    /\ \A t \in auTokens : TokenOK(t)

(* The part of a step that concerns only the history and the time. *)
Grows ==
    /\ auNow <= auNow' /\ auOpened <= auOpened'
    /\ \A a \in Accounts, p \in Authority!Permissions : auGranted[a][p] <= auGranted'[a][p]

-----------------------------------------------------------------------------

(* Lifetimes are numbers, and accounts have roles.                         *)
LEMMA Lifetimes == Authority!AuthorityAssumption
BY InstancesAssumption DEF InstancesAssumption

(* Steps keep the types: claims are those of an account, and time runs on. *)
LEMMA TypeStep ==
    ASSUME Authority!TypeOK, \A r \in Requests : RequestOK(r), [Authority!Next]_auVars
    PROVE  Authority!TypeOK'
<1> USE Lifetimes DEF Authority!AuthorityAssumption
<1>1. ASSUME NEW r \in Requests, NEW a \in Accounts, Authority!Arrive(r, a)
      PROVE Authority!TypeOK'
  BY <1>1 DEF Authority!TypeOK, Authority!Arrive, Authority!Idle, Authority!Request
<1>2. ASSUME NEW r \in Requests, Authority!CompanyOpen(r) PROVE Authority!TypeOK'
  <2>1. [auReq[r] EXCEPT !.pc = "account"] \in Authority!Request
    BY DEF Authority!TypeOK, Authority!Request
  <2> QED  BY <2>1, <1>2 DEF Authority!TypeOK, Authority!CompanyOpen
<1>3. ASSUME NEW r \in Requests, Authority!AccountActive(r) PROVE Authority!TypeOK'
  <2>1. Authority!RoleToSign(auReq[r].who) \in Authority!Roles \cup {Authority!Disabled}
    BY <1>3 DEF Authority!TypeOK, RequestOK, Authority!AccountActive, Authority!RoleToSign,
       Authority!Roles, Authority!Request
  <2>2. [auReq[r] EXCEPT !.pc = "sign", !.role = Authority!RoleToSign(auReq[r].who)] \in Authority!Request
    BY <2>1 DEF Authority!TypeOK, Authority!Request
  <2> QED  BY <2>2, <1>3 DEF Authority!TypeOK, Authority!AccountActive
<1>4. ASSUME NEW r \in Requests, Authority!Sign(r) PROVE Authority!TypeOK'
  <2>1. [who |-> auReq[r].who, role |-> auReq[r].role,
      exp |-> auNow + Ttl] \in Authority!Token
    BY <1>4 DEF Authority!TypeOK, RequestOK, Authority!Sign, Authority!Token,
       Authority!Request
  <2> QED  BY <2>1, <1>4 DEF Authority!TypeOK, Authority!Sign, Authority!Idle,
              Authority!Request
<1>5. ASSUME NEW r \in Requests, NEW t \in auTokens, NEW p \in Authority!Permissions,
             Authority!Admit(r, t, p)
      PROVE Authority!TypeOK'
  BY <1>5 DEF Authority!TypeOK, Authority!Admit, Authority!Idle, Authority!Token,
     Authority!Request
<1>6. ASSUME NEW r \in Requests, Authority!End(r) PROVE Authority!TypeOK'
  BY <1>6 DEF Authority!TypeOK, Authority!End, Authority!Idle, Authority!Request
<1>7. ASSUME NEW a \in Accounts, NEW to \in Authority!CompanyRoles \cup {Authority!Disabled}, Authority!SetRole(a, to)
      PROVE Authority!TypeOK'
  BY <1>7 DEF Authority!TypeOK, Authority!SetRole, Authority!Grants
<1>8. CASE Authority!SetStatus
  BY <1>8 DEF Authority!TypeOK, Authority!SetStatus
<1>9. CASE Authority!Tick
  BY <1>9 DEF Authority!TypeOK, Authority!Tick, Authority!Grants
<1>10. CASE UNCHANGED auVars
  BY <1>10 DEF Authority!TypeOK, auVars
<1> QED  BY <1>1, <1>2, <1>3, <1>4, <1>5, <1>6, <1>7, <1>8, <1>9, <1>10 DEF Authority!Next

(* Nothing moves the time or the history back. *)
LEMMA HistoryStep ==
    ASSUME Authority!TypeOK, HistoryInv, [Authority!Next]_auVars PROVE HistoryInv' /\ Grows
<1>1. CASE UNCHANGED <<auNow, auRole, auOpen, auGranted, auOpened>>
  BY <1>1 DEF Authority!TypeOK, HistoryInv, Grows
<1>2. CASE \E a \in Accounts, to \in Authority!CompanyRoles \cup {Authority!Disabled} :
           Authority!SetRole(a, to)
  BY <1>2 DEF Authority!TypeOK, HistoryInv, Grows, Authority!SetRole, Authority!Grants
<1>3. CASE Authority!SetStatus
  BY <1>3 DEF Authority!TypeOK, HistoryInv, Grows, Authority!SetStatus
<1>4. CASE Authority!Tick
  BY <1>4 DEF Authority!TypeOK, HistoryInv, Grows, Authority!Tick, Authority!Grants
<1> QED
  BY <1>1, <1>2, <1>3, <1>4
  DEF Authority!Next, Authority!Arrive, Authority!CompanyOpen, Authority!AccountActive,
      Authority!Sign, Authority!Admit, Authority!End, auVars

(* A request that a step leaves alone keeps what is known of it as the     *)
(* history grows.                                                          *)
LEMMA RequestKept ==
    ASSUME Authority!TypeOK, Authority!TypeOK', Grows, NEW r \in Requests, RequestOK(r),
           auReq'[r] = auReq[r], auReq[r].pc # "idle" => auNow' <= auReq[r].at + Patience
    PROVE  RequestOK(r)'
<1> USE Lifetimes DEF Authority!AuthorityAssumption
<1> DEFINE q == auReq[r]
<1> SUFFICES ASSUME q.pc # "idle" PROVE RequestOK(r)'
  BY DEF RequestOK
<1>1. q.who \in Accounts /\ q.at <= auNow' /\ auNow' <= q.at + Patience
  BY DEF RequestOK, Grows, Authority!TypeOK, Authority!Request
<1>2. q.pc \in {"account", "sign"} => Authority!IsPlatform(q.who) \/ q.at <= auOpened'
  BY DEF RequestOK, Grows, Authority!TypeOK, Authority!Request
<1>3. ASSUME q.pc = "sign", NEW p \in Authority!Permissions,
             p \in Authority!PermissionsFor(q.role)
      PROVE  q.at <= auGranted'[q.who][p]
  <2>1. q.at <= auGranted[q.who][p] /\ auGranted[q.who][p] <= auGranted'[q.who][p]
    BY <1>1, <1>3 DEF RequestOK, Grows
  <2>2. q.at \in Nat /\ auGranted[q.who][p] \in Nat /\ auGranted'[q.who][p] \in Nat
    BY <1>1 DEF Authority!TypeOK, Authority!Request
  <2> QED  BY <2>1, <2>2
<1>4. ASSUME q.pc = "handle"
      PROVE  /\ q.perm \in Authority!Permissions
             /\ q.at < auGranted'[q.who][q.perm] + Patience + Ttl
             /\ Authority!IsPlatform(q.who) \/ q.at < auOpened' + Patience + Ttl
  <2>1. q.perm \in Authority!Permissions /\ q.at < auGranted[q.who][q.perm] + Patience + Ttl
    BY <1>4 DEF RequestOK
  <2>2. auGranted[q.who][q.perm] <= auGranted'[q.who][q.perm]
    BY <2>1, <1>1 DEF Grows
  <2>3. /\ auGranted[q.who][q.perm] \in Nat /\ auGranted'[q.who][q.perm] \in Nat
        /\ q.at \in Nat /\ auOpened \in Nat /\ auOpened' \in Nat
    BY <2>1, <1>1 DEF Authority!TypeOK, Authority!Request
  <2>4. Authority!IsPlatform(q.who) \/ q.at < auOpened' + Patience + Ttl
    BY <2>3, <1>4 DEF RequestOK, Grows
  <2> QED  BY <2>1, <2>2, <2>3, <2>4
<1>5. q.pc = "sign" => q.role \in Authority!Roles
  BY DEF RequestOK
<1> QED  BY <1>1, <1>2, <1>3, <1>4, <1>5 DEF RequestOK, Authority!IsPlatform

(* So does a token. *)
LEMMA TokenKept ==
    ASSUME Authority!TypeOK, Authority!TypeOK', Grows, NEW t \in auTokens, TokenOK(t)
    PROVE  TokenOK(t)'
<1> USE Lifetimes DEF Authority!AuthorityAssumption
<1>1. t.who \in Accounts /\ t.exp \in Nat
  BY DEF Authority!TypeOK, Authority!Token
<1>2. ASSUME NEW p \in Authority!Permissions, p \in Authority!PermissionsFor(t.role)
      PROVE t.exp <= auGranted'[t.who][p] + Patience + Ttl
  <2>1. t.exp <= auGranted[t.who][p] + Patience + Ttl
    BY <1>2 DEF TokenOK
  <2>2. auGranted[t.who][p] <= auGranted'[t.who][p]
    BY <1>1 DEF Grows
  <2>3. auGranted[t.who][p] \in Nat /\ auGranted'[t.who][p] \in Nat
    BY <1>1 DEF Authority!TypeOK, Authority!Request
  <2> QED  BY <1>1, <2>1, <2>2, <2>3
<1>3. Authority!IsPlatform(t.who) \/ t.exp <= auOpened' + Patience + Ttl
  BY <1>1 DEF TokenOK, Grows, Authority!TypeOK
<1> QED  BY <1>2, <1>3 DEF TokenOK, Authority!IsPlatform

-----------------------------------------------------------------------------

(* Every request knows after a step what it should.                        *)
LEMMA RequestStep ==
    ASSUME AgeInv, Authority!TypeOK', HistoryInv', Grows, [Authority!Next]_auVars,
           NEW r \in Requests
    PROVE  RequestOK(r)'
<1> USE Lifetimes DEF Authority!AuthorityAssumption, AgeInv
<1>1. ASSUME NEW s \in Requests, NEW a \in Accounts, Authority!Arrive(s, a)
      PROVE RequestOK(r)'
  <2>1. CASE s = r
    BY <1>1, <2>1 DEF Authority!Arrive, RequestOK, Authority!TypeOK, HistoryInv,
       Authority!Idle, Authority!IsPlatform
  <2>2. CASE s # r
    BY <1>1, <2>2, RequestKept DEF Authority!Arrive, RequestOK, Authority!TypeOK
  <2> QED  BY <2>1, <2>2
<1>2. ASSUME NEW s \in Requests, Authority!CompanyOpen(s) PROVE RequestOK(r)'
  <2>1. CASE s = r
    BY <1>2, <2>1 DEF Authority!CompanyOpen, RequestOK, Authority!TypeOK, HistoryInv,
       Authority!IsPlatform, Authority!Request
  <2>2. CASE s # r
    BY <1>2, <2>2, RequestKept DEF Authority!CompanyOpen, RequestOK, Authority!TypeOK
  <2> QED  BY <2>1, <2>2
<1>3. ASSUME NEW s \in Requests, Authority!AccountActive(s) PROVE RequestOK(r)'
  <2>1. CASE s = r
    <3>1. /\ auReq'[r].pc = "sign" /\ auReq'[r].who = auReq[r].who /\ auReq'[r].at = auReq[r].at
          /\ auReq'[r].role = auRole[auReq[r].who]
          /\ UNCHANGED <<auNow, auOpened, auGranted>>
      BY <1>3, <2>1 DEF Authority!AccountActive, Authority!RoleToSign, Authority!TypeOK,
         Authority!Request
    <3>2. /\ auReq[r].who \in Accounts /\ auReq[r].at <= auNow /\ auNow <= auReq[r].at + Patience
          /\ Authority!IsPlatform(auReq[r].who) \/ auReq[r].at <= auOpened
      BY <1>3, <2>1 DEF Authority!AccountActive, RequestOK
    <3>3. auRole[auReq[r].who] \in Authority!Roles
      BY <1>3, <2>1, <3>2 DEF Authority!AccountActive, Authority!TypeOK, Authority!Roles
    <3>4. \A p \in Authority!Permissions :
             p \in Authority!PermissionsFor(auRole[auReq[r].who]) =>
                 auReq[r].at <= auGranted[auReq[r].who][p]
      BY <3>2 DEF HistoryInv
    <3> QED  BY <3>1, <3>2, <3>3, <3>4 DEF RequestOK, Authority!IsPlatform
  <2>2. CASE s # r
    BY <1>3, <2>2, RequestKept DEF Authority!AccountActive, RequestOK, Authority!TypeOK
  <2> QED  BY <2>1, <2>2
<1>4. ASSUME NEW s \in Requests, NEW t \in auTokens, NEW p \in Authority!Permissions,
             Authority!Admit(s, t, p)
      PROVE RequestOK(r)'
  <2>1. CASE s = r
    <3>1. /\ auReq'[r].pc = "handle" /\ auReq'[r].who = t.who /\ auReq'[r].at = auNow
          /\ auReq'[r].perm = p /\ UNCHANGED <<auNow, auOpened, auGranted>>
      BY <1>4, <2>1 DEF Authority!Admit, Authority!Idle, Authority!TypeOK
    <3>2. t.who \in Accounts /\ t.exp \in Nat /\ auNow \in Nat /\ auOpened \in Nat
      BY DEF Authority!TypeOK, Authority!Token
    <3>3. auGranted[t.who][p] \in Nat
      BY <3>2 DEF Authority!TypeOK
    <3>4. auNow < t.exp /\ t.exp <= auGranted[t.who][p] + Patience + Ttl
      BY <1>4 DEF Authority!Admit, Authority!IsValid, TokenOK
    <3>5. Authority!IsPlatform(t.who) \/ auNow < auOpened + Patience + Ttl
      BY <1>4, <3>2 DEF Authority!Admit, Authority!IsValid, TokenOK
    <3>6. auNow < auGranted[t.who][p] + Patience + Ttl /\ auNow <= auNow + Patience
      BY <3>2, <3>3, <3>4
    <3> QED  BY <3>1, <3>2, <3>5, <3>6 DEF RequestOK, Authority!IsPlatform
  <2>2. CASE s # r
    BY <1>4, <2>2, RequestKept DEF Authority!Admit, RequestOK, Authority!TypeOK
  <2> QED  BY <2>1, <2>2
<1>5. ASSUME NEW s \in Requests, Authority!Sign(s) \/ Authority!End(s) PROVE RequestOK(r)'
  <2>1. CASE s = r
    BY <1>5, <2>1 DEF Authority!Sign, Authority!End, RequestOK, Authority!TypeOK,
       Authority!Idle
  <2>2. CASE s # r
    BY <1>5, <2>2, RequestKept DEF Authority!Sign, Authority!End, RequestOK,
       Authority!TypeOK
  <2> QED  BY <2>1, <2>2
<1>6. CASE Authority!Tick
  <2>1. auReq'[r] = auReq[r]
    BY <1>6 DEF Authority!Tick
  <2>2. auReq[r].pc # "idle" => auNow' <= auReq[r].at + Patience
    <3>1. auNow' = auNow + 1 /\ (auReq[r].pc # "idle" => auNow < auReq[r].at + Patience)
      BY <1>6 DEF Authority!Tick
    <3>2. auNow \in Nat /\ auReq[r].at \in Nat
      BY DEF Authority!TypeOK, Authority!Request
    <3> QED  BY <3>1, <3>2
  <2> QED  BY <2>1, <2>2, RequestKept
<1>7. CASE UNCHANGED <<auNow, auReq>>
  BY <1>7, RequestKept DEF RequestOK
<1> QED
  BY <1>1, <1>2, <1>3, <1>4, <1>5, <1>6, <1>7 DEF Authority!Next, Authority!SetRole,
     Authority!SetStatus, auVars

(* Every token, signed before or by this step, is young enough.            *)
LEMMA TokenStep ==
    ASSUME AgeInv, Authority!TypeOK', Grows, [Authority!Next]_auVars,
           NEW t \in auTokens' PROVE TokenOK(t)'
<1> USE Lifetimes DEF Authority!AuthorityAssumption, AgeInv
<1>1. CASE t \in auTokens
  BY <1>1, TokenKept
<1>2. CASE t \notin auTokens
  <2>1. PICK r \in Requests : Authority!Sign(r)
    BY <1>2 DEF Authority!Next, Authority!Arrive, Authority!CompanyOpen,
       Authority!AccountActive,
               Authority!Admit, Authority!End, Authority!SetRole, Authority!SetStatus,
               Authority!Tick, auVars
  <2> DEFINE q == auReq[r]
  <2>2. t.who = q.who /\ t.role = q.role /\ t.exp = auNow + Ttl
    BY <1>2, <2>1 DEF Authority!Sign
  <2>3. /\ q.who \in Accounts /\ q.at \in Nat /\ auNow <= q.at + Patience
        /\ Authority!IsPlatform(q.who) \/ q.at <= auOpened
        /\ \A p \in Authority!Permissions :
              p \in Authority!PermissionsFor(q.role) => q.at <= auGranted[q.who][p]
    BY <2>1 DEF Authority!Sign, RequestOK, Authority!TypeOK, Authority!Request
  <2>4. ASSUME NEW p \in Authority!Permissions, p \in Authority!PermissionsFor(t.role)
        PROVE  t.exp <= auGranted'[t.who][p] + Patience + Ttl
    <3>1. q.at <= auGranted[q.who][p] /\ auGranted'[q.who][p] = auGranted[q.who][p]
      BY <2>1, <2>2, <2>3, <2>4 DEF Authority!Sign
    <3>2. auGranted[q.who][p] \in Nat /\ auNow \in Nat
      BY <2>3 DEF Authority!TypeOK
    <3> QED  BY <2>2, <2>3, <3>1, <3>2
  <2>5. Authority!IsPlatform(t.who) \/ t.exp <= auOpened' + Patience + Ttl
    BY <2>1, <2>2, <2>3 DEF Authority!Sign, Authority!TypeOK
  <2> QED  BY <2>4, <2>5 DEF TokenOK, Authority!IsPlatform
<1> QED  BY <1>1, <1>2

-----------------------------------------------------------------------------

(* The invariant behind AuthorityIsRecent: how old the reads of a request, *)
(* the claims of a token and the admission of a handler can be.            *)
THEOREM AgeInvariance == Authority!Spec => []AgeInv
<1>1. Authority!Init => AgeInv
  <2> SUFFICES ASSUME Authority!Init PROVE AgeInv
    OBVIOUS
  <2>1. Authority!Staleness \in Nat
    BY Lifetimes DEF Authority!AuthorityAssumption, Authority!Staleness
  <2>2. Authority!TypeOK
    BY <2>1, Lifetimes DEF Authority!AuthorityAssumption, Authority!Init, Authority!TypeOK,
       Authority!Idle, Authority!Request, Authority!Roles
  <2>3. HistoryInv
    BY <2>1, Lifetimes DEF Authority!AuthorityAssumption, Authority!Init, HistoryInv
  <2> QED  BY <2>2, <2>3 DEF Authority!Init, AgeInv, RequestOK, Authority!Idle
<1>2. AgeInv /\ [Authority!Next]_auVars => AgeInv'
  <2> SUFFICES ASSUME AgeInv, [Authority!Next]_auVars PROVE AgeInv'
    OBVIOUS
  <2>1. Authority!TypeOK'
    BY TypeStep DEF AgeInv
  <2>2. HistoryInv' /\ Grows
    BY HistoryStep DEF AgeInv
  <2>3. \A r \in Requests : RequestOK(r)'
    BY <2>1, <2>2, RequestStep
  <2>4. \A t \in auTokens' : TokenOK(t)'
    BY <2>1, <2>2, TokenStep
  <2> QED  BY <2>1, <2>2, <2>3, <2>4 DEF AgeInv
<1> QED  BY <1>1, <1>2, PTL DEF Authority!Spec, Authority!vars, auVars

(* Whatever the lifetimes: a handler that runs with a permission belongs   *)
(* to an account that had it, of a tenant that was open, within the life   *)
(* of one token and two requests (core/rbac.py trusts the claims alone).   *)
THEOREM AuthorityAges == Authority!Spec => []AuthorityIsRecent
<1>1. AgeInv => AuthorityIsRecent
  <2> SUFFICES ASSUME AgeInv, NEW r \in Requests, auReq[r].pc = "handle"
               PROVE  /\ auNow - auGranted[auReq[r].who][auReq[r].perm] < Authority!Staleness
                      /\ Authority!IsPlatform(auReq[r].who) \/ auNow - auOpened < Authority!Staleness
    BY DEF AuthorityIsRecent, Authority!AuthorityIsRecent
  <2> DEFINE q == auReq[r]
  <2>1. /\ q.who \in Accounts /\ q.perm \in Authority!Permissions /\ auNow <= q.at + Patience
        /\ q.at < auGranted[q.who][q.perm] + Patience + Ttl
        /\ Authority!IsPlatform(q.who) \/ q.at < auOpened + Patience + Ttl
    BY DEF AgeInv, RequestOK
  <2>2. auGranted[q.who][q.perm] \in Nat /\ q.at \in Nat /\ auNow \in Nat /\ auOpened \in Nat
    BY <2>1 DEF AgeInv, Authority!TypeOK, Authority!Request
  <2> QED  BY <2>1, <2>2, Lifetimes DEF Authority!AuthorityAssumption, Authority!Staleness
<1> QED  BY <1>1, AgeInvariance, PTL

-----------------------------------------------------------------------------
(* The development keys.                                                   *)

(* Who writes the files is alone with them, or the pair may be torn.       *)
WritersAlone ==
    \A p, q \in Processes :
        p # q /\ kpProc[p].pc \in KeyPair!Writing =>
            kpProc[q].pc \notin KeyPair!Reading \cup KeyPair!Writing

(* A writer holds a pair of its own, and works its way from a missing to a *)
(* written public key.                                                     *)
WriterHolds ==
    \A p \in Processes : kpProc[p].pc \in KeyPair!Writing =>
        /\ kpProc[p].private \in Keys /\ kpProc[p].public = kpProc[p].private
        /\ kpPublic \notin Keys
        /\ kpProc[p].pc # "writePublic" => kpPublic = Missing
        /\ kpProc[p].pc \in {"openPublic", "writePublic"} => kpPrivate = kpProc[p].private

(* A reader finds a pair, and the same one with its second read.           *)
ReaderFinds ==
    \A p \in Processes : kpProc[p].pc \in KeyPair!Reading =>
        /\ kpPublic \in Keys
        /\ kpProc[p].pc = "readPublic" => kpProc[p].private = kpPrivate

(* A public key that is there matches the private one; it is empty only    *)
(* while somebody writes it.                                               *)
FilesMatch ==
    /\ kpPublic \in Keys => kpPrivate = kpPublic
    /\ kpPublic \in Keys \cup {Missing}
          \/ \E p \in Processes : kpProc[p].pc = "writePublic"

(* Whatever signed did so with the key in the file, unless a pair could    *)
(* not be written.                                                         *)
SignedInFile ==
    kpLost \/ (kpSigned \subseteq {kpPrivate} /\ (kpSigned # {} => kpPublic \in Keys))

(* What holds of the files and the processes while no pair is torn. *)
Intact ==
    /\ WritersAlone /\ WriterHolds /\ ReaderFinds
    /\ FilesMatch /\ SignedInFile /\ KeyPair!PairMatches

(* The types hold in any case. *)
KeysInv == KeyPair!TypeOK /\ (~kpTorn => Intact)

(* No step of a process changes what another one holds, or mends a pair    *)
(* once torn; every step keeps the types.                                  *)
LEMMA ProcessStep ==
    ASSUME KeyPair!TypeOK, NEW p \in Processes,
           \/ KeyPair!Start(p) \/ KeyPair!Reuse(p)
           \/ KeyPair!ReadPrivate(p) \/ KeyPair!ReadPublic(p)
           \/ \E k \in Keys : KeyPair!Generate(p, k)
           \/ KeyPair!WritePrivate(p) \/ KeyPair!WritePublic(p)
           \/ KeyPair!CannotPersist(p) \/ KeyPair!Stop(p)
    PROVE  /\ KeyPair!TypeOK'
           /\ kpTorn => kpTorn'
           /\ \A q \in Processes : q # p => kpProc'[q] = kpProc[q]
<1> DEFINE Held == [pc: {"down", "check",
    "ready"} \cup KeyPair!Reading \cup KeyPair!Writing,
                    private: KeyPair!Contents, public: KeyPair!Contents]
<1>1. kpProc \in [Processes -> Held] /\ kpSigned \subseteq KeyPair!Contents /\ kpUsed \subseteq Keys
  BY DEF KeyPair!TypeOK
<1>2. \E h \in Held : kpProc' = [kpProc EXCEPT ![p] = h]
  <2>1. CASE KeyPair!Start(p)
    <3>1. [kpProc[p] EXCEPT !.pc = "check"] \in Held
      BY <1>1
    <3> QED  BY <2>1, <3>1 DEF KeyPair!Start, KeyPair!Goto
  <2>2. CASE KeyPair!Reuse(p)
    <3>1. [kpProc[p] EXCEPT !.pc = "readPrivate"] \in Held
      BY <1>1 DEF KeyPair!Reading
    <3> QED  BY <2>2, <3>1 DEF KeyPair!Reuse, KeyPair!Goto
  <2>3. CASE KeyPair!ReadPrivate(p)
    <3>1. [kpProc[p] EXCEPT !.pc = "readPublic", !.private = kpPrivate] \in Held
      BY <1>1 DEF KeyPair!Reading, KeyPair!TypeOK
    <3> QED  BY <2>3, <3>1 DEF KeyPair!ReadPrivate
  <2>4. CASE KeyPair!ReadPublic(p)
    <3>1. [kpProc[p] EXCEPT !.pc = "ready", !.public = kpPublic] \in Held
      BY <1>1 DEF KeyPair!TypeOK
    <3> QED  BY <2>4, <3>1 DEF KeyPair!ReadPublic
  <2>5. ASSUME NEW k \in Keys, KeyPair!Generate(p, k)
        PROVE  \E h \in Held : kpProc' = [kpProc EXCEPT ![p] = h]
    <3>1. [pc |-> "openPrivate", private |-> k, public |-> k] \in Held
      BY DEF KeyPair!Writing, KeyPair!Contents
    <3> QED  BY <2>5, <3>1 DEF KeyPair!Generate
  <2>6. ASSUME NEW to \in {"writePrivate", "openPublic", "writePublic", "ready"},
               KeyPair!Goto(p, to)
        PROVE  \E h \in Held : kpProc' = [kpProc EXCEPT ![p] = h]
    <3>1. [kpProc[p] EXCEPT !.pc = to] \in Held
      BY <1>1 DEF KeyPair!Writing
    <3> QED  BY <2>6, <3>1 DEF KeyPair!Goto
  <2>7. CASE KeyPair!Stop(p)
    <3>1. KeyPair!Down \in Held
      BY DEF KeyPair!Down, KeyPair!Contents
    <3> QED  BY <2>7, <3>1 DEF KeyPair!Stop
  <2> QED
    BY <2>1, <2>2, <2>3, <2>4, <2>5, <2>6, <2>7
    DEF KeyPair!WritePrivate, KeyPair!WritePublic, KeyPair!CannotPersist
<1>3. kpProc' \in [Processes -> Held] /\ \A q \in Processes : q # p =>
    kpProc'[q] = kpProc[q]
  BY <1>1, <1>2
<1>4. /\ kpPrivate' \in KeyPair!Contents /\ kpPublic' \in KeyPair!Contents
      /\ kpUsed' \subseteq Keys /\ kpSigned' \subseteq KeyPair!Contents
  BY <1>1
  DEF KeyPair!TypeOK, KeyPair!Contents, KeyPair!Start, KeyPair!Reuse, KeyPair!ReadPrivate,
      KeyPair!ReadPublic, KeyPair!Generate, KeyPair!WritePrivate, KeyPair!WritePublic,
      KeyPair!CannotPersist, KeyPair!Stop
<1>5. kpTorn' \in BOOLEAN /\ kpLost' \in BOOLEAN /\ (kpTorn => kpTorn')
  BY DEF KeyPair!TypeOK, KeyPair!Start, KeyPair!Reuse, KeyPair!ReadPrivate,
      KeyPair!ReadPublic, KeyPair!Generate, KeyPair!WritePrivate, KeyPair!WritePublic,
      KeyPair!CannotPersist, KeyPair!Stop
<1> QED  BY <1>3, <1>4, <1>5 DEF KeyPair!TypeOK

(* A process that starts, or stops outside writePublic, leaves the files   *)
(* to the others.                                                          *)
LEMMA QuietKeys ==
    ASSUME Intact, NEW p \in Processes, ~kpTorn, ~kpTorn', KeyPair!TypeOK,
           \A q \in Processes : q # p => kpProc'[q] = kpProc[q],
           KeyPair!Start(p) \/ KeyPair!Stop(p)
    PROVE  Intact'
<1>1. kpProc'[p].pc \in {"check", "down"} /\ kpProc[p].pc # "writePublic"
  <2>1. CASE KeyPair!Start(p)
    BY <2>1 DEF KeyPair!Start, KeyPair!Goto, KeyPair!At, KeyPair!TypeOK
  <2>2. CASE KeyPair!Stop(p)
    BY <2>2 DEF KeyPair!Stop, KeyPair!Down, KeyPair!At, KeyPair!TypeOK
  <2> QED  BY <2>1, <2>2
<1>2. UNCHANGED <<kpPrivate, kpPublic, kpSigned, kpLost>>
  BY DEF KeyPair!Start, KeyPair!Stop
<1> USE DEF KeyPair!Reading, KeyPair!Writing
<1>3. WritersAlone'
  BY <1>1 DEF Intact, WritersAlone
<1>4. WriterHolds'
  BY <1>1, <1>2 DEF Intact, WriterHolds
<1>5. ReaderFinds'
  BY <1>1, <1>2 DEF Intact, ReaderFinds
<1>6. KeyPair!PairMatches'
  BY <1>1 DEF Intact, KeyPair!PairMatches, KeyPair!At
<1>7. FilesMatch' /\ SignedInFile'
  BY <1>1, <1>2 DEF Intact, FilesMatch, SignedInFile
<1> QED  BY <1>3, <1>4, <1>5, <1>6, <1>7 DEF Intact

(* A process that reads finds a written pair, because nobody else writes,  *)
(* and it ends up with what is in the files.                               *)
LEMMA ReadKeys ==
    ASSUME Intact, NEW p \in Processes, ~kpTorn, ~kpTorn', KeyPair!TypeOK,
           \A q \in Processes : q # p => kpProc'[q] = kpProc[q],
           KeyPair!Reuse(p) \/ KeyPair!ReadPrivate(p) \/ KeyPair!ReadPublic(p)
    PROVE  Intact'
<1> USE DEF KeyPair!Reading, KeyPair!Writing
<1>1. /\ UNCHANGED <<kpPrivate, kpPublic, kpLost>>
      /\ kpProc[p].pc \in {"check", "readPrivate", "readPublic"}
  BY DEF KeyPair!Reuse, KeyPair!ReadPrivate, KeyPair!ReadPublic, KeyPair!At
<1>2. \A q \in Processes : kpProc[q].pc \notin KeyPair!Writing
  <2>1. CASE KeyPair!Reuse(p)
    BY <1>1, <2>1 DEF KeyPair!Reuse
  <2>2. CASE kpProc[p].pc \in KeyPair!Reading
    BY <2>2 DEF Intact, WritersAlone
  <2> QED  BY <2>1, <2>2 DEF KeyPair!ReadPrivate, KeyPair!ReadPublic, KeyPair!At
<1>3. kpPublic \in Keys /\ kpPrivate = kpPublic
  <2>1. CASE KeyPair!Reuse(p)
    BY <1>2, <2>1 DEF KeyPair!Reuse, KeyPair!Found, Intact, FilesMatch
  <2>2. CASE kpProc[p].pc \in KeyPair!Reading
    BY <2>2 DEF Intact, ReaderFinds, FilesMatch
  <2> QED  BY <2>1, <2>2 DEF KeyPair!ReadPrivate, KeyPair!ReadPublic, KeyPair!At
<1>4. \/ kpProc'[p].pc = "readPrivate" /\ kpSigned' = kpSigned
      \/ /\ kpProc'[p].pc = "readPublic" /\ kpProc'[p].private = kpPrivate
         /\ kpSigned' = kpSigned
      \/ /\ kpProc'[p].pc = "ready" /\ kpProc'[p].private = kpPrivate
         /\ kpProc'[p].public = kpPublic /\ kpSigned' = kpSigned \cup {kpPrivate}
  <2>1. CASE KeyPair!Reuse(p)
    BY <2>1 DEF KeyPair!Reuse, KeyPair!Goto, KeyPair!TypeOK
  <2>2. CASE KeyPair!ReadPrivate(p)
    BY <2>2 DEF KeyPair!ReadPrivate, KeyPair!TypeOK
  <2>3. CASE KeyPair!ReadPublic(p)
    <3>1. kpProc[p].private = kpPrivate
      BY <2>3 DEF KeyPair!ReadPublic, KeyPair!At, Intact, ReaderFinds
    <3> QED  BY <2>3, <3>1 DEF KeyPair!ReadPublic, KeyPair!TypeOK
  <2> QED  BY <2>1, <2>2, <2>3
<1>5. WritersAlone' /\ WriterHolds'
  <2>1. \A q \in Processes : kpProc'[q].pc \notin KeyPair!Writing
    BY <1>2, <1>4
  <2> QED  BY <2>1 DEF WritersAlone, WriterHolds
<1>6. ReaderFinds'
  BY <1>1, <1>3, <1>4 DEF Intact, ReaderFinds
<1>7. FilesMatch' /\ SignedInFile'
  BY <1>1, <1>3, <1>4 DEF Intact, FilesMatch, SignedInFile
<1>8. KeyPair!PairMatches'
  BY <1>3, <1>4 DEF Intact, KeyPair!PairMatches, KeyPair!At
<1> QED  BY <1>5, <1>6, <1>7, <1>8 DEF Intact

(* A process generates a pair only while no public key is there, and no    *)
(* other process is at the files.                                          *)
LEMMA GenerateKeys ==
    ASSUME Intact, NEW p \in Processes, ~kpTorn, ~kpTorn', KeyPair!TypeOK,
           \A q \in Processes : q # p => kpProc'[q] = kpProc[q],
           NEW k \in Keys, KeyPair!Generate(p, k)
    PROVE  Intact'
<1> USE DEF KeyPair!Reading, KeyPair!Writing
<1>1. /\ kpProc[p].pc = "check"
      /\ kpProc'[p].pc = "openPrivate" /\ kpProc'[p].private = k /\ kpProc'[p].public = k
      /\ UNCHANGED <<kpPrivate, kpPublic, kpSigned, kpLost>>
  BY DEF KeyPair!Generate, KeyPair!At, KeyPair!TypeOK
<1>2. \A q \in Processes \ {p} : kpProc[q].pc \notin KeyPair!Reading \cup KeyPair!Writing
  BY DEF KeyPair!Generate, KeyPair!Shared
<1>3. kpPublic = Missing /\ kpPublic \notin Keys
  <2>1. kpPublic \in Keys \cup {Missing}
    BY <1>1, <1>2 DEF Intact, FilesMatch
  <2>2. kpPrivate = Missing \/ kpPublic = Missing
    BY DEF KeyPair!Generate, KeyPair!Found
  <2>3. Missing \notin Keys
    BY InstancesAssumption DEF InstancesAssumption, KeyPair!KeyPairAssumption
  <2> QED  BY <2>1, <2>2, <2>3 DEF Intact, FilesMatch
<1>4. WritersAlone' /\ WriterHolds' /\ ReaderFinds'
  BY <1>1, <1>2, <1>3 DEF WritersAlone, WriterHolds, ReaderFinds
<1>5. FilesMatch' /\ SignedInFile'
  BY <1>1, <1>3 DEF Intact, FilesMatch, SignedInFile
<1>6. KeyPair!PairMatches'
  BY <1>1 DEF Intact, KeyPair!PairMatches, KeyPair!At
<1> QED  BY <1>4, <1>5, <1>6 DEF Intact

(* The writer is alone, so that the files go from no public key to the     *)
(* pair it holds, and nobody has signed before with the key it replaces.   *)
LEMMA WriteKeys ==
    ASSUME Intact, NEW p \in Processes, ~kpTorn, ~kpTorn', KeyPair!TypeOK,
           \A q \in Processes : q # p => kpProc'[q] = kpProc[q],
           KeyPair!WritePrivate(p) \/ KeyPair!WritePublic(p) \/ KeyPair!CannotPersist(p)
    PROVE  Intact'
<1> USE DEF KeyPair!Reading, KeyPair!Writing
<1> DEFINE key == kpProc[p].private
<1>1. /\ kpProc[p].pc \in KeyPair!Writing
      /\ key \in Keys /\ kpProc[p].public = key /\ kpPublic \notin Keys
  BY DEF KeyPair!WritePrivate, KeyPair!WritePublic, KeyPair!CannotPersist, KeyPair!At,
         Intact, WriterHolds
<1>2. \A q \in Processes \ {p} : kpProc'[q].pc \notin KeyPair!Reading \cup KeyPair!Writing
  BY <1>1 DEF Intact, WritersAlone
<1>3. kpLost \/ kpSigned = {}
  BY <1>1 DEF Intact, SignedInFile
<1>4. /\ kpProc'[p].private = key /\ kpProc'[p].public = key
      /\ \/ /\ kpProc'[p].pc = "writePrivate"
            /\ kpPublic' = Missing /\ kpPublic = Missing
            /\ UNCHANGED <<kpSigned, kpLost>>
         \/ /\ kpProc'[p].pc = "openPublic" /\ kpPrivate' = key
            /\ kpPublic' = Missing /\ kpPublic = Missing
            /\ UNCHANGED <<kpSigned, kpLost>>
         \/ /\ kpProc'[p].pc = "writePublic" /\ kpPrivate' = key /\ kpPublic' = Empty
            /\ UNCHANGED <<kpSigned, kpLost>>
         \/ /\ kpProc'[p].pc = "ready" /\ kpPrivate' = key /\ kpPublic' = key
            /\ kpSigned' = kpSigned \cup {key} /\ UNCHANGED kpLost
         \/ /\ kpProc'[p].pc = "ready" /\ kpPublic' = Missing /\ kpPublic = Missing
            /\ kpLost'
  <2>1. CASE KeyPair!WritePrivate(p)
    BY <1>1, <2>1 DEF KeyPair!WritePrivate, KeyPair!At, KeyPair!Goto, KeyPair!TypeOK,
                      Intact, WriterHolds
  <2>2. CASE KeyPair!WritePublic(p)
    BY <1>1, <2>2 DEF KeyPair!WritePublic, KeyPair!At, KeyPair!Goto, KeyPair!TypeOK,
                      Intact, WriterHolds
  <2>3. CASE KeyPair!CannotPersist(p)
    BY <1>1, <2>3 DEF KeyPair!CannotPersist, KeyPair!At, KeyPair!Goto, KeyPair!TypeOK,
                      Intact, WriterHolds
  <2> QED  BY <2>1, <2>2, <2>3
<1>5. Empty \notin Keys /\ Missing \notin Keys
  BY InstancesAssumption DEF InstancesAssumption, KeyPair!KeyPairAssumption
<1>6. WritersAlone' /\ ReaderFinds'
  BY <1>2, <1>4 DEF WritersAlone, ReaderFinds
<1>7. WriterHolds'
  BY <1>1, <1>2, <1>4, <1>5 DEF WriterHolds
<1>8. FilesMatch'
  BY <1>1, <1>4, <1>5 DEF FilesMatch
<1>9. SignedInFile'
  BY <1>1, <1>3, <1>4 DEF SignedInFile
<1>10. KeyPair!PairMatches'
  BY <1>1, <1>4 DEF Intact, KeyPair!PairMatches, KeyPair!At
<1> QED  BY <1>6, <1>7, <1>8, <1>9, <1>10 DEF Intact

(* The invariant behind the theorems about the development keys: the files *)
(* hold a pair or are being written by one process, while none is torn.    *)
THEOREM KeysInvariance == KeyPair!Spec => []KeysInv
<1>1. KeyPair!Init => KeysInv
  <2> SUFFICES ASSUME KeyPair!Init PROVE KeysInv
    OBVIOUS
  <2>1. KeyPair!TypeOK
    BY DEF KeyPair!Init, KeyPair!TypeOK, KeyPair!Contents, KeyPair!Down
  <2>2. Missing \notin Keys
    BY InstancesAssumption DEF InstancesAssumption, KeyPair!KeyPairAssumption
  <2>3. \A p \in Processes : kpProc[p].pc = "down"
    BY DEF KeyPair!Init, KeyPair!Down
  <2>4. WritersAlone /\ WriterHolds /\ ReaderFinds /\ KeyPair!PairMatches
    BY <2>3 DEF WritersAlone, WriterHolds, ReaderFinds, KeyPair!PairMatches, KeyPair!At,
                KeyPair!Reading, KeyPair!Writing
  <2>5. FilesMatch /\ SignedInFile
    BY <2>2 DEF KeyPair!Init, FilesMatch, SignedInFile
  <2> QED  BY <2>1, <2>4, <2>5 DEF KeysInv, Intact
<1>2. KeysInv /\ [KeyPair!Next]_kpVars => KeysInv'
  <2> SUFFICES ASSUME KeysInv, [KeyPair!Next]_kpVars PROVE KeysInv'
    OBVIOUS
  <2>1. CASE UNCHANGED kpVars
    BY <2>1 DEF KeysInv, Intact, WritersAlone, WriterHolds, ReaderFinds, FilesMatch,
       SignedInFile,
                KeyPair!PairMatches, KeyPair!TypeOK, KeyPair!At, kpVars
  <2>2. ASSUME NEW p \in Processes,
               \/ KeyPair!Start(p) \/ KeyPair!Reuse(p)
               \/ KeyPair!ReadPrivate(p) \/ KeyPair!ReadPublic(p)
               \/ \E k \in Keys : KeyPair!Generate(p, k)
               \/ KeyPair!WritePrivate(p) \/ KeyPair!WritePublic(p)
               \/ KeyPair!CannotPersist(p) \/ KeyPair!Stop(p)
        PROVE  KeysInv'
    <3>1. /\ KeyPair!TypeOK' /\ (kpTorn => kpTorn')
          /\ \A q \in Processes : q # p => kpProc'[q] = kpProc[q]
      BY <2>2, ProcessStep DEF KeysInv
    <3>2. ASSUME ~kpTorn' PROVE Intact'
      BY <2>2, <3>1, <3>2, QuietKeys, ReadKeys, GenerateKeys, WriteKeys DEF KeysInv
    <3> QED  BY <3>1, <3>2 DEF KeysInv
  <2> QED  BY <2>1, <2>2 DEF KeyPair!Next
<1> QED  BY <1>1, <1>2, PTL DEF KeyPair!Spec, KeyPair!vars, kpVars

(* A process verifies what it signs, however many processes start, stop    *)
(* and die: the two keys it holds are one pair, unless two were at the     *)
(* files together or public.pem was left empty (core/security.py:_keypair).*)
THEOREM PairsMatch == KeyPair!Spec => []PairMatches
<1>1. KeysInv => PairMatches
  BY DEF KeysInv, Intact, PairMatches, KeyPair!PairMatches
<1> QED  BY <1>1, KeysInvariance, PTL

(* All processes sign with one key, whenever they start, as long as the    *)
(* pair could be written and nobody else was at the files.                 *)
THEOREM TokensSurvive == KeyPair!Spec => []TokensSurviveRestart
<1>1. KeysInv => TokensSurviveRestart
  <2> SUFFICES ASSUME KeysInv, ~kpTorn, ~kpLost PROVE \A j, k \in kpSigned : j = k
    BY DEF TokensSurviveRestart, KeyPair!TokensSurviveRestart
  <2> QED  BY DEF KeysInv, Intact, SignedInFile
<1> QED  BY <1>1, KeysInvariance, PTL

(* A step of the system is a step, or a stutter, of each of its parts.     *)
LEMMA Parts ==
    ASSUME [DataMoves \/ AuthorityMoves \/ KeysMove]_<<vars, auVars, kpVars>>
    PROVE  [Next]_vars /\ [Authority!Next]_auVars /\ [KeyPair!Next]_kpVars
BY DEF DataMoves, AuthorityMoves, KeysMove

(* Each of the three behaves beside the others as it does alone, so that   *)
(* what is proved here and in TenantDataProofs holds of the whole.         *)
THEOREM TenantsCompose == TenantsSpec => Spec /\ Authority!Spec /\ KeyPair!Spec
BY Parts, PTL DEF TenantsSpec, TenantsInit, Spec, Authority!Spec, KeyPair!Spec, auVars, kpVars,
                  Authority!vars, KeyPair!vars
=============================================================================
