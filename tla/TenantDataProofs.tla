-------------------------- MODULE TenantDataProofs -------------------------
(***************************************************************************)
(* For any number of connections, tenants and columns: a request sees the  *)
(* configuration of its own tenant only, and finds it; updates merge; a    *)
(* recorded invite opens its tenant; a page is covered by its total.       *)
(***************************************************************************)
EXTENDS TenantData, TLAPS, FiniteSetTheorems

Named4 == {"create", "company", "config"}
Inserted == {"bind", "children", "invite", "commit"}
Creates(q) == q.op = "create" /\ q.pc \in Inserted

(* The stages a request of each kind goes through. *)
Staged(q) ==
    /\ q \in Request
    /\ q.op \in Named4 => q.tenant \in Slugs
    /\ q.pc = "idle" => q.op = "none"
    /\ q.pc \in {"check", "insert", "children", "invite", "commit"} => q.op = "create"
    /\ q.pc = "bind" => q.op \in {"create", "config"}
    /\ q.pc \in {"read", "write", "flushed"} => q.op \in {"company", "config"}
    /\ q.pc \in {"items", "count", "page"} => q.op = "list"

(* A connection is bound to a tenant only while it serves a request of     *)
(* that tenant, before that request reads; so it has seen no other.        *)
Bound(q, g) ==
    /\ g # None => q.op \in {"create", "config"} /\ g = q.tenant
    /\ q.op = "config" /\ q.pc # "bind" => g = q.tenant
    /\ q.saw \subseteq (IF q.op \in {"create", "config"} THEN {q.tenant} ELSE {})

(* Whether the tenant of a request exists: one being created does not yet, *)
(* and none is ever deleted.                                               *)
Placed(q) ==
    /\ q.op = "config" => Exists(q.tenant)
    /\ q.op = "company" /\ q.pc \in {"write", "flushed"} => Exists(q.tenant)
    /\ Creates(q) => ~Exists(q.tenant)

(* What a request has read of a column still holds, if it is not stale. *)
Fresh(q) ==
    q.pc \in {"write", "flushed"} =>
        \A c \in Columns \ q.stale :
            q.seen[c] = rows[IF q.op = "config" THEN "config" ELSE "companies"][q.tenant][c]

Invited(q) == q.pc = "commit" /\ q.owner.invited => mailed[q.tenant] = q.owner.password

Counted(q) ==
    /\ q.pc = "count" => q.items <= Cardinality(Tenants)
    /\ q.pc = "page" => q.items <= q.total

Good(q, g) == Staged(q) /\ Bound(q, g) /\ Placed(q) /\ Fresh(q) /\ Invited(q) /\ Counted(q)

(* A company and its configuration exist together. *)
HasConfig == \A s \in Slugs : Exists(s) <=> rows["config"][s] # None

(* Nothing was asked yet of a tenant that does not exist. *)
Untouched == \A t \in Tables, s \in Slugs : ~Exists(s) => wanted[t][s] = DefaultRow

(* The unique slug is held by one creation at a time. *)
OneCreator ==
    \A k, l \in Connections :
        Creates(req[k]) /\ Creates(req[l]) /\ req[k].tenant = req[l].tenant => k = l

Committed == HasConfig /\ Untouched /\ InviteOpensTenant /\ UpdatesMerge

DataInv ==
    /\ TypeOK /\ Committed /\ OneCreator
    /\ \A k \in Connections : Good(req[k], guc[k])

-----------------------------------------------------------------------------

(* A connection at rest satisfies the invariant whatever is committed. *)
LEMMA IdleIsGood == \A g : g = None => Good(Idle, g)
BY TenantAssumption
DEF Good, Idle, Request, Stages, NoOwner, Owner, Payload, Nothing, Staged, Bound,
    Placed, Creates, Fresh, Invited, Counted, Named4, Inserted

(* There are finitely many tenants. *)
LEMMA TenantsFinite == Tenants \subseteq Slugs /\ Cardinality(Tenants) \in Nat
BY TenantAssumption, FS_Subset, FS_CardinalityType DEF Tenants

(* A step that changes one request and nothing that is committed. *)
LEMMA LocalStep ==
    ASSUME DataInv, NEW k \in Connections, NEW q, NEW g,
           req' = [req EXCEPT ![k] = q], guc' = [guc EXCEPT ![k] = g],
           Good(q, g), g \in Slugs \cup {None}, writes' \in 0..MaxWrites,
           UNCHANGED <<tables, mailed, wanted>>,
           Creates(q) => \/ Creates(req[k]) /\ req[k].tenant = q.tenant
                         \/ IsFree("companies", q.tenant)
    PROVE  DataInv'
<1>1. TypeOK'
  BY DEF DataInv, TypeOK, Good, Staged, tables
<1>2. Committed'
  BY DEF DataInv, Committed, HasConfig, Untouched, InviteOpensTenant, UpdatesMerge, Exists,
         tables
<1>3. OneCreator'
  <2> SUFFICES ASSUME NEW a \in Connections, NEW b \in Connections,
                      Creates(req'[a]), Creates(req'[b]), req'[a].tenant = req'[b].tenant
               PROVE  a = b
    BY DEF OneCreator, Creates
  <2>1. \A l \in Connections \ {k} : Creates(q) /\ Creates(req[l]) => req[l].tenant # q.tenant
    BY DEF DataInv, OneCreator, IsFree, Holds, Creates, Inserted
  <2> QED  BY <2>1 DEF DataInv, OneCreator, TypeOK
<1>4. ASSUME NEW l \in Connections PROVE Good(req[l], guc[l])'
  <2>1. Good(req'[l], guc'[l])
    BY DEF DataInv, TypeOK
  <2>2. rows' = rows /\ mailed' = mailed
    BY DEF tables
  <2> QED
    BY <2>1, <2>2 DEF Good, Staged, Bound, Placed, Fresh, Invited, Counted, Creates, Exists, Tenants
<1> QED  BY <1>1, <1>2, <1>3, <1>4 DEF DataInv

-----------------------------------------------------------------------------

(* The step of Proceed and the end of a transaction, as a local step.      *)
LEMMA ProceedStep ==
    ASSUME DataInv, NEW k \in Connections, NEW q, Proceed(k, q), UNCHANGED guc,
           writes' \in 0..MaxWrites, Good(q, guc[k]),
           Creates(q) => \/ Creates(req[k]) /\ req[k].tenant = q.tenant
                         \/ IsFree("companies", q.tenant)
    PROVE  DataInv'
<1>1. guc' = [guc EXCEPT ![k] = guc[k]] /\ guc[k] \in Slugs \cup {None}
  BY DEF DataInv, TypeOK
<1> QED  BY <1>1, LocalStep DEF Proceed

(* The end of a transaction that has changed nothing. *)
LEMMA LeaveStep ==
    ASSUME DataInv, NEW k \in Connections, Leave(k) PROVE DataInv'
<1>1. Good(Idle, None) /\ ~Creates(Idle)
  BY IdleIsGood DEF Idle, Creates
<1>2. writes' \in 0..MaxWrites
  BY DEF Leave, DataInv, TypeOK
<1>3. UNCHANGED <<tables, mailed, wanted>>
  BY DEF Leave
<1> QED  BY <1>1, <1>2, <1>3, LocalStep DEF Leave, GucAfter

(* A connection at rest is bound to no tenant. *)
LEMMA RestIsUnbound ==
    ASSUME DataInv, NEW k \in Connections, req[k].pc = "idle" PROVE guc[k] = None
BY DEF DataInv, Good, Staged, Bound

(* The arrivals. *)
LEMMA CreateArrivesStep ==
    ASSUME DataInv, NEW k \in Connections, NEW s \in Slugs, CreateArrives(k, s)
    PROVE  DataInv'
<1> DEFINE q == [Idle EXCEPT !.pc = "check", !.op = "create",
                             !.id = writes + 1, !.tenant = s]
<1>1. writes' = writes + 1 /\ writes' \in 0..MaxWrites
  BY TenantAssumption DEF CreateArrives, DataInv, TypeOK
<1>2. q \in Request
  BY <1>1, IdleIsGood DEF Good, Staged, Request, Stages
<1>3. guc[k] = None
  BY RestIsUnbound DEF CreateArrives
<1>4. /\ q.pc = "check" /\ q.op = "create" /\ q.tenant = s /\ q.saw = {}
  BY DEF Idle
<1>5. Good(q, guc[k])
  BY <1>2, <1>3, <1>4
  DEF Good, Staged, Bound, Placed, Creates, Fresh, Invited, Counted, Named4, Inserted
<1>6. ~Creates(q)
  BY <1>4 DEF Creates, Inserted
<1> QED  BY <1>1, <1>5, <1>6, ProceedStep DEF CreateArrives

(* An update, of a company or of a configuration. *)
LEMMA UpdateArrivesStep ==
    ASSUME DataInv, NEW k \in Connections, NEW op \in {"company", "config"},
           NEW s \in Slugs, NEW payload \in Payload, UpdateArrives(k, op, s, payload)
    PROVE  DataInv'
<1> DEFINE q == [Idle EXCEPT !.pc = IF op = "config" THEN "bind" ELSE "read",
                             !.op = op, !.tenant = s, !.payload = payload]
<1>1. writes' \in 0..MaxWrites
  BY TenantAssumption DEF UpdateArrives, DataInv, TypeOK
<1>2. q \in Request
  BY IdleIsGood DEF Good, Staged, Request, Stages
<1>3. guc[k] = None
  BY RestIsUnbound DEF UpdateArrives
<1>4. /\ q.pc = (IF op = "config" THEN "bind" ELSE "read")
      /\ q.op = op /\ q.tenant = s /\ q.saw = {}
  BY DEF Idle
<1>5. op = "config" => Exists(s)
  BY DEF UpdateArrives
<1>6. Good(q, guc[k]) /\ ~Creates(q)
  BY <1>2, <1>3, <1>4, <1>5
  DEF Good, Staged, Bound, Placed, Creates, Fresh, Invited, Counted, Named4, Inserted
<1> QED  BY <1>1, <1>6, ProceedStep DEF UpdateArrives

(* A listing. *)
LEMMA ListArrivesStep ==
    ASSUME DataInv, NEW k \in Connections, ListArrives(k) PROVE DataInv'
<1> DEFINE q == [Idle EXCEPT !.pc = "items", !.op = "list"]
<1>1. q \in Request
  BY IdleIsGood DEF Good, Staged, Request, Stages
<1>2. guc[k] = None
  BY RestIsUnbound DEF ListArrives
<1>3. q.pc = "items" /\ q.op = "list" /\ q.saw = {}
  BY DEF Idle
<1>4. Good(q, guc[k]) /\ ~Creates(q)
  BY <1>1, <1>2, <1>3
  DEF Good, Staged, Bound, Placed, Creates, Fresh, Invited, Counted, Named4, Inserted
<1>5. writes' \in 0..MaxWrites
  BY DEF ListArrives, DataInv, TypeOK
<1> QED  BY <1>4, <1>5, ProceedStep DEF ListArrives

-----------------------------------------------------------------------------

(* Statements of a creation before its commit. *)
LEMMA CreationStep ==
    ASSUME DataInv, NEW k \in Connections,
           SlugLooksFree(k) \/ InsertCompany(k) \/ InsertChildren(k)
    PROVE  DataInv'
<1> DEFINE q == req[k]
<1>0. Good(q, guc[k]) /\ writes' \in 0..MaxWrites /\ UNCHANGED guc
  BY DEF DataInv, TypeOK, SlugLooksFree, InsertCompany, InsertChildren
<1>1. CASE SlugLooksFree(k)
  <2> DEFINE n == [q EXCEPT !.pc = "insert"]
  <2>1. n \in Request /\ n.pc = "insert" /\ n.op = q.op /\ n.tenant = q.tenant /\ n.saw = q.saw
    BY <1>0 DEF Good, Staged, Request, Stages
  <2>2. q.op = "create" /\ ~Creates(n)
    BY <1>0, <1>1, <2>1 DEF SlugLooksFree, Good, Staged, Creates, Inserted
  <2>3. Good(n, guc[k])
    BY <1>0, <2>1, <2>2
    DEF Good, Staged, Bound, Placed, Fresh, Invited, Counted, Named4
  <2> QED  BY <1>0, <1>1, <2>2, <2>3, ProceedStep DEF SlugLooksFree
<1>2. CASE InsertCompany(k)
  <2> DEFINE n == [q EXCEPT !.pc = "bind"]
  <2>1. n \in Request /\ n.pc = "bind" /\ n.op = q.op /\ n.tenant = q.tenant /\ n.saw = q.saw
    BY <1>0 DEF Good, Staged, Request, Stages
  <2>2. q.op = "create" /\ ~Exists(q.tenant) /\ IsFree("companies", q.tenant)
    BY <1>0, <1>2 DEF InsertCompany, MayInsert, Good, Staged
  <2>3. Good(n, guc[k])
    BY <1>0, <2>1, <2>2
    DEF Good, Staged, Bound, Placed, Fresh, Invited, Counted, Named4, Creates
  <2> QED  BY <1>0, <1>2, <2>1, <2>2, <2>3, ProceedStep DEF InsertCompany
<1>3. CASE InsertChildren(k)
  <2> DEFINE n == [q EXCEPT !.pc = "invite", !.owner.password = q.id]
  <2>1. n \in Request /\ n.pc = "invite" /\ n.op = q.op /\ n.tenant = q.tenant /\ n.saw = q.saw
    BY <1>0 DEF Good, Staged, Request, Stages, Owner
  <2>2. q.op = "create" /\ Creates(q)
    BY <1>0, <1>3 DEF InsertChildren, Good, Staged, Creates, Inserted
  <2>3. Good(n, guc[k])
    BY <1>0, <2>1, <2>2
    DEF Good, Staged, Bound, Placed, Fresh, Invited, Counted, Named4, Creates, Inserted
  <2> QED  BY <1>0, <1>3, <2>1, <2>2, <2>3, ProceedStep DEF InsertChildren
<1> QED  BY <1>1, <1>2, <1>3

(* The tenant is bound before anything of it is written or read. *)
LEMMA BindStep ==
    ASSUME DataInv, NEW k \in Connections, Bind(k) PROVE DataInv'
<1> DEFINE q == req[k]
           n == [q EXCEPT !.pc = IF q.op = "create" THEN "children" ELSE "read"]
<1>0. Good(q, guc[k]) /\ writes' \in 0..MaxWrites
  BY DEF DataInv, TypeOK, Bind
<1>1. n \in Request /\ n.op = q.op /\ n.tenant = q.tenant /\ n.saw = q.saw
      /\ n.pc = (IF q.op = "create" THEN "children" ELSE "read")
  BY <1>0 DEF Good, Staged, Request, Stages
<1>2. q.op \in {"create", "config"} /\ q.pc = "bind" /\ q.tenant \in Slugs
  BY <1>0 DEF Bind, Good, Staged, Named4
<1>3. Good(n, q.tenant)
  BY <1>0, <1>1, <1>2
  DEF Good, Staged, Bound, Placed, Fresh, Invited, Counted, Named4, Creates, Inserted
<1>4. Creates(n) => Creates(q) /\ q.tenant = n.tenant
  BY <1>1, <1>2 DEF Creates, Inserted
<1>5. /\ req' = [req EXCEPT ![k] = n] /\ guc' = [guc EXCEPT ![k] = q.tenant]
      /\ UNCHANGED <<tables, mailed, wanted>>
  BY DEF Bind, Proceed
<1> QED  BY <1>0, <1>2, <1>3, <1>4, <1>5, LocalStep

-----------------------------------------------------------------------------

(* The read and the flush of an update. *)
LEMMA ReadStep ==
    ASSUME DataInv, NEW k \in Connections, ReadRow(k) PROVE DataInv'
<1> DEFINE q == req[k]
           n == [q EXCEPT !.pc = "write", !.saw = Visible(k),
                          !.seen = rows[TableOf(k)][q.tenant]]
<1>0. Good(q, guc[k]) /\ writes' \in 0..MaxWrites /\ UNCHANGED guc
  BY DEF DataInv, TypeOK, ReadRow
<1>1. q.op \in {"company", "config"} /\ q.pc = "read" /\ q.tenant \in Slugs /\ ~Misses(k)
  BY <1>0 DEF ReadRow, Good, Staged, Named4
<1>2. Exists(q.tenant)
  BY <1>1 DEF Misses, Visible, DataInv, Committed, HasConfig
<1>3. rows[TableOf(k)][q.tenant] \in [Columns -> Values]
  BY <1>1, <1>2 DEF Exists, TableOf, Tables, DataInv, Committed, HasConfig, TypeOK
<1>4. rows[TableOf(k)][q.tenant] \in Payload
  BY <1>3 DEF Payload
<1>5. Visible(k) \subseteq Slugs /\ \A s \in Visible(k) : guc[k] = s
  BY DEF Visible
<1>6. n \in Request /\ n.pc = "write" /\ n.op = q.op /\ n.tenant = q.tenant
      /\ n.saw = Visible(k) /\ n.seen = rows[TableOf(k)][q.tenant]
  BY <1>0, <1>4, <1>5 DEF Good, Staged, Request, Stages
<1>7. n.saw \subseteq (IF n.op \in {"create", "config"} THEN {n.tenant} ELSE {})
  BY <1>0, <1>1, <1>5, <1>6, TenantAssumption DEF Good, Bound
<1>8. Good(n, guc[k]) /\ ~Creates(n)
  BY <1>0, <1>1, <1>2, <1>6, <1>7
  DEF Good, Staged, Bound, Placed, Fresh, Invited, Counted, Named4, Creates, Inserted, TableOf
<1> QED  BY <1>0, <1>8, ProceedStep DEF ReadRow

(* A flush takes the row lock, and what was read stays. *)
LEMMA FlushStep ==
    ASSUME DataInv, NEW k \in Connections, Flush(k) PROVE DataInv'
<1> DEFINE q == req[k]
           n == [q EXCEPT !.pc = "flushed"]
<1>0. Good(q, guc[k]) /\ writes' \in 0..MaxWrites /\ UNCHANGED guc /\ q.pc = "write"
  BY DEF DataInv, TypeOK, Flush
<1>1. n \in Request /\ n.pc = "flushed" /\ n.op = q.op /\ n.tenant = q.tenant
      /\ n.saw = q.saw /\ n.seen = q.seen /\ n.stale = q.stale
  BY <1>0 DEF Good, Staged, Request, Stages
<1>2. Good(n, guc[k]) /\ ~Creates(n)
  BY <1>0, <1>1
  DEF Good, Staged, Bound, Placed, Fresh, Invited, Counted, Named4, Creates, Inserted
<1> QED  BY <1>0, <1>2, ProceedStep DEF Flush

(* A page of companies, then their number. *)
LEMMA ListStep ==
    ASSUME DataInv, NEW k \in Connections, ListItems(k) \/ ListCount(k) PROVE DataInv'
<1> DEFINE q == req[k]
<1>0. Good(q, guc[k]) /\ writes' \in 0..MaxWrites /\ UNCHANGED guc
  BY DEF DataInv, TypeOK, ListItems, ListCount
<1>1. CASE ListItems(k)
  <2> DEFINE n == [q EXCEPT !.pc = "count", !.saw = Visible(k), !.items = Cardinality(Tenants)]
  <2>1. q.op = "list"
    BY <1>0, <1>1 DEF ListItems, Good, Staged
  <2>2. Visible(k) = {}
    BY <1>0, <2>1, TenantAssumption DEF Visible, Good, Bound
  <2>3. n \in Request /\ n.pc = "count" /\ n.op = "list" /\ n.saw = {}
        /\ n.items = Cardinality(Tenants)
    BY <1>0, <2>1, <2>2, TenantsFinite DEF Good, Staged, Request, Stages
  <2>4. Good(n, guc[k]) /\ ~Creates(n)
    BY <1>0, <2>1, <2>3, TenantsFinite
    DEF Good, Staged, Bound, Placed, Fresh, Invited, Counted, Named4, Creates
  <2> QED  BY <1>0, <1>1, <2>4, ProceedStep DEF ListItems
<1>2. CASE ListCount(k)
  <2> DEFINE n == [q EXCEPT !.pc = "page", !.items = q.items, !.total = Cardinality(Tenants)]
  <2>1. q.op = "list" /\ q.items <= Cardinality(Tenants)
    BY <1>0, <1>2 DEF ListCount, Good, Staged, Counted
  <2>2. n \in Request /\ n.pc = "page" /\ n.op = "list" /\ n.saw = q.saw
        /\ n.items = q.items /\ n.total = Cardinality(Tenants)
    BY <1>0, <2>1, TenantsFinite DEF Good, Staged, Request, Stages
  <2>3. Good(n, guc[k]) /\ ~Creates(n)
    BY <1>0, <2>1, <2>2
    DEF Good, Staged, Bound, Placed, Fresh, Invited, Counted, Named4, Creates
  <2>4. Proceed(k, n)
    BY <1>2 DEF ListCount, Page
  <2> QED  BY <1>0, <2>3, <2>4, ProceedStep
<1> QED  BY <1>1, <1>2

-----------------------------------------------------------------------------

(* Steps that commit, or mail. *)
LEMMA SendInviteStep ==
    ASSUME DataInv, NEW k \in Connections, NEW delivered \in BOOLEAN,
           NEW reported \in BOOLEAN, SendInvite(k, delivered, reported)
    PROVE  DataInv'
<1> DEFINE q == req[k]
           n == [q EXCEPT !.pc = "commit", !.owner.invited = reported]
<1>0. Good(q, guc[k]) /\ q.pc = "invite"
  BY DEF DataInv, SendInvite
<1>1. /\ n \in Request /\ n.pc = "commit" /\ n.op = q.op /\ n.tenant = q.tenant
      /\ n.saw = q.saw /\ n.owner.invited = reported /\ n.owner.password = q.owner.password
      /\ q.owner.password \in 0..MaxWrites
  BY <1>0 DEF Good, Staged, Request, Stages, Owner
<1>2. q.op = "create" /\ q.tenant \in Slugs /\ Creates(q) /\ ~Exists(q.tenant)
  BY <1>0 DEF Good, Staged, Placed, Creates, Inserted, Named4
<1>3. /\ req' = [req EXCEPT ![k] = n]
      /\ UNCHANGED <<rows, owner, guc, writes, wanted>>
      /\ \A s \in Slugs : s # q.tenant => mailed'[s] = mailed[s]
      /\ mailed' \in [Slugs -> 0..MaxWrites]
      /\ reported => mailed'[q.tenant] = q.owner.password
  <2>1. /\ req' = [req EXCEPT ![k] = n]
        /\ UNCHANGED <<rows, owner, guc, writes, wanted>>
    BY DEF SendInvite, tables
  <2>2. mailed \in [Slugs -> 0..MaxWrites]
    BY DEF DataInv, TypeOK
  <2>3. CASE delivered
    <3>1. mailed' = [mailed EXCEPT ![q.tenant] = q.owner.password]
      BY <2>3 DEF SendInvite
    <3> QED  BY <1>1, <1>2, <2>1, <2>2, <3>1
  <2>4. CASE ~delivered
    <3>1. mailed' = mailed /\ ~reported
      BY <2>4 DEF SendInvite
    <3> QED  BY <2>1, <2>2, <3>1
  <2> QED  BY <2>3, <2>4
<1>4. TypeOK'
  BY <1>1, <1>3 DEF DataInv, TypeOK
<1>5. Committed'
  BY <1>2, <1>3 DEF DataInv, Committed, HasConfig, Untouched, InviteOpensTenant, UpdatesMerge,
                    Exists
<1>6. Creates(n)
  BY <1>1, <1>2 DEF Creates, Inserted
<1>7. OneCreator'
  <2> SUFFICES ASSUME NEW a \in Connections, NEW b \in Connections,
                      Creates(req'[a]), Creates(req'[b]), req'[a].tenant = req'[b].tenant
               PROVE  a = b
    BY DEF OneCreator, Creates
  <2> QED  BY <1>1, <1>2, <1>3 DEF DataInv, OneCreator, TypeOK
<1>8. ASSUME NEW l \in Connections PROVE Good(req[l], guc[l])'
  <2>1. CASE l = k
    <3>1. req'[l] = n /\ guc'[l] = guc[k]
      BY <1>3, <2>1 DEF DataInv, TypeOK
    <3> HIDE DEF n
    <3> QED
      BY <1>0, <1>1, <1>2, <1>3, <3>1
      DEF Good, Staged, Bound, Placed, Fresh, Invited, Counted, Named4, Creates, Inserted, Exists
  <2>2. CASE l # k
    <3>1. req'[l] = req[l] /\ guc'[l] = guc[l] /\ rows' = rows /\ Good(req[l], guc[l])
      BY <1>3, <2>2 DEF DataInv, TypeOK
    <3>2. Invited(req[l])'
      <4> SUFFICES ASSUME req[l].pc = "commit", req[l].owner.invited
                   PROVE  mailed'[req[l].tenant] = req[l].owner.password
        BY <3>1 DEF Invited
      <4>1. req[l].tenant \in Slugs /\ Creates(req[l])
        BY <3>1 DEF Good, Staged, Creates, Inserted, Named4
      <4>2. req[l].tenant # q.tenant
        BY <1>2, <2>2, <4>1 DEF DataInv, OneCreator
      <4> QED  BY <1>3, <3>1, <4>1, <4>2 DEF Good, Invited
    <3> QED
      BY <3>1, <3>2 DEF Good, Staged, Bound, Placed, Fresh, Counted, Creates, Exists, Tenants
  <2> QED  BY <2>1, <2>2
<1> QED  BY <1>4, <1>5, <1>7, <1>8 DEF DataInv

(* What every end of a transaction leaves its connection with. *)
LEMMA EndedStep ==
    ASSUME DataInv, NEW k \in Connections,
           req' = [req EXCEPT ![k] = Idle], guc' = GucAfter(k)
    PROVE  /\ req' \in [Connections -> Request] /\ guc' \in [Connections -> Slugs \cup {None}]
           /\ OneCreator'
           /\ req'[k] = Idle /\ guc'[k] = None
           /\ \A l \in Connections \ {k} : req'[l] = req[l] /\ guc'[l] = guc[l]
<1>1. Idle \in Request /\ ~Creates(Idle)
  BY IdleIsGood DEF Good, Staged, Idle, Creates
<1>2. /\ req' \in [Connections -> Request] /\ guc' \in [Connections -> Slugs \cup {None}]
      /\ req'[k] = Idle /\ guc'[k] = None
      /\ \A l \in Connections \ {k} : req'[l] = req[l] /\ guc'[l] = guc[l]
  BY <1>1 DEF DataInv, TypeOK, GucAfter
<1>3. OneCreator'
  <2> SUFFICES ASSUME NEW a \in Connections, NEW b \in Connections,
                      Creates(req'[a]), Creates(req'[b]), req'[a].tenant = req'[b].tenant
               PROVE  a = b
    BY DEF OneCreator, Creates
  <2> QED  BY <1>1, <1>2 DEF DataInv, OneCreator
<1> QED  BY <1>2, <1>3

(* A commit of a creation makes the tenant, its configuration and its owner. *)
LEMMA CommitCreateStep ==
    ASSUME DataInv, NEW k \in Connections, CommitCreate(k) PROVE DataInv'
<1>0. PICK q, s : q = req[k] /\ s = req[k].tenant
  OBVIOUS
<1>a. Good(q, guc[k]) /\ q.pc = "commit" /\ s = q.tenant
  BY <1>0 DEF DataInv, CommitCreate
<1>1. q.op = "create" /\ s \in Slugs /\ Creates(q) /\ ~Exists(s) /\ q.owner \in Owner
  BY <1>a DEF Good, Staged, Placed, Creates, Inserted, Named4, Request
<1>2. DefaultRow \in [Columns -> Values] /\ DefaultRow # None
  BY TenantAssumption DEF DefaultRow
<1>3. /\ rows' \in [Tables -> [Slugs -> [Columns -> Values] \cup {None}]]
      /\ \A t \in Tables : rows'[t][s] = DefaultRow
      /\ \A t \in Tables, u \in Slugs \ {s} : rows'[t][u] = rows[t][u]
  BY <1>0, <1>1, <1>2 DEF CommitCreate, CreatedTables, DataInv, TypeOK
<1>4. /\ owner' \in [Slugs -> Owner] /\ owner'[s] = q.owner
      /\ \A u \in Slugs \ {s} : owner'[u] = owner[u]
      /\ UNCHANGED <<mailed, writes, wanted>>
  BY <1>0, <1>1 DEF CommitCreate, DataInv, TypeOK
<1>5. /\ req' = [req EXCEPT ![k] = Idle] /\ guc' = GucAfter(k)
  BY DEF CommitCreate
<1>6. TypeOK'
  BY <1>3, <1>4, <1>5, EndedStep DEF DataInv, TypeOK
<1>7. /\ Exists(s)' /\ \A u \in Slugs \ {s} : Exists(u)' <=> Exists(u)
  BY <1>1, <1>2, <1>3 DEF Exists, Tables
<1>8. Committed'
  <2>1. HasConfig' /\ Untouched'
    BY <1>1, <1>2, <1>3, <1>4, <1>7 DEF DataInv, Committed, HasConfig, Untouched, Tables
  <2>2. InviteOpensTenant'
    BY <1>a, <1>1, <1>4, <1>7 DEF DataInv, Committed, InviteOpensTenant, Good, Invited
  <2>3. UpdatesMerge'
    <3> SUFFICES ASSUME NEW t \in Tables, NEW u \in Slugs, NEW c \in Columns,
                        rows'[t][u] # None, wanted[t][u][c] # None
                 PROVE  rows'[t][u][c] = wanted[t][u][c]
      BY <1>4 DEF UpdatesMerge
    <3>1. CASE u = s
      BY <1>1, <1>3, <3>1 DEF DataInv, Committed, Untouched
    <3>2. CASE u # s
      BY <1>3, <3>2 DEF DataInv, Committed, UpdatesMerge
    <3> QED  BY <3>1, <3>2
  <2> QED  BY <2>1, <2>2, <2>3 DEF Committed
<1>9. Cardinality(Tenants) <= Cardinality(Tenants') /\ Cardinality(Tenants') \in Nat
  <2>1. Tenants \subseteq Tenants' /\ Tenants' \subseteq Slugs
    BY <1>7 DEF Tenants
  <2>2. IsFiniteSet(Tenants')
    BY <2>1, TenantAssumption, FS_Subset
  <2> QED  BY <2>1, <2>2, FS_Subset, FS_CardinalityType
<1>10. ASSUME NEW l \in Connections PROVE Good(req[l], guc[l])'
  <2>1. CASE l = k
    <3>1. req'[l] = Idle /\ guc'[l] = None
      BY <1>5, <2>1, EndedStep
    <3>2. /\ Idle \in Request /\ Idle.pc = "idle" /\ Idle.op = "none" /\ Idle.saw = {}
      BY IdleIsGood DEF Good, Staged, Idle
    <3> QED
      BY <3>1, <3>2
      DEF Good, Staged, Bound, Placed, Fresh, Invited, Counted, Named4, Creates, Inserted
  <2>2. CASE l # k
    <3>0. PICK r, g : r = req[l] /\ g = guc[l]
      OBVIOUS
    <3>1. req'[l] = r /\ guc'[l] = g /\ Good(r, g)
      BY <3>0, <1>5, <2>2, EndedStep DEF DataInv
    <3>2. /\ r \in Request
          /\ r.op \in Named4 => r.tenant \in Slugs
          /\ Creates(r) => r.tenant # s
      BY <1>0, <1>a, <1>1, <2>2, <3>0, <3>1 DEF DataInv, OneCreator, Good, Staged
    <3>3. Placed(r)'
      BY <1>7, <3>1, <3>2 DEF Good, Placed, Named4, Creates
    <3>4. Fresh(r)'
      <4> SUFFICES ASSUME r.pc \in {"write", "flushed"} PROVE r.tenant # s /\ r.tenant \in Slugs
        BY <1>3, <3>1 DEF Good, Fresh, Tables
      <4> QED  BY <1>1, <3>1, <3>2 DEF Good, Staged, Placed, Named4
    <3>5. Counted(r)'
      BY <1>9, <3>1, <3>2, TenantsFinite DEF Good, Counted, Request
    <3>6. Staged(r)' /\ Bound(r, g)' /\ Invited(r)'
      BY <1>4, <3>1 DEF Good, Staged, Bound, Invited
    <3> QED  BY <3>1, <3>3, <3>4, <3>5, <3>6 DEF Good
  <2> QED  BY <2>1, <2>2
<1> QED  BY <1>5, <1>6, <1>8, <1>10, EndedStep DEF DataInv

(* What a commit leaves in the history of the rows it did not name. *)
LEMMA RememberStep ==
    ASSUME DataInv, NEW k \in Connections, Remember(k), req[k].tenant \in Slugs,
           req[k].pc \in {"write", "flushed"}
    PROVE  /\ wanted' \in [Tables -> [Slugs -> Payload]]
           /\ \A t \in Tables, u \in Slugs :
                 t # TableOf(k) \/ u # req[k].tenant => wanted'[t][u] = wanted[t][u]
           /\ \A c \in Columns :
                 wanted'[TableOf(k)][req[k].tenant][c] =
                    IF c \notin Named(k) THEN wanted[TableOf(k)][req[k].tenant][c]
                    ELSE IF c \in req[k].stale THEN None ELSE req[k].payload[c]
<1> DEFINE T == TableOf(k)
           s == req[k].tenant
           n == [c \in Columns |-> IF c \notin Named(k) THEN wanted[T][s][c]
                                   ELSE IF c \in req[k].stale THEN None
                                   ELSE req[k].payload[c]]
<1>1. T \in Tables /\ req[k].payload \in Payload
  BY DEF TableOf, Tables, DataInv, TypeOK, Request
<1>2. wanted \in [Tables -> [Slugs -> Payload]]
  BY DEF DataInv, TypeOK
<1>3. n \in Payload
  BY <1>1, <1>2 DEF Payload
<1>4. wanted' = [wanted EXCEPT ![T][s] = n]
  BY <1>1, <1>2 DEF Remember
<1> HIDE DEF T, n
<1>5. wanted' \in [Tables -> [Slugs -> Payload]] /\ wanted'[T][s] = n
  BY <1>1, <1>2, <1>3, <1>4
<1>6. \A t \in Tables, u \in Slugs : t # T \/ u # s => wanted'[t][u] = wanted[t][u]
  BY <1>1, <1>2, <1>4
<1> QED  BY <1>5, <1>6 DEF T, n

(* A commit that changed nothing still asks for what it names. *)
LEMMA CommitReadStep ==
    ASSUME DataInv, NEW k \in Connections, CommitRead(k) PROVE DataInv'
<1> DEFINE T == TableOf(k)
<1>0. PICK q, s : q = req[k] /\ s = req[k].tenant
  OBVIOUS
<1>1. Good(q, guc[k]) /\ q.pc = "write" /\ s = q.tenant /\ Changed(k) = {}
  BY <1>0 DEF DataInv, CommitRead
<1>2. s \in Slugs /\ q.op \in {"company", "config"} /\ Exists(s) /\ T \in Tables
  BY <1>1 DEF Good, Staged, Placed, Named4, TableOf, Tables
<1>3. UNCHANGED <<rows, owner, mailed, writes>> /\ req' = [req EXCEPT ![k] = Idle]
      /\ guc' = GucAfter(k) /\ Remember(k)
  BY DEF CommitRead, tables
<1>4. /\ wanted' \in [Tables -> [Slugs -> Payload]]
      /\ \A t \in Tables, u \in Slugs : t # T \/ u # s => wanted'[t][u] = wanted[t][u]
      /\ \A c \in Columns :
            wanted'[T][s][c] = IF c \notin Named(k) THEN wanted[T][s][c]
                               ELSE IF c \in q.stale THEN None ELSE q.payload[c]
  BY <1>0, <1>1, <1>2, <1>3, RememberStep
<1>5. TypeOK'
  BY <1>3, <1>4, EndedStep DEF DataInv, TypeOK
<1>6. \A c \in Named(k) \ q.stale : rows[T][s][c] = q.payload[c]
  BY <1>0, <1>1 DEF Changed, Named, Good, Fresh, TableOf
<1>7. UpdatesMerge'
  <2> SUFFICES ASSUME NEW t \in Tables, NEW u \in Slugs, NEW c \in Columns,
                      rows[t][u] # None, wanted'[t][u][c] # None
               PROVE  rows[t][u][c] = wanted'[t][u][c]
    BY <1>3 DEF UpdatesMerge
  <2>1. CASE t = T /\ u = s /\ c \in Named(k)
    BY <1>4, <1>6, <2>1
  <2>2. CASE ~(t = T /\ u = s /\ c \in Named(k))
    BY <1>4, <2>2 DEF DataInv, Committed, UpdatesMerge
  <2> QED  BY <2>1, <2>2
<1>8. Committed'
  <2>1. HasConfig' /\ InviteOpensTenant'
    BY <1>3 DEF DataInv, Committed, HasConfig, InviteOpensTenant, Exists
  <2>2. Untouched'
    BY <1>2, <1>3, <1>4 DEF DataInv, Committed, Untouched, Exists
  <2> QED  BY <1>7, <2>1, <2>2 DEF Committed
<1>9. ASSUME NEW l \in Connections PROVE Good(req[l], guc[l])'
  <2>1. CASE l = k
    <3>1. Good(Idle, None) /\ req'[l] = Idle /\ guc'[l] = None
      BY <1>3, <2>1, EndedStep, IdleIsGood
    <3> QED
      BY <1>3, <3>1 DEF Good, Staged, Bound, Placed, Fresh, Invited, Counted, Creates, Exists, Tenants
  <2>2. CASE l # k
    <3>1. req'[l] = req[l] /\ guc'[l] = guc[l] /\ Good(req[l], guc[l])
      BY <1>3, <2>2, EndedStep DEF DataInv
    <3> QED
      BY <1>3, <3>1 DEF Good, Staged, Bound, Placed, Fresh, Invited, Counted, Creates, Exists, Tenants
  <2> QED  BY <2>1, <2>2
<1> QED  BY <1>3, <1>5, <1>8, <1>9, EndedStep DEF DataInv

(* A commit that changed columns of an existing row. *)
LEMMA CommitUpdateStep ==
    ASSUME DataInv, NEW k \in Connections, CommitUpdate(k) PROVE DataInv'
<1>0. PICK q, s, T, N, C : /\ q = req[k] /\ s = req[k].tenant /\ T = TableOf(k)
                           /\ N = Named(k) /\ C = Changed(k)
  OBVIOUS
<1>1. /\ Good(q, guc[k]) /\ q.pc = "flushed" /\ s = q.tenant
      /\ C \subseteq N /\ N \subseteq Columns /\ q.payload \in Payload
      /\ \A c \in N : q.payload[c] \in Values
      /\ \A c \in N \ C : q.payload[c] = q.seen[c]
  BY <1>0 DEF DataInv, CommitUpdate, Named, Changed, Good, Staged, Request, Payload
<1>2. /\ s \in Slugs /\ q.op \in {"company", "config"} /\ Exists(s) /\ T \in Tables
      /\ T = (IF q.op = "config" THEN "config" ELSE "companies")
  BY <1>0, <1>1 DEF Good, Staged, Placed, Named4, TableOf, Tables
<1>3. rows[T][s] \in [Columns -> Values]
  BY <1>2 DEF Exists, Tables, DataInv, Committed, HasConfig, TypeOK
<1>4. PICK u : /\ u \in [Columns -> Values]
               /\ \A c \in Columns : u[c] = IF c \in C THEN q.payload[c] ELSE rows[T][s][c]
               /\ rows' = [rows EXCEPT ![T][s] = u]
  <2>1. UpdatedRow(k) \in [Columns -> Values]
    BY <1>0, <1>1, <1>3 DEF UpdatedRow
  <2>2. \A c \in Columns :
           UpdatedRow(k)[c] = IF c \in C THEN q.payload[c] ELSE rows[T][s][c]
    BY <1>0 DEF UpdatedRow
  <2>3. rows' = [rows EXCEPT ![T][s] = UpdatedRow(k)]
    BY <1>0 DEF CommitUpdate
  <2> QED  BY <2>1, <2>2, <2>3
<1>5. /\ rows' \in [Tables -> [Slugs -> [Columns -> Values] \cup {None}]]
      /\ rows'[T][s] = u
      /\ \A t \in Tables, v \in Slugs : t # T \/ v # s => rows'[t][v] = rows[t][v]
  BY <1>2, <1>4 DEF DataInv, TypeOK
<1>6. \A t \in Tables, v \in Slugs : rows'[t][v] # None <=> rows[t][v] # None
  BY <1>3, <1>4, <1>5, TenantAssumption
<1>7. \A v \in Slugs : Exists(v)' <=> Exists(v)
  BY <1>6 DEF Exists, Tables
<1>8. Tenants' = Tenants
  BY <1>7 DEF Tenants
<1>9. /\ wanted' \in [Tables -> [Slugs -> Payload]]
      /\ \A t \in Tables, v \in Slugs : t # T \/ v # s => wanted'[t][v] = wanted[t][v]
      /\ \A c \in Columns :
            wanted'[T][s][c] = IF c \notin N THEN wanted[T][s][c]
                               ELSE IF c \in q.stale THEN None ELSE q.payload[c]
  <2>1. Remember(k) /\ req[k].tenant \in Slugs /\ req[k].pc \in {"write", "flushed"}
    BY <1>0, <1>1, <1>2 DEF CommitUpdate
  <2>2. /\ wanted' \in [Tables -> [Slugs -> Payload]]
        /\ \A t \in Tables, v \in Slugs :
              t # TableOf(k) \/ v # req[k].tenant => wanted'[t][v] = wanted[t][v]
        /\ \A c \in Columns :
              wanted'[TableOf(k)][req[k].tenant][c] =
                 IF c \notin Named(k) THEN wanted[TableOf(k)][req[k].tenant][c]
                 ELSE IF c \in req[k].stale THEN None ELSE req[k].payload[c]
    BY <2>1, RememberStep
  <2> QED  BY <1>0, <2>2
<1>10. /\ UNCHANGED <<owner, mailed, writes>> /\ guc' = [guc EXCEPT ![k] = None]
       /\ req' = [l \in Connections |->
            IF l = k THEN Idle
            ELSE IF req[l].pc \in {"write", "flushed"} /\ TableOf(l) = T /\ req[l].tenant = s
                   THEN [req[l] EXCEPT !.stale = @ \cup C]
                   ELSE req[l]]
  BY <1>0 DEF CommitUpdate, GucAfter
<1>11. /\ req'[k] = Idle /\ guc'[k] = None
       /\ \A l \in Connections \ {k} :
             /\ req'[l] \in Request /\ guc'[l] = guc[l]
             /\ req'[l].pc = req[l].pc /\ req'[l].op = req[l].op
             /\ req'[l].tenant = req[l].tenant /\ req'[l].saw = req[l].saw
             /\ req'[l].owner = req[l].owner /\ req'[l].seen = req[l].seen
             /\ req'[l].items = req[l].items /\ req'[l].total = req[l].total
             /\ req[l].stale \subseteq req'[l].stale
             /\ req[l].pc \in {"write", "flushed"} /\ TableOf(l) = T /\ req[l].tenant = s
                  => C \subseteq req'[l].stale
  <2>1. /\ req'[k] = Idle /\ guc'[k] = None
        /\ \A l \in Connections \ {k} : guc'[l] = guc[l]
    BY <1>10 DEF DataInv, TypeOK
  <2>2. ASSUME NEW l \in Connections \ {k}
        PROVE  /\ req'[l] \in Request
               /\ req'[l].pc = req[l].pc /\ req'[l].op = req[l].op
               /\ req'[l].tenant = req[l].tenant /\ req'[l].saw = req[l].saw
               /\ req'[l].owner = req[l].owner /\ req'[l].seen = req[l].seen
               /\ req'[l].items = req[l].items /\ req'[l].total = req[l].total
               /\ req[l].stale \subseteq req'[l].stale
               /\ req[l].pc \in {"write", "flushed"} /\ TableOf(l) = T /\ req[l].tenant = s
                    => C \subseteq req'[l].stale
    <3>1. req[l] \in Request
      BY DEF DataInv, TypeOK
    <3>2. CASE req[l].pc \in {"write", "flushed"} /\ TableOf(l) = T /\ req[l].tenant = s
      <4>1. req'[l] = [req[l] EXCEPT !.stale = @ \cup C]
        BY <1>10, <3>2
      <4> QED  BY <1>1, <3>1, <4>1 DEF Request
    <3>3. CASE ~(req[l].pc \in {"write", "flushed"} /\ TableOf(l) = T /\ req[l].tenant = s)
      <4>1. req'[l] = req[l]
        BY <1>10, <3>3
      <4> QED  BY <3>1, <3>3, <4>1
    <3> QED  BY <3>2, <3>3
  <2> QED  BY <2>1, <2>2
<1>12. TypeOK'
  <2>1. Idle \in Request
    BY IdleIsGood DEF Good, Staged
  <2>2. req' \in [Connections -> Request]
    BY <1>10, <1>11, <2>1
  <2> QED  BY <1>5, <1>9, <1>10, <2>2 DEF DataInv, TypeOK
<1>13. OneCreator'
  <2>1. \A l \in Connections : Creates(req'[l]) => l # k /\ Creates(req[l])
    BY <1>11 DEF Creates, Idle
  <2> SUFFICES ASSUME NEW a \in Connections, NEW b \in Connections,
                      Creates(req'[a]), Creates(req'[b]), req'[a].tenant = req'[b].tenant
               PROVE  a = b
    BY DEF OneCreator, Creates
  <2> QED  BY <1>11, <2>1 DEF DataInv, OneCreator
<1>14. UpdatesMerge'
  <2> SUFFICES ASSUME NEW t \in Tables, NEW v \in Slugs, NEW c \in Columns,
                      rows'[t][v] # None, wanted'[t][v][c] # None
               PROVE  rows'[t][v][c] = wanted'[t][v][c]
    BY DEF UpdatesMerge
  <2>0. rows[t][v] # None
    BY <1>6
  <2>1. CASE t # T \/ v # s
    <3>1. rows'[t][v] = rows[t][v] /\ wanted'[t][v] = wanted[t][v]
      BY <1>5, <1>9, <2>1
    <3> QED  BY <2>0, <3>1 DEF DataInv, Committed, UpdatesMerge
  <2>2. CASE t = T /\ v = s /\ c \notin N
    <3>1. rows'[t][v][c] = rows[t][v][c] /\ wanted'[t][v][c] = wanted[t][v][c]
      BY <1>1, <1>4, <1>5, <1>9, <2>2
    <3> QED  BY <2>0, <3>1 DEF DataInv, Committed, UpdatesMerge
  <2>3. CASE t = T /\ v = s /\ c \in N
    <3>1. c \notin q.stale /\ wanted'[t][v][c] = q.payload[c]
      BY <1>9, <2>3
    <3>2. c \notin C => rows[t][v][c] = q.payload[c]
      BY <1>1, <1>2, <2>3, <3>1 DEF Good, Fresh
    <3> QED  BY <1>4, <1>5, <2>3, <3>1, <3>2
  <2> QED  BY <2>1, <2>2, <2>3
<1>15. Committed'
  <2>1. HasConfig' /\ InviteOpensTenant'
    BY <1>6, <1>7, <1>10 DEF DataInv, Committed, HasConfig, InviteOpensTenant, Tables
  <2>2. Untouched'
    BY <1>2, <1>7, <1>9 DEF DataInv, Committed, Untouched
  <2> QED  BY <1>14, <2>1, <2>2 DEF Committed
<1>16. ASSUME NEW l \in Connections PROVE Good(req[l], guc[l])'
  <2>0. PICK r, g : r = req'[l] /\ g = guc'[l]
    OBVIOUS
  <2>1. CASE l = k
    <3>1. r = Idle /\ g = None /\ Good(Idle, None)
      BY <1>11, <2>0, <2>1, IdleIsGood
    <3>2. /\ r \in Request /\ r.pc = "idle" /\ r.op = "none" /\ r.saw = {}
      BY <3>1 DEF Good, Staged, Idle
    <3> QED
      BY <2>0, <3>1, <3>2
      DEF Good, Staged, Bound, Placed, Fresh, Invited, Counted, Named4, Creates, Inserted
  <2>2. CASE l # k
    <3>0. PICK o : o = req[l]
      OBVIOUS
    <3>1. /\ Good(o, g) /\ r \in Request
          /\ r.pc = o.pc /\ r.op = o.op /\ r.tenant = o.tenant /\ r.saw = o.saw
          /\ r.owner = o.owner /\ r.seen = o.seen /\ r.items = o.items /\ r.total = o.total
          /\ o.stale \subseteq r.stale
          /\ o.pc \in {"write", "flushed"} /\ TableOf(l) = T /\ o.tenant = s
               => C \subseteq r.stale
      BY <1>11, <2>0, <2>2, <3>0 DEF DataInv
    <3>2. Staged(r)' /\ Bound(r, g)' /\ Invited(r)' /\ Counted(r)'
      BY <1>8, <1>10, <3>1 DEF Good, Staged, Bound, Invited, Counted
    <3>3. Placed(r)'
      BY <1>7, <3>1 DEF Good, Staged, Placed, Named4, Creates, Inserted
    <3>4. Fresh(r)'
      <4> SUFFICES ASSUME r.pc \in {"write", "flushed"}, NEW c \in Columns \ r.stale
                   PROVE  r.seen[c] =
                            rows'[IF r.op = "config" THEN "config" ELSE "companies"][r.tenant][c]
        BY DEF Fresh
      <4> DEFINE t == IF r.op = "config" THEN "config" ELSE "companies"
      <4>1. /\ t \in Tables /\ o.tenant \in Slugs /\ TableOf(l) = t
            /\ o.seen[c] = rows[t][o.tenant][c]
        BY <3>0, <3>1 DEF Good, Staged, Fresh, Named4, TableOf, Tables
      <4> HIDE DEF t
      <4>2. CASE t = T /\ o.tenant = s
        BY <1>4, <1>5, <3>1, <4>1, <4>2 DEF t
      <4>3. CASE t # T \/ o.tenant # s
        BY <1>5, <3>1, <4>1, <4>3 DEF t
      <4> QED  BY <4>2, <4>3
    <3> QED  BY <2>0, <3>2, <3>3, <3>4 DEF Good
  <2> QED  BY <2>1, <2>2
<1> QED  BY <1>12, <1>13, <1>15, <1>16 DEF DataInv

-----------------------------------------------------------------------------

(* The invariant holds before the first request, *)
LEMMA InitHolds == Init => DataInv
<1> SUFFICES ASSUME Init PROVE DataInv
  OBVIOUS
<1>1. TypeOK
  <2>1. Idle \in Request
    BY IdleIsGood DEF Good, Staged
  <2>2. DefaultRow \in Payload /\ NoOwner \in Owner
    BY TenantAssumption DEF DefaultRow, Payload, NoOwner, Owner
  <2> QED  BY <2>1, <2>2, TenantAssumption DEF Init, TypeOK
<1>2. \A s \in Slugs : ~Exists(s)
  BY DEF Init, Exists, Tables
<1>3. Committed
  BY <1>2 DEF Init, Committed, HasConfig, Untouched, InviteOpensTenant, UpdatesMerge, Tables
<1>4. OneCreator
  BY DEF Init, OneCreator, Creates, Idle
<1>5. \A k \in Connections : Good(req[k], guc[k])
  BY IdleIsGood DEF Init
<1> QED  BY <1>1, <1>3, <1>4, <1>5 DEF DataInv

(* and every step keeps it. *)
LEMMA NextStep == DataInv /\ [Next]_vars => DataInv'
<1> SUFFICES ASSUME DataInv, [Next]_vars PROVE DataInv'
  OBVIOUS
<1>1. CASE UNCHANGED vars
  <2>1. UNCHANGED <<rows, owner, mailed, guc, req, writes, wanted>>
    BY <1>1 DEF vars, tables
  <2>2. TypeOK' /\ OneCreator'
    BY <2>1 DEF DataInv, TypeOK, OneCreator
  <2>3. Committed'
    BY <2>1 DEF DataInv, Committed, HasConfig, Untouched, InviteOpensTenant, UpdatesMerge, Exists
  <2>4. ASSUME NEW k \in Connections PROVE Good(req[k], guc[k])'
    BY <2>1 DEF DataInv, Good, Staged, Bound, Placed, Fresh, Invited, Counted, Creates, Exists,
       Tenants
  <2> QED  BY <2>2, <2>3, <2>4 DEF DataInv
<1>2. ASSUME NEW k \in Connections, Create(k) \/ Update(k) \/ List(k) \/ Crash(k)
      PROVE  DataInv'
  <2>1. CASE Create(k)
    <3>1. ASSUME NEW s \in Slugs, CreateArrives(k, s) PROVE DataInv'
      BY <3>1, CreateArrivesStep
    <3>2. ASSUME NEW delivered \in BOOLEAN, NEW reported \in BOOLEAN,
                 SendInvite(k, delivered, reported)
          PROVE  DataInv'
      BY <3>2, SendInviteStep
    <3>3. CASE SlugTaken(k) \/ InsertFails(k)
      BY <3>3, LeaveStep DEF SlugTaken, InsertFails
    <3> QED
      BY <2>1, <3>1, <3>2, <3>3, CreationStep, BindStep, CommitCreateStep DEF Create
  <2>2. CASE Update(k)
    <3>1. ASSUME NEW op \in {"company", "config"}, NEW s \in Slugs, NEW payload \in Payload,
                 UpdateArrives(k, op, s, payload)
          PROVE  DataInv'
      BY <3>1, UpdateArrivesStep
    <3>2. CASE CompanyNotFound(k)
      BY <3>2, LeaveStep DEF CompanyNotFound
    <3> QED
      BY <2>2, <3>1, <3>2, ReadStep, CommitReadStep, FlushStep, CommitUpdateStep DEF Update
  <2>3. CASE List(k)
    <3>1. CASE ListAnswers(k)
      BY <3>1, LeaveStep DEF ListAnswers
    <3> QED  BY <2>3, <3>1, ListArrivesStep, ListStep DEF List
  <2>4. CASE Crash(k)
    BY <2>4, LeaveStep DEF Crash
  <2> QED  BY <1>2, <2>1, <2>2, <2>3, <2>4
<1> QED  BY <1>1, <1>2 DEF Next

(* Every request is where its kind may be and on a connection bound to its *)
(* own tenant, whatever others have committed meanwhile.                   *)
THEOREM DataInvariance == Spec => []DataInv
BY InitHolds, NextStep, PTL DEF Spec

(* The state of tenants and of their requests keeps its type. *)
THEOREM DataTypeCorrect == Spec => []TypeOK
<1>1. DataInv => TypeOK
  BY DEF DataInv
<1> QED  BY <1>1, DataInvariance, PTL

(* No statement shows the configuration of another tenant, however pooled  *)
(* connections are shared.                                                 *)
THEOREM TenantsAreIsolated == Spec => []TenantIsolation
<1>1. DataInv => TenantIsolation
  BY DEF DataInv, TenantIsolation, Good, Bound, ScopeOf
<1> QED  BY <1>1, DataInvariance, PTL

(* A tenant's request finds its settings and branding, so two requests     *)
(* never race to insert them.                                              *)
THEOREM ConfigIsFound == Spec => []ConfigIsNeverMissing
<1>1. ASSUME DataInv PROVE ConfigIsNeverMissing
  <2> SUFFICES ASSUME NEW k \in Connections, req[k].pc = "read", req[k].op = "config"
               PROVE  ~Misses(k)
    BY DEF ConfigIsNeverMissing
  <2>1. req[k].tenant \in Slugs /\ guc[k] = req[k].tenant /\ Exists(req[k].tenant)
    BY <1>1 DEF DataInv, Good, Staged, Bound, Placed, Named4
  <2> QED  BY <1>1, <2>1 DEF Misses, Visible, DataInv, Committed, HasConfig
<1> QED  BY <1>1, DataInvariance, PTL

(* A recorded invite opens the tenant, though creations overlap and mails  *)
(* leave before the commit.                                                *)
THEOREM InvitesOpenTenants == Spec => []InviteOpensTenant
<1>1. DataInv => InviteOpensTenant
  BY DEF DataInv, Committed
<1> QED  BY <1>1, DataInvariance, PTL

(* Overlapping updates of one row merge by column. *)
THEOREM UpdatesAreMerged == Spec => []UpdatesMerge
<1>1. DataInv => UpdatesMerge
  BY DEF DataInv, Committed
<1> QED  BY <1>1, DataInvariance, PTL

(* The total beside a page of companies covers the page. *)
THEOREM PagesAreCovered == Spec => []TotalCoversPage
<1>1. DataInv => TotalCoversPage
  BY DEF DataInv, TotalCoversPage, Good, Counted
<1> QED  BY <1>1, DataInvariance, PTL
=============================================================================
