------------------------ MODULE CompanyAdminsProofs ------------------------
(***************************************************************************)
(* Why the last-owner guard works when updates do not overlap, and what    *)
(* holds when they do.  A request that is not stale has read the row as it *)
(* still is, and if its update had to be guarded, another active owner is  *)
(* still there; the row locks make an account that is being created absent *)
(* until its creator commits.                                              *)
(***************************************************************************)
EXTENDS CompanyAdmins, TLAPS

Reading == {"guard", "write", "commitUpdate"}
Creating == {"invite", "commitCreate"}
Drafted == {"insert", "invite", "commitCreate"}

(* What a request has read exists. *)
ReadExists ==
    \A r \in Requests : req[r].pc \in Reading => Exists(req[r].email)

(* An account whose INSERT is not committed does not exist yet. *)
InsertedIsAbsent ==
    \A r \in Requests : req[r].pc \in Creating => ~Exists(req[r].email)

(* Two transactions never hold one row. *)
OneHolder ==
    \A r, q \in Requests : \A e \in Emails : Holds(r, e) /\ Holds(q, e) => r = q

(* The row a creation inserts is the one its audit row describes. *)
CreationIsAudited ==
    \A r \in Requests :
        /\ req[r].pc = "check" => (req[r].data.role \in Roles /\ req[r].data.active = TRUE)
        /\ req[r].pc \in Drafted =>
             req[r].data.role = req[r].seen.role /\ req[r].data.active = req[r].seen.active

(* What a request that is not stale has read is still so. *)
FreshRead ==
    \A r \in Requests : req[r].pc \in Reading /\ ~req[r].stale =>
        /\ accounts[req[r].email] = req[r].seen
        /\ req[r].pc # "guard" /\ NeedsGuard(req[r].data, req[r].seen)
             => OtherActiveOwners(req[r].email) # {}

LockInv == ReadExists /\ InsertedIsAbsent /\ OneHolder /\ CreationIsAudited

AdminInv == TypeOK /\ LockInv /\ FreshRead /\ OwnerUnlessRaced /\ TrailGivesTable

-----------------------------------------------------------------------------
(* A request that ends without committing leaves the invariant. *)
LEMMA LeaveKeeps ==
    ASSUME AdminInv, NEW r \in Requests, Leave(r), crashes' \in 0..MaxCrashes
    PROVE  AdminInv'
<1>1. TypeOK'
  BY AdminAssumption DEF AdminInv, TypeOK, Leave, Idle, Stages, Fields, Rows, Nothing, FirstRow
<1>2. LockInv'
  BY <1>1 DEF AdminInv, LockInv, ReadExists, InsertedIsAbsent, OneHolder,
     CreationIsAudited, Holds, Exists, TypeOK, Leave, Idle, Reading, Creating, Drafted
<1>3. FreshRead'
  BY DEF AdminInv, FreshRead, TypeOK, Leave, Idle, Reading, OtherActiveOwners,
     IsActiveOwner, Exists
<1>4. OwnerUnlessRaced' /\ TrailGivesTable'
  BY DEF AdminInv, OwnerUnlessRaced, SomeActiveOwner, IsActiveOwner, Exists,
     TrailGivesTable, Leave
<1> QED BY <1>1, <1>2, <1>3, <1>4 DEF AdminInv

(* A request that goes on to "now" without touching the tables leaves the  *)
(* invariant when "now" satisfies it.                                      *)
LEMMA ProceedKeeps ==
    ASSUME AdminInv, NEW r \in Requests, NEW now, Proceed(r, now),
           now \in [pc: Stages, email: Emails, data: Fields, seen: Rows, stale: BOOLEAN],
           passwords' \in 0..MaxPasswords,
           now.pc \in Reading => Exists(now.email),
           now.pc \in Creating => ~Exists(now.email),
           now.pc \in Creating \cup {"commitUpdate"} => IsFree(now.email),
           now.pc = "check" => now.data.role \in Roles /\ now.data.active = TRUE,
           now.pc \in Drafted =>
               now.data.role = now.seen.role /\ now.data.active = now.seen.active,
           now.pc \in Reading /\ ~now.stale =>
               /\ accounts[now.email] = now.seen
               /\ now.pc # "guard" /\ NeedsGuard(now.data, now.seen)
                    => OtherActiveOwners(now.email) # {}
    PROVE  AdminInv'
<1>1. TypeOK'
  BY DEF AdminInv, TypeOK, Proceed
<1>2. ReadExists' /\ InsertedIsAbsent' /\ CreationIsAudited'
  BY DEF AdminInv, LockInv, ReadExists, InsertedIsAbsent,
     CreationIsAudited, Exists, TypeOK, Proceed, Reading, Creating, Drafted
<1>3. OneHolder'
  BY DEF AdminInv, LockInv, OneHolder, IsFree, Holds, TypeOK, Proceed, Creating
<1>4. FreshRead'
  BY DEF AdminInv, FreshRead, TypeOK, Proceed, Reading, OtherActiveOwners,
     IsActiveOwner, Exists
<1>5. OwnerUnlessRaced' /\ TrailGivesTable'
  BY DEF AdminInv, OwnerUnlessRaced, SomeActiveOwner, IsActiveOwner, Exists,
     TrailGivesTable, Proceed
<1> QED BY <1>1, <1>2, <1>3, <1>4, <1>5 DEF AdminInv, LockInv

(* The steps that only move a request on. *)
LEMMA MovesKeep ==
    ASSUME AdminInv, NEW r \in Requests,
           \/ \E e \in Emails, data \in Fields : UpdateArrives(r, e, data)
           \/ \E e \in Emails, role \in Roles : CreateArrives(r, e, role)
           \/ ReadAdmin(r) \/ GuardPasses(r) \/ WriteAdmin(r)
           \/ EmailLooksFree(r) \/ InsertAdmin(r)
    PROVE  AdminInv'
<1>0. req[r] \in [pc: Stages, email: Emails, data: Fields, seen: Rows, stale: BOOLEAN]
  BY DEF AdminInv, TypeOK
<1>1. ASSUME NEW e \in Emails, NEW data \in Fields, UpdateArrives(r, e, data)
      PROVE  AdminInv'
  <2> DEFINE now == [Idle EXCEPT !.pc = "read", !.email = e, !.data = data]
  <2>1. /\ now \in [pc: Stages, email: Emails, data: Fields, seen: Rows, stale: BOOLEAN]
        /\ now.pc = "read"
    BY AdminAssumption DEF Idle, FirstRow, Rows, Stages
  <2>2. Proceed(r, now) /\ passwords' \in 0..MaxPasswords
    BY <1>1 DEF UpdateArrives, AdminInv, TypeOK
  <2> HIDE DEF now
  <2> QED BY <2>1, <2>2, ProceedKeeps DEF Reading, Creating, Drafted
<1>2. ASSUME NEW e \in Emails, NEW role \in Roles, CreateArrives(r, e, role)
      PROVE  AdminInv'
  <2> DEFINE now == [Idle EXCEPT !.pc = "check", !.email = e,
                                 !.data = [role |-> role, active |-> TRUE]]
  <2>1. /\ now \in [pc: Stages, email: Emails, data: Fields, seen: Rows, stale: BOOLEAN]
        /\ now.pc = "check" /\ now.data.role \in Roles /\ now.data.active = TRUE
    BY AdminAssumption DEF Idle, FirstRow, Rows, Fields, Stages
  <2>2. Proceed(r, now) /\ passwords' \in 0..MaxPasswords
    BY <1>2 DEF CreateArrives, AdminInv, TypeOK
  <2> HIDE DEF now
  <2> QED BY <2>1, <2>2, ProceedKeeps DEF Reading, Creating, Drafted
<1>3. CASE ReadAdmin(r)
  <2> DEFINE seen == accounts[req[r].email]
             now == [req[r] EXCEPT
                       !.pc = IF NeedsGuard(req[r].data, seen) THEN "guard" ELSE "write",
                       !.seen = seen]
  <2>1. seen \in Rows /\ Exists(req[r].email)
    BY <1>0, <1>3 DEF ReadAdmin, AdminInv, TypeOK, Exists
  <2>2. Proceed(r, now) /\ passwords' \in 0..MaxPasswords
    BY <1>3 DEF ReadAdmin, AdminInv, TypeOK
  <2> HIDE DEF seen
  <2>3. now \in [pc: Stages, email: Emails, data: Fields, seen: Rows, stale: BOOLEAN]
    BY <1>0, <2>1 DEF Stages
  <2>4. /\ now.pc = IF NeedsGuard(now.data, now.seen) THEN "guard" ELSE "write"
        /\ now.email = req[r].email /\ now.seen = seen
    BY <1>0
  <2>5. accounts[now.email] = now.seen /\ Exists(now.email)
    BY <2>1, <2>4 DEF seen
  <2> HIDE DEF now
  <2> QED BY <2>2, <2>3, <2>4, <2>5, ProceedKeeps DEF Creating, Drafted
<1>4. CASE GuardPasses(r)
  <2> DEFINE now == [req[r] EXCEPT !.pc = "write"]
  <2>1. /\ now \in [pc: Stages, email: Emails, data: Fields, seen: Rows, stale: BOOLEAN]
        /\ now.pc = "write" /\ req[r].pc = "guard"
        /\ now.email = req[r].email /\ now.seen = req[r].seen
        /\ now.data = req[r].data /\ now.stale = req[r].stale
    BY <1>0, <1>4 DEF Stages, GuardPasses
  <2>2. Proceed(r, now) /\ passwords' \in 0..MaxPasswords
    BY <1>4 DEF GuardPasses, AdminInv, TypeOK
  <2>3. OtherActiveOwners(now.email) # {} /\ Exists(now.email)
    BY <1>4, <2>1 DEF GuardPasses, AdminInv, LockInv, ReadExists, Reading
  <2>4. ~now.stale => accounts[now.email] = now.seen
    BY <2>1 DEF AdminInv, FreshRead, Reading
  <2> HIDE DEF now
  <2> QED BY <2>1, <2>2, <2>3, <2>4, ProceedKeeps DEF Creating, Drafted
<1>5. CASE WriteAdmin(r)
  <2> DEFINE now == [req[r] EXCEPT !.pc = "commitUpdate"]
  <2>1. /\ now \in [pc: Stages, email: Emails, data: Fields, seen: Rows, stale: BOOLEAN]
        /\ now.pc = "commitUpdate" /\ req[r].pc = "write"
        /\ now.email = req[r].email /\ now.seen = req[r].seen
        /\ now.data = req[r].data /\ now.stale = req[r].stale
    BY <1>0, <1>5 DEF Stages, WriteAdmin
  <2>2. Proceed(r, now) /\ passwords' \in 0..MaxPasswords
    BY <1>5 DEF WriteAdmin, AdminInv, TypeOK
  <2>3. Exists(now.email) /\ IsFree(now.email)
    BY <1>5, <2>1 DEF WriteAdmin, AdminInv, LockInv, ReadExists, Reading
  <2>4. ~now.stale =>
          /\ accounts[now.email] = now.seen
          /\ NeedsGuard(now.data, now.seen) => OtherActiveOwners(now.email) # {}
    BY <2>1 DEF AdminInv, FreshRead, Reading
  <2> HIDE DEF now
  <2> QED BY <2>1, <2>2, <2>3, <2>4, ProceedKeeps DEF Creating, Drafted
<1>6. CASE EmailLooksFree(r)
  <2> DEFINE now == [req[r] EXCEPT
           !.pc = "insert",
           !.seen = [role |-> req[r].data.role, active |-> TRUE,
                     password |-> passwords + 1, invited |-> FALSE]]
  <2>0. req[r].data.role \in Roles /\ req[r].data.active = TRUE
    BY <1>6 DEF EmailLooksFree, AdminInv, LockInv, CreationIsAudited
  <2>1. passwords' \in 0..MaxPasswords /\ passwords + 1 \in Nat
    BY <1>6, AdminAssumption DEF EmailLooksFree, AdminInv, TypeOK
  <2>2. Proceed(r, now)
    BY <1>6 DEF EmailLooksFree
  <2>3. /\ now \in [pc: Stages, email: Emails, data: Fields, seen: Rows, stale: BOOLEAN]
        /\ now.pc = "insert"
        /\ now.data.role = now.seen.role /\ now.data.active = now.seen.active
    BY <1>0, <2>0, <2>1 DEF Stages, Rows
  <2> HIDE DEF now
  <2> QED BY <2>1, <2>2, <2>3, ProceedKeeps DEF Reading, Creating, Drafted
<1>7. CASE InsertAdmin(r)
  <2> DEFINE now == [req[r] EXCEPT !.pc = "invite"]
  <2>1. /\ now \in [pc: Stages, email: Emails, data: Fields, seen: Rows, stale: BOOLEAN]
        /\ now.pc = "invite" /\ req[r].pc = "insert"
        /\ now.email = req[r].email /\ now.seen = req[r].seen
        /\ now.data = req[r].data
    BY <1>0, <1>7 DEF Stages, InsertAdmin
  <2>2. Proceed(r, now) /\ passwords' \in 0..MaxPasswords
    BY <1>7 DEF InsertAdmin, AdminInv, TypeOK
  <2>3. ~Exists(now.email) /\ IsFree(now.email)
    BY <1>7, <2>1 DEF InsertAdmin, MayInsert
  <2>4. now.data.role = now.seen.role /\ now.data.active = now.seen.active
    BY <2>1 DEF AdminInv, LockInv, CreationIsAudited, Drafted
  <2> HIDE DEF now
  <2> QED BY <2>1, <2>2, <2>3, <2>4, ProceedKeeps DEF Reading, Creating, Drafted
<1> QED BY <1>1, <1>2, <1>3, <1>4, <1>5, <1>6, <1>7

(* The mail goes out while the row is held. *)
LEMMA InviteKeeps ==
    ASSUME AdminInv, NEW r \in Requests, NEW delivered \in BOOLEAN,
           NEW reported \in BOOLEAN, SendInvite(r, delivered, reported)
    PROVE  AdminInv'
<1> USE DEF AdminInv, SendInvite
<1> DEFINE now == [req[r] EXCEPT !.pc = "commitCreate", !.seen.invited = reported]
<1>0. /\ req[r] \in [pc: Stages, email: Emails, data: Fields, seen: Rows, stale: BOOLEAN]
      /\ req' = [req EXCEPT ![r] = now]
      /\ req[r].seen.password \in Nat
  BY DEF TypeOK, Rows
<1>a. /\ now.pc = "commitCreate" /\ now.email = req[r].email
      /\ now.data = req[r].data
      /\ now.seen.role = req[r].seen.role /\ now.seen.active = req[r].seen.active
  BY <1>0 DEF Rows
<1>b. now \in [pc: Stages, email: Emails, data: Fields, seen: Rows, stale: BOOLEAN]
  BY <1>0 DEF Rows, Stages
<1> HIDE DEF now
<1>1. TypeOK'
  BY <1>0, <1>b, ZenonT(40) DEF TypeOK
<1>2. ReadExists' /\ InsertedIsAbsent'
  BY <1>0, <1>a DEF LockInv, ReadExists, InsertedIsAbsent, Exists, TypeOK,
     Reading, Creating
<1>c. CreationIsAudited'
  <2>1. now.data.role = now.seen.role /\ now.data.active = now.seen.active
    BY <1>0, <1>a DEF LockInv, CreationIsAudited, Drafted
  <2> QED BY <1>0, <1>a, <2>1 DEF LockInv, CreationIsAudited, Creating, Drafted, TypeOK
<1>3. OneHolder'
  BY <1>0, <1>a DEF LockInv, OneHolder, Holds, TypeOK
<1>4. FreshRead'
  BY <1>0, <1>a DEF FreshRead, TypeOK, Reading, OtherActiveOwners, IsActiveOwner, Exists
<1>5. OwnerUnlessRaced' /\ TrailGivesTable'
  BY DEF OwnerUnlessRaced, SomeActiveOwner, IsActiveOwner, Exists, TrailGivesTable
<1> QED BY <1>1, <1>2, <1>c, <1>3, <1>4, <1>5 DEF LockInv

(* A committed creation adds a row and takes none away. *)
LEMMA CommitCreateKeeps ==
    ASSUME AdminInv, NEW r \in Requests, CommitCreate(r)
    PROVE  AdminInv'
<1> USE DEF AdminInv, CommitCreate
<1> DEFINE e == req[r].email
<1>0. /\ e \in Emails /\ ~Exists(e) /\ req[r].seen \in Rows
      /\ None \notin Rows
      /\ req[r].data \in Fields
      /\ req[r].data.role = req[r].seen.role /\ req[r].data.active = req[r].seen.active
  BY AdminAssumption DEF TypeOK, LockInv, InsertedIsAbsent, CreationIsAudited, Creating, Drafted
<1>a. req[r].data = [role |-> req[r].seen.role, active |-> req[r].seen.active]
  BY <1>0 DEF Fields
<1>1. TypeOK'
  BY <1>0, AdminAssumption DEF TypeOK, Stages, Idle, FirstRow, Rows, Fields, Nothing
<1>2. \A f \in Emails : f # e => accounts'[f] = accounts[f]
  BY <1>0 DEF TypeOK
<1>3. accounts'[e] # None /\ accounts'[e] = req[r].seen
  BY <1>0 DEF TypeOK, Exists
<1>4. ReadExists'
  BY <1>2, <1>3 DEF LockInv, ReadExists, Exists, TypeOK, Reading, Idle
<1>5. \A q \in Requests : q # r /\ req[q].pc \in Creating => req[q].email # e
  BY <1>0 DEF LockInv, OneHolder, Holds, Creating
<1>6. InsertedIsAbsent'
  BY <1>2, <1>5 DEF LockInv, InsertedIsAbsent, Exists, TypeOK, Creating, Idle
<1>7. OneHolder' /\ CreationIsAudited'
  BY DEF LockInv, OneHolder, Holds, CreationIsAudited, Creating, Drafted, TypeOK, Idle
<1>8. \A f \in Emails : IsActiveOwner(f) => IsActiveOwner(f)'
  BY <1>0, <1>2 DEF IsActiveOwner, Exists
<1>9. FreshRead'
  <2> SUFFICES ASSUME NEW q \in Requests, req'[q].pc \in Reading, ~req'[q].stale
               PROVE  /\ accounts'[req'[q].email] = req'[q].seen
                      /\ req'[q].pc # "guard" /\ NeedsGuard(req'[q].data, req'[q].seen)
                           => \E f \in Emails \ {req'[q].email} : IsActiveOwner(f)'
    BY DEF FreshRead, OtherActiveOwners
  <2>1. q # r /\ req'[q] = req[q]
    BY DEF TypeOK, Idle, Reading
  <2>2. Exists(req[q].email) /\ req[q].email # e /\ req[q].email \in Emails
    BY <1>0, <2>1 DEF LockInv, ReadExists, TypeOK
  <2>3. accounts'[req'[q].email] = req'[q].seen
    BY <1>2, <2>1, <2>2 DEF FreshRead
  <2>4. OtherActiveOwners(req[q].email) # {} =>
          \E f \in Emails \ {req'[q].email} : IsActiveOwner(f)'
    BY <1>8, <2>1 DEF OtherActiveOwners
  <2> QED BY <2>1, <2>3, <2>4 DEF FreshRead
<1>10. OwnerUnlessRaced'
  BY <1>8 DEF OwnerUnlessRaced, SomeActiveOwner
<1>11. TrailGivesTable'
  BY <1>0, <1>a, <1>2, <1>3 DEF TrailGivesTable, TypeOK, Exists
<1> QED BY <1>1, <1>4, <1>6, <1>7, <1>9, <1>10, <1>11 DEF LockInv

(* A committed update: the others' reads become stale, and a request that  *)
(* is not stale itself leaves an active owner.                             *)
LEMMA CommitUpdateKeeps ==
    ASSUME AdminInv, NEW r \in Requests, CommitUpdate(r)
    PROVE  AdminInv'
<1> USE DEF AdminInv, CommitUpdate
<1> DEFINE e == req[r].email
           change == Writes(r)
<1>0. /\ e \in Emails /\ accounts[e] \in Rows /\ accounts[e] # None
      /\ trail[e] \in Fields
      /\ req[r].data \in Fields /\ req[r].seen \in Rows
  BY DEF TypeOK, LockInv, ReadExists, Reading, Exists
<1>1. change \in Fields
  BY <1>0 DEF Writes, Changes, Fields, Rows
<1>2. /\ UpdatedRow(r) \in Rows
      /\ UpdatedRow(r).role = IF change.role = None THEN accounts[e].role ELSE change.role
      /\ UpdatedRow(r).active =
           IF change.active = None THEN accounts[e].active ELSE change.active
  <2> HIDE DEF change
  <2>1. UpdatedRow(r) = SetColumns(accounts[e], change)
    BY DEF UpdatedRow, change
  <2> QED BY <1>0, <1>1, <2>1 DEF SetColumns, Rows, Fields
<1>3. /\ SetColumns(trail[e], change) \in Fields
      /\ trail[e] = [role |-> accounts[e].role, active |-> accounts[e].active]
           => SetColumns(trail[e], change) =
                [role |-> UpdatedRow(r).role, active |-> UpdatedRow(r).active]
  <2> HIDE DEF change
  <2> DEFINE new == SetColumns(trail[e], change)
  <2>1. /\ new \in Fields
        /\ new.role = IF change.role = None THEN trail[e].role ELSE change.role
        /\ new.active = IF change.active = None THEN trail[e].active ELSE change.active
    BY <1>0, <1>1 DEF SetColumns, Fields
  <2> HIDE DEF new
  <2>2. new = [role |-> new.role, active |-> new.active]
    BY <2>1 DEF Fields
  <2>3. ASSUME trail[e] = [role |-> accounts[e].role, active |-> accounts[e].active]
        PROVE  new.role = UpdatedRow(r).role /\ new.active = UpdatedRow(r).active
    BY <2>1, <2>3, <1>2
  <2> QED BY <2>1, <2>2, <2>3 DEF new
<1>4. \A q \in Requests :
        /\ req'[q] \in [pc: Stages, email: Emails, data: Fields, seen: Rows,
                        stale: BOOLEAN]
        /\ q = r => req'[q].pc = "idle"
        /\ q # r => /\ req'[q].pc = req[q].pc /\ req'[q].email = req[q].email
                    /\ req'[q].data = req[q].data /\ req'[q].seen = req[q].seen
                    /\ req[q].pc \in Reading => req'[q].stale
  BY AdminAssumption, ZenonT(40) DEF TypeOK, Outdated, Reading, Stages, Idle, FirstRow,
     Nothing, Fields, Rows
<1>5. /\ accounts' = [accounts EXCEPT ![e] = UpdatedRow(r)]
      /\ trail' = [trail EXCEPT ![e] = SetColumns(trail[e], change)]
      /\ accounts'[e] = UpdatedRow(r) /\ accounts'[e] # None
      /\ \A f \in Emails : f # e => accounts'[f] = accounts[f]
  BY <1>0, <1>2, AdminAssumption DEF TypeOK
<1> HIDE DEF e, change
<1>6. TypeOK'
  BY <1>0, <1>2, <1>3, <1>4, <1>5 DEF TypeOK
<1>7. ReadExists' /\ InsertedIsAbsent'
  <2>1. \A q \in Requests : req[q].pc \in Creating => req[q].email # e
    BY <1>0 DEF LockInv, InsertedIsAbsent, Exists
  <2> QED BY <1>0, <1>4, <1>5, <2>1 DEF LockInv, ReadExists, InsertedIsAbsent, Exists,
             Reading, Creating, TypeOK
<1>8. OneHolder'
  BY <1>4 DEF LockInv, OneHolder, Holds
<1>9. CreationIsAudited'
  BY <1>4 DEF LockInv, CreationIsAudited, Creating, Drafted
<1>10. FreshRead'
  BY <1>4 DEF FreshRead, Reading
<1>11. OwnerUnlessRaced'
  <2> SUFFICES ASSUME ~raced, ~req[r].stale
               PROVE  SomeActiveOwner'
    BY DEF OwnerUnlessRaced
  <2>1. PICK f \in Emails : IsActiveOwner(f)
    BY DEF OwnerUnlessRaced, SomeActiveOwner
  <2>2. CASE \E g \in Emails : g # e /\ IsActiveOwner(g)
    BY <2>2, <1>5 DEF SomeActiveOwner, IsActiveOwner, Exists
  <2>3. CASE ~\E g \in Emails : g # e /\ IsActiveOwner(g)
    <3>1. f = e /\ OtherActiveOwners(e) = {}
      BY <2>1, <2>3 DEF OtherActiveOwners
    <3>2. accounts[e] = req[r].seen /\ ~NeedsGuard(req[r].data, req[r].seen)
      BY <3>1 DEF FreshRead, Reading, e
    <3>3. /\ req[r].seen.role = Owner /\ req[r].seen.active
          /\ req[r].data.role \in {None, Owner} /\ req[r].data.active # FALSE
      BY <2>1, <3>1, <3>2 DEF IsActiveOwner, NeedsGuard
    <3>4. change.role = None /\ change.active \in {None, TRUE}
      BY <1>0, <3>3 DEF change, Writes, Changes, Fields
    <3>5. UpdatedRow(r).role = Owner /\ UpdatedRow(r).active
      BY <1>2, <3>2, <3>3, <3>4
    <3> QED BY <1>0, <1>5, <3>5 DEF SomeActiveOwner, IsActiveOwner, Exists
  <2> QED BY <2>2, <2>3
<1>12. TrailGivesTable'
  BY <1>0, <1>3, <1>5 DEF TrailGivesTable, Exists, TypeOK
<1> QED BY <1>6, <1>7, <1>8, <1>9, <1>10, <1>11, <1>12 DEF LockInv

-----------------------------------------------------------------------------
(* The invariant holds of every reachable state. *)
THEOREM AdminInvariance == Spec => []AdminInv
<1>1. Init => AdminInv
  <2> SUFFICES ASSUME Init PROVE AdminInv
    OBVIOUS
  <2>1. /\ FirstRow \in Rows /\ FirstRow # None
        /\ Idle \in [pc: Stages, email: Emails, data: Fields, seen: Rows, stale: BOOLEAN]
        /\ Idle.pc = "idle" /\ Nothing \in Fields
        /\ [role |-> Owner, active |-> TRUE] \in Fields
    <3>1. FirstRow \in Rows
      BY AdminAssumption DEF FirstRow, Rows
    <3>2. Nothing \in Fields /\ [role |-> Owner, active |-> TRUE] \in Fields
      BY AdminAssumption DEF Fields, Nothing
    <3>3. Idle \in [pc: Stages, email: Emails, data: Fields, seen: Rows, stale: BOOLEAN]
      BY <3>1, <3>2, AdminAssumption DEF Idle, Stages
    <3> QED BY <3>1, <3>2, <3>3, AdminAssumption DEF Idle
  <2>2. TypeOK
    <3>1. accounts \in [Emails -> Rows \cup {None}] /\ trail \in [Emails -> Fields]
      BY <2>1 DEF Init
    <3>2. req \in [Requests -> [pc: Stages, email: Emails, data: Fields, seen: Rows,
                                stale: BOOLEAN]]
      BY <2>1 DEF Init
    <3>3. passwords \in 0..MaxPasswords /\ crashes \in 0..MaxCrashes
      BY AdminAssumption DEF Init
    <3>4. mailed \in [Emails -> Nat] /\ raced \in BOOLEAN
      BY DEF Init
    <3> QED BY <3>1, <3>2, <3>3, <3>4 DEF TypeOK
  <2>3. LockInv /\ FreshRead
    BY <2>1 DEF Init, LockInv, ReadExists, InsertedIsAbsent, OneHolder, CreationIsAudited,
       FreshRead, Holds, Reading, Creating, Drafted
  <2>4. accounts[First] = FirstRow /\ \A e \in Emails : Exists(e) <=> e = First
    BY <2>1, AdminAssumption DEF Init, Exists
  <2>5. OwnerUnlessRaced
    BY <2>4, AdminAssumption DEF OwnerUnlessRaced, SomeActiveOwner, IsActiveOwner, FirstRow
  <2>6. TrailGivesTable
    BY <2>4, AdminAssumption DEF Init, TrailGivesTable, FirstRow
  <2> QED BY <2>2, <2>3, <2>5, <2>6 DEF AdminInv
<1>2. AdminInv /\ [Next]_vars => AdminInv'
  <2> SUFFICES ASSUME AdminInv, [Next]_vars PROVE AdminInv'
    OBVIOUS
  <2>1. CASE UNCHANGED vars
    BY <2>1 DEF vars, AdminInv, LockInv, TypeOK, ReadExists, InsertedIsAbsent, OneHolder,
       CreationIsAudited, FreshRead, OwnerUnlessRaced, SomeActiveOwner, IsActiveOwner,
       OtherActiveOwners, Exists, TrailGivesTable, Holds
  <2>2. ASSUME NEW r \in Requests, Update(r) \/ Create(r) \/ Crash(r)
        PROVE  AdminInv'
    <3>1. CASE AdminNotFound(r) \/ LastOwnerProtected(r) \/ NothingToWrite(r)
               \/ AdminEmailTaken(r) \/ InsertFails(r)
      <4>1. Leave(r) /\ crashes' \in 0..MaxCrashes
        BY <3>1 DEF AdminNotFound, LastOwnerProtected, NothingToWrite, AdminEmailTaken,
           InsertFails, AdminInv, TypeOK
      <4> QED BY <4>1, LeaveKeeps
    <3>2. CASE Crash(r)
      <4>1. Leave(r) /\ crashes' \in 0..MaxCrashes
        BY <3>2, AdminAssumption DEF Crash, AdminInv, TypeOK
      <4> QED BY <4>1, LeaveKeeps
    <3>3. CASE \E delivered, reported \in BOOLEAN : SendInvite(r, delivered, reported)
      BY <3>3, InviteKeeps
    <3>4. CASE CommitCreate(r)
      BY <3>4, CommitCreateKeeps
    <3>5. CASE CommitUpdate(r)
      BY <3>5, CommitUpdateKeeps
    <3> QED BY <2>2, <3>1, <3>2, <3>3, <3>4, <3>5, MovesKeep DEF Update, Create
  <2> QED BY <2>1, <2>2 DEF Next
<1> QED BY <1>1, <1>2, PTL DEF Spec

(* The tables, the requests and the counters keep their types. *)
THEOREM TypeCorrect == Spec => []TypeOK
<1>1. AdminInv => TypeOK
  BY DEF AdminInv
<1> QED BY <1>1, AdminInvariance, PTL

(* An active owner is left, for any number of accounts and of concurrent   *)
(* requests, as long as no stale update was committed.                     *)
THEOREM GuardKeepsAnOwner == Spec => []OwnerUnlessRaced
<1>1. AdminInv => OwnerUnlessRaced
  BY DEF AdminInv
<1> QED BY <1>1, AdminInvariance, PTL

(* The audit rows replay to the table, even when updates overlap. *)
THEOREM AuditReplays == Spec => []TrailGivesTable
<1>1. AdminInv => TrailGivesTable
  BY DEF AdminInv
<1> QED BY <1>1, AdminInvariance, PTL

(* Overlapping creations of one address leave one account, whose password  *)
(* is never replaced.                                                      *)
THEOREM CreatedOnce == Spec => AccountIsCreatedOnce
<1> DEFINE Kept == \A e \in Emails : Exists(e) =>
             accounts'[e] # None /\ accounts'[e].password = accounts[e].password
<1>1. AdminInv /\ [Next]_vars => [Kept]_vars
  <2> SUFFICES ASSUME AdminInv, NEW r \in Requests, Update(r) \/ Create(r) \/ Crash(r)
               PROVE  Kept
    BY DEF Next
  <2>1. CASE CommitUpdate(r)
    <3>1. accounts[req[r].email] \in Rows
      BY <2>1 DEF CommitUpdate, AdminInv, LockInv, ReadExists, Reading, Exists, TypeOK
    <3>2. /\ UpdatedRow(r) \in Rows
          /\ UpdatedRow(r).password = accounts[req[r].email].password
      <4>1. Writes(r) \in Fields
        BY DEF Writes, Changes, AdminInv, TypeOK, Fields, Rows
      <4> QED BY <3>1, <4>1 DEF UpdatedRow, SetColumns, Rows, Fields
    <3> QED BY <2>1, <3>2, AdminAssumption DEF CommitUpdate, AdminInv, TypeOK, Exists
  <2>2. CASE CommitCreate(r)
    BY <2>2 DEF CommitCreate, AdminInv, LockInv, InsertedIsAbsent, Creating, Exists, TypeOK
  <2>3. CASE UNCHANGED accounts
    BY <2>3 DEF Exists
  <2> QED
    BY <2>1, <2>2, <2>3 DEF Update, Create, Crash, UpdateArrives, CreateArrives, ReadAdmin,
       AdminNotFound, LastOwnerProtected, GuardPasses, NothingToWrite, WriteAdmin,
       AdminEmailTaken, EmailLooksFree, InsertAdmin, InsertFails, SendInvite, Leave, Proceed
<1> QED BY <1>1, AdminInvariance, PTL DEF Spec, AccountIsCreatedOnce
-----------------------------------------------------------------------------

(* A creation about to commit a row that says "invited" has mailed the     *)
(* password of that row, and nobody has mailed another one since.          *)
MailStands ==
    \A r \in Requests : req[r].pc = "commitCreate" /\ req[r].seen.invited =>
        mailed[req[r].email] = req[r].seen.password

(* Steps that touch neither the table nor the mailbox. *)
LEMMA QuietInvite ==
    ASSUME AdminInv, InviteOpensAccount, MailStands, NEW r \in Requests,
           UNCHANGED <<accounts, mailed>>, req'[r].pc # "commitCreate",
           \A q \in Requests \ {r} : req'[q] = req[q]
    PROVE  InviteOpensAccount' /\ MailStands'
BY DEF InviteOpensAccount, MailStands, Exists

(* The mail of one creation does not overwrite what another row, or        *)
(* another creation, depends on: the address is held.                      *)
LEMMA InviteMails ==
    ASSUME AdminInv, InviteOpensAccount, MailStands, NEW r \in Requests,
           NEW delivered \in BOOLEAN, NEW reported \in BOOLEAN,
           SendInvite(r, delivered, reported)
    PROVE  InviteOpensAccount' /\ MailStands'
<1>1. PICK e \in Emails : e = req[r].email
  BY DEF AdminInv, TypeOK
<1>2. /\ ~Exists(e) /\ accounts' = accounts
      /\ \A f \in Emails \ {e} : mailed'[f] = mailed[f]
  BY <1>1 DEF SendInvite, AdminInv, TypeOK, LockInv, InsertedIsAbsent, Creating
<1>3. InviteOpensAccount'
  BY <1>2 DEF InviteOpensAccount, Exists
<1>4. ASSUME NEW q \in Requests \ {r}, req'[q].pc = "commitCreate", req'[q].seen.invited
      PROVE  mailed'[req'[q].email] = req'[q].seen.password
  <2>1. req'[q] = req[q] /\ req[q].email \in Emails
    BY DEF SendInvite, AdminInv, TypeOK
  <2>2. req[q].email # e
    BY <1>1, <1>4, <2>1 DEF SendInvite, AdminInv, LockInv, OneHolder, Holds
  <2> QED  BY <1>2, <1>4, <2>1, <2>2 DEF MailStands
<1>5. req'[r].seen.invited => mailed'[req'[r].email] = req'[r].seen.password
  <2>1. /\ req[r].seen \in Rows
        /\ req[r] \in [pc: Stages, email: Emails, data: Fields, seen: Rows, stale: BOOLEAN]
    BY DEF AdminInv, TypeOK
  <2>2. /\ req'[r].seen.invited = reported /\ req'[r].email = e
        /\ req'[r].seen.password = req[r].seen.password
    BY <1>1, <2>1 DEF SendInvite, AdminInv, TypeOK, Rows
  <2>3. reported => mailed'[e] = req[r].seen.password
    BY <1>1 DEF SendInvite, AdminInv, TypeOK
  <2> QED  BY <2>2, <2>3
<1> QED  BY <1>3, <1>4, <1>5 DEF MailStands

(* An update keeps the password and the invitation of its row. *)
LEMMA InviteSurvivesUpdate ==
    ASSUME AdminInv, InviteOpensAccount, MailStands, NEW r \in Requests, CommitUpdate(r)
    PROVE  InviteOpensAccount' /\ MailStands'
<1>1. PICK e \in Emails : e = req[r].email
  BY DEF AdminInv, TypeOK
<1>2. accounts[e] \in Rows /\ Exists(e)
  BY <1>1 DEF CommitUpdate, AdminInv, LockInv, ReadExists, Reading, Exists, TypeOK
<1>3. /\ UpdatedRow(r).password = accounts[e].password
      /\ UpdatedRow(r).invited = accounts[e].invited
  <2>1. Writes(r) \in Fields
    BY DEF Writes, Changes, AdminInv, TypeOK, Fields, Rows
  <2> QED  BY <1>1, <1>2, <2>1 DEF UpdatedRow, SetColumns, Rows, Fields
<1>4. /\ mailed' = mailed /\ accounts'[e] = UpdatedRow(r)
      /\ \A f \in Emails \ {e} : accounts'[f] = accounts[f]
  BY <1>1 DEF CommitUpdate, AdminInv, TypeOK
<1>5. InviteOpensAccount'
  BY <1>2, <1>3, <1>4 DEF InviteOpensAccount, Exists
<1>6. \A q \in Requests : req'[q].pc = "commitCreate" =>
        req[q].pc = "commitCreate" /\ req'[q].email = req[q].email /\ req'[q].seen = req[q].seen
  BY DEF CommitUpdate, Outdated, Idle, AdminInv, TypeOK
<1>7. MailStands'
  BY <1>4, <1>6 DEF MailStands
<1> QED  BY <1>5, <1>7

(* A committed creation brings its mail's password. *)
LEMMA InviteCommits ==
    ASSUME AdminInv, InviteOpensAccount, MailStands, NEW r \in Requests, CommitCreate(r)
    PROVE  InviteOpensAccount' /\ MailStands'
<1>1. PICK e \in Emails : e = req[r].email
  BY DEF AdminInv, TypeOK
<1>2. /\ mailed' = mailed /\ accounts'[e] = req[r].seen
      /\ \A f \in Emails \ {e} : accounts'[f] = accounts[f]
      /\ \A q \in Requests \ {r} : req'[q] = req[q]
      /\ req'[r].pc = "idle"
  BY <1>1 DEF CommitCreate, Idle, AdminInv, TypeOK
<1>3. req[r].seen.invited => mailed[e] = req[r].seen.password
  BY <1>1 DEF CommitCreate, MailStands
<1>4. InviteOpensAccount'
  BY <1>2, <1>3 DEF InviteOpensAccount, Exists
<1>5. MailStands'
  BY <1>2 DEF MailStands
<1> QED  BY <1>4, <1>5

(* An account recorded as invited opens with the last password mailed to   *)
(* its address, for any number of overlapping creations, mails that fail   *)
(* after they were delivered, updates and lost requests.                   *)
THEOREM InviteOpens == Spec => []InviteOpensAccount
<1>1. Init => InviteOpensAccount /\ MailStands
  <2> SUFFICES ASSUME Init PROVE InviteOpensAccount /\ MailStands
    OBVIOUS
  <2>1. \A e \in Emails \ {First} : ~Exists(e)
    BY DEF Init, Exists
  <2>2. \A r \in Requests : req[r].pc = "idle"
    BY DEF Init, Idle
  <2> QED  BY <2>1, <2>2 DEF InviteOpensAccount, MailStands
<1>2. AdminInv /\ InviteOpensAccount /\ MailStands /\ [Next]_vars
        => InviteOpensAccount' /\ MailStands'
  <2> SUFFICES ASSUME AdminInv, InviteOpensAccount, MailStands, [Next]_vars
               PROVE  InviteOpensAccount' /\ MailStands'
    OBVIOUS
  <2>1. CASE UNCHANGED vars
    BY <2>1 DEF vars, InviteOpensAccount, MailStands, Exists
  <2>2. ASSUME NEW r \in Requests, Update(r) \/ Create(r) \/ Crash(r)
        PROVE  InviteOpensAccount' /\ MailStands'
    <3> DEFINE Quiet == /\ UNCHANGED <<accounts, mailed>> /\ req'[r].pc # "commitCreate"
                        /\ \A q \in Requests \ {r} : req'[q] = req[q]
    <3>1. Leave(r) => Quiet
      BY DEF Leave, Idle, AdminInv, TypeOK
    <3>2. ASSUME NEW now, Proceed(r, now), now.pc # "commitCreate" PROVE Quiet
      BY <3>2 DEF Proceed, AdminInv, TypeOK
    <3>3. CASE \/ AdminNotFound(r) \/ LastOwnerProtected(r) \/ NothingToWrite(r)
               \/ AdminEmailTaken(r) \/ InsertFails(r) \/ Crash(r)
      BY <3>1, <3>3, QuietInvite DEF AdminNotFound, LastOwnerProtected, NothingToWrite,
         AdminEmailTaken, InsertFails, Crash
    <3>4. CASE \/ \E e \in Emails, data \in Fields : UpdateArrives(r, e, data)
               \/ \E e \in Emails, role \in Roles : CreateArrives(r, e, role)
      BY <3>2, <3>4, QuietInvite DEF UpdateArrives, CreateArrives, Idle
    <3>5. CASE \/ ReadAdmin(r) \/ GuardPasses(r) \/ WriteAdmin(r)
               \/ EmailLooksFree(r) \/ InsertAdmin(r)
      <4>1. req[r] \in [pc: Stages, email: Emails, data: Fields, seen: Rows, stale: BOOLEAN]
        BY DEF AdminInv, TypeOK
      <4>2. Quiet
        BY <3>2, <3>5, <4>1 DEF ReadAdmin, GuardPasses, WriteAdmin, EmailLooksFree, InsertAdmin
      <4> QED  BY <4>2, QuietInvite
    <3> HIDE DEF Quiet
    <3> QED
      BY <2>2, <3>3, <3>4, <3>5, InviteMails, InviteSurvivesUpdate, InviteCommits
      DEF Update, Create
  <2> QED  BY <2>1, <2>2 DEF Next
<1> QED  BY <1>1, <1>2, AdminInvariance, PTL DEF Spec
=============================================================================
