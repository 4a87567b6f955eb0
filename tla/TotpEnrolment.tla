--------------------------- MODULE TotpEnrolment ---------------------------
(***************************************************************************)
(* Enrolment of a second factor by one administrator: /auth/totp/enroll    *)
(* keeps a secret in Redis until /auth/totp/verify confirms it with a code *)
(* and persists it (domains/auth/service.py).  Redis commands take effect  *)
(* at once; the account row changes with the commit of the request.        *)
(*                                                                         *)
(* Secrets are numbered in the order they are generated; a code is the     *)
(* number of the secret it was computed from.                              *)
(***************************************************************************)
EXTENDS Naturals

CONSTANTS
    Requests,    \* slots for verify requests executing at the same time
    MaxSecrets   \* bound on the secrets ever generated

EnrolmentAssumption == MaxSecrets \in Nat

VARIABLES
    generated,   \* secrets 1..generated exist
    pending,     \* totp:pending:<type>:<id>, or NoSecret when there is no key
    stored,      \* totp_secret of the account
    req,         \* the verify request in each slot
    confirmed,   \* history: the secret whose code was accepted last
    accepted,    \* history: all such secrets
    excused      \* history: secrets that a race, a crash or the TTL may lose

vars == <<generated, pending, stored, req, confirmed, accepted, excused>>
history == <<confirmed, accepted, excused>>

Secrets == 1..MaxSecrets
NoSecret == 0
Idle == [pc |-> "idle", code |-> NoSecret, secret |-> NoSecret, writes |-> FALSE]

Init ==
    /\ generated = 0 /\ pending = NoSecret /\ stored = NoSecret
    /\ req = [r \in Requests |-> Idle]
    /\ confirmed = NoSecret /\ accepted = {} /\ excused = {}

At(r, stages) == req[r].pc \in stages
PastCheck(r) == At(r, {"load", "delete", "flush", "commit"})

(* totp_enroll: SET with a TTL, whatever was pending before.  A verify     *)
(* past its check will delete the key without looking at it again.         *)
Enroll ==
    LET new == generated + 1 IN
    /\ new \in Secrets
    /\ generated' = new /\ pending' = new
    /\ excused' = IF \E r \in Requests : At(r, {"load", "delete"})
                    THEN excused \cup {new} ELSE excused
    /\ UNCHANGED <<stored, req, confirmed, accepted>>

PendingExpires ==
    /\ pending # NoSecret
    /\ pending' = NoSecret
    /\ excused' = excused \cup {pending}
    /\ UNCHANGED <<generated, stored, req, confirmed, accepted>>

-----------------------------------------------------------------------------
(* totp_verify *)

VerifyArrives(r, code) ==
    /\ At(r, {"idle"})
    /\ req' = [req EXCEPT ![r] = [Idle EXCEPT !.pc = "get", !.code = code]]
    /\ UNCHANGED <<generated, pending, stored, history>>

(* Mutant: a failed attempt drops the pending secret. *)
DroppedOnWrongCode == NoSecret
KeptOnWrongCode == pending

(* No pending secret, or a code of another one: 400. *)
CodeRefused(r) ==
    /\ At(r, {"get"})
    /\ pending = NoSecret \/ pending # req[r].code
    /\ pending' = KeptOnWrongCode
    /\ req' = [req EXCEPT ![r] = Idle]
    /\ UNCHANGED <<generated, stored, history>>

CodeAccepted(r) ==
    /\ At(r, {"get"}) /\ pending # NoSecret /\ pending = req[r].code
    /\ req' = [req EXCEPT ![r].pc = "load", ![r].secret = pending]
    /\ confirmed' = pending
    /\ accepted' = accepted \cup {pending}
    /\ excused' = IF \E s \in Requests : PastCheck(s) /\ req[s].secret # pending
                    THEN excused \cup {pending} ELSE excused
    /\ UNCHANGED <<generated, pending, stored>>

(* load_account does not look at is_active, and accounts are never deleted. *)
(* The assignment that follows is an UPDATE only if it changes the value.   *)
LoadAccount(r) ==
    /\ At(r, {"load"})
    /\ req' = [req EXCEPT ![r].pc = "delete", ![r].writes = (stored # req[r].secret)]
    /\ UNCHANGED <<generated, pending, stored, history>>

(* Mutant: the secret is read again where it is deleted (GETDEL). *)
ReadAgain(r) == pending
SecretToStore(r) == req[r].secret

DeletePending(r) ==
    /\ At(r, {"delete"})
    /\ req' = [req EXCEPT ![r].pc = "flush", ![r].secret = SecretToStore(r)]
    /\ pending' = NoSecret
    /\ UNCHANGED <<generated, stored, history>>

(* The audit row flushes the UPDATE, which waits for the row's lock. *)
Flush(r) ==
    /\ At(r, {"flush"})
    /\ req[r].writes => \A s \in Requests : ~(At(s, {"commit"}) /\ req[s].writes)
    /\ req' = [req EXCEPT ![r].pc = "commit"]
    /\ UNCHANGED <<generated, pending, stored, history>>

(* Mutant: an account keeps the first secret it was given. *)
FirstSecret(r) == IF stored = NoSecret THEN req[r].secret ELSE stored
NewSecret(r) == req[r].secret

Commit(r) ==
    /\ At(r, {"commit"})
    /\ stored' = IF req[r].writes THEN NewSecret(r) ELSE stored
    /\ req' = [req EXCEPT ![r] = Idle]
    /\ UNCHANGED <<generated, pending, history>>

(* A request that is lost, or whose commit fails, is rolled back; the      *)
(* deletion in Redis is not.                                               *)
Crash(r) ==
    /\ ~At(r, {"idle"})
    /\ req' = [req EXCEPT ![r] = Idle]
    /\ excused' = IF PastCheck(r) THEN excused \cup {req[r].secret} ELSE excused
    /\ UNCHANGED <<generated, pending, stored, confirmed, accepted>>

Verify(r) ==
    \/ CodeRefused(r) \/ CodeAccepted(r) \/ LoadAccount(r)
    \/ DeletePending(r) \/ Flush(r) \/ Commit(r) \/ Crash(r)

Next ==
    \/ Enroll \/ PendingExpires
    \/ \E r \in Requests : Verify(r) \/ \E code \in 0..generated : VerifyArrives(r, code)

Spec == Init /\ [][Next]_vars

-----------------------------------------------------------------------------
(* Properties. *)

TypeOK ==
    /\ generated \in 0..MaxSecrets
    /\ pending \in 0..generated /\ stored \in 0..generated
    /\ req \in [Requests -> [pc: {"idle", "get", "load", "delete", "flush", "commit"},
                             code: 0..generated, secret: 0..generated, writes: BOOLEAN]]
    /\ confirmed \in 0..generated
    /\ accepted \subseteq 1..generated /\ excused \subseteq 1..generated

(* A code never activates another secret than the one it was computed      *)
(* from, although a new enrolment may replace the pending secret while the *)
(* code is being verified.                                                 *)
OnlyConfirmedIsStored == stored \in accepted \cup {NoSecret}

(* The secret shown last can still be confirmed, or is stored: a wrong     *)
(* code, a second attempt or an older verify do not lose it.  Exempt are a *)
(* key that has expired, a verify that was lost after the deletion, and a  *)
(* secret generated or confirmed while an older one was being verified.    *)
EnrolmentIsNotLost ==
    generated \in excused \cup {NoSecret, pending, stored}
        \/ \E r \in Requests : PastCheck(r) /\ req[r].secret = generated

(* The account ends up with the secret that was confirmed last, under the  *)
(* same exemptions: a second enrolment replaces the first.                 *)
LastConfirmedIsStored ==
    confirmed \in excused \cup {NoSecret, stored}
        \/ \E r \in Requests : PastCheck(r) /\ req[r].secret = confirmed
=============================================================================
