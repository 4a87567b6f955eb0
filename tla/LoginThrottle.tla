--------------------------- MODULE LoginThrottle ---------------------------
(***************************************************************************)
(* Login attempts for one identity (slug:email) against the Redis throttle *)
(* of core/rate_limit.py:LoginThrottle, as called by                       *)
(* domains/auth/service.py:login.  Every Redis command is atomic and is a  *)
(* step of its own; attempts run in any number of API processes, so their  *)
(* commands interleave.  What the database says of the attempt (unknown    *)
(* tenant or account, inactive account, wrong password, wrong or missing   *)
(* TOTP code: "wrong"; tenant suspended or cancelled: "blocked"; else      *)
(* "right") is chosen on arrival.                                          *)
(***************************************************************************)
EXTENDS Naturals, FiniteSets

CONSTANTS
    Attempts,    \* slots for login requests executing at the same time
    Max,         \* settings.login_max_attempts
    MaxCrashes   \* bound on the requests lost half-way

ASSUME ThrottleAssumption ==
    /\ IsFiniteSet(Attempts)
    /\ Max \in Nat \ {0} /\ MaxCrashes \in Nat

VARIABLES
    fails,       \* value of login:fail:<identity>, 0 when there is no key
    failsEnds,   \* the key has a TTL
    lock,        \* login:lock:<identity> has TTL left (SET EX always gives it one)
    att,         \* the attempt in each slot
    auditLog,    \* audit actions of this identity that were committed
    answers,     \* history: outcomes clients have been told of
    guesses,     \* history: wrong guesses since the throttle last let go
    prolonged,   \* history: times the standing lock was set again
    crashes      \* requests lost half-way

redis == <<fails, failsEnds, lock>>
vars == <<redis, att, auditLog, answers, guesses, prolonged, crashes>>

Guesses == {"right", "wrong", "blocked"}

(* The command an attempt executes next. *)
Stages == {"idle", "check", "verify", "expire", "lock", "clearFails",
           "clear", "commit", "raise"}

Idle == [pc |-> "idle", guess |-> "right", count |-> 0]

Goto(a, to) == att' = [att EXCEPT ![a].pc = to]

Init ==
    /\ fails = 0 /\ failsEnds = FALSE
    /\ lock = FALSE
    /\ att = [a \in Attempts |-> Idle]
    /\ auditLog = {} /\ answers = {}
    /\ guesses = 0 /\ prolonged = 0 /\ crashes = 0

Arrives(a, g) ==
    /\ att[a].pc = "idle"
    /\ att' = [att EXCEPT ![a] = [pc |-> "check", guess |-> g, count |-> 0]]
    /\ UNCHANGED <<redis, auditLog, answers, guesses, prolonged, crashes>>

(* throttle.check: a positive TTL of the lock key.  A locked identity is   *)
(* answered 423.                                                           *)
CheckLocked(a) ==
    /\ att[a].pc = "check" /\ lock
    /\ att' = [att EXCEPT ![a] = Idle]
    /\ answers' = answers \cup {"locked"}
    /\ UNCHANGED <<redis, auditLog, guesses, prolonged, crashes>>

(* Mutant: the lock is not looked at. *)
CheckNothing(a) == att[a].pc = "check"

IsOpen(a) == att[a].pc = "check" /\ ~lock

CheckOpen(a) ==
    /\ IsOpen(a)
    /\ Goto(a, "verify")
    /\ UNCHANGED <<redis, auditLog, answers, guesses, prolonged, crashes>>

(* A suspended tenant: an audit row, and TenantUnavailable is raised       *)
(* without touching the throttle.                                          *)
VerifyBlocked(a) ==
    /\ att[a].pc = "verify" /\ att[a].guess = "blocked"
    /\ Goto(a, "raise")
    /\ UNCHANGED <<redis, auditLog, answers, guesses, prolonged, crashes>>

VerifyRight(a) ==
    /\ att[a].pc = "verify" /\ att[a].guess = "right"
    /\ Goto(a, "clear")
    /\ UNCHANGED <<redis, auditLog, answers, guesses, prolonged, crashes>>

(* What follows INCR: EXPIRE on the first failure, the lock at the cap.    *)
AfterExpire(count) == IF count >= Max THEN "lock" ELSE "raise"

(* Mutants: the deadline is set on the second failure; the lock comes one  *)
(* failure too late.                                                       *)
ExpireOnSecond(count) == IF count = 2 THEN "expire" ELSE AfterExpire(count)
LockOneLate(count) ==
    IF count = 1 THEN "expire" ELSE IF count > Max THEN "lock" ELSE "raise"

AfterIncr(count) == IF count = 1 THEN "expire" ELSE AfterExpire(count)

(* record_failure: INCR of the counter; a key it creates has no TTL. *)
VerifyWrong(a) ==
    /\ att[a].pc = "verify" /\ att[a].guess = "wrong"
    /\ fails' = fails + 1
    /\ att' = [att EXCEPT ![a].pc = AfterIncr(fails + 1),
                          ![a].count = fails + 1]
    /\ guesses' = guesses + 1
    /\ UNCHANGED <<failsEnds, lock, auditLog, answers, prolonged, crashes>>

(* Mutant: the counter is taken to exist still when EXPIRE arrives. *)
CounterStays == TRUE

CounterExists == fails > 0

(* EXPIRE does nothing when the key is gone. *)
Expire(a) ==
    /\ att[a].pc = "expire"
    /\ failsEnds' = CounterExists
    /\ Goto(a, AfterExpire(att[a].count))
    /\ UNCHANGED <<fails, lock, auditLog, answers, guesses, prolonged, crashes>>

(* SET EX: a lock that stands gets its full TTL again. *)
SetLock(a) ==
    /\ att[a].pc = "lock"
    /\ lock' = TRUE
    /\ prolonged' = IF lock THEN prolonged + 1 ELSE 0
    /\ Goto(a, "clearFails")
    /\ UNCHANGED <<fails, failsEnds, auditLog, answers, guesses, crashes>>

(* DEL of the counter.  When the lock it followed is gone by then, it      *)
(* wipes failures that have nothing to do with that lock.                  *)
ClearFails(a) ==
    /\ att[a].pc = "clearFails"
    /\ fails' = 0 /\ failsEnds' = FALSE
    /\ guesses' = IF lock THEN guesses ELSE 0
    /\ Goto(a, "raise")
    /\ UNCHANGED <<lock, auditLog, answers, prolonged, crashes>>

(* The audit row has been flushed; the exception that becomes the 401, 403 *)
(* or 423 leaves through session.begin(), which rolls the row back.        *)
Raise(a) ==
    /\ att[a].pc = "raise"
    /\ att' = [att EXCEPT ![a] = Idle]
    /\ answers' = answers \cup {IF att[a].guess = "wrong" THEN "failed" ELSE "blocked"}
    /\ UNCHANGED <<redis, auditLog, guesses, prolonged, crashes>>

(* record_success: one DEL of both keys. *)
ClearBoth(a) ==
    /\ att[a].pc = "clear"
    /\ fails' = 0 /\ failsEnds' = FALSE
    /\ lock' = FALSE
    /\ guesses' = 0 /\ prolonged' = 0
    /\ Goto(a, "commit")
    /\ UNCHANGED <<auditLog, answers, crashes>>

Commit(a) ==
    /\ att[a].pc = "commit"
    /\ att' = [att EXCEPT ![a] = Idle]
    /\ auditLog' = auditLog \cup {"ADMIN_LOGIN_SUCCEEDED"}
    /\ answers' = answers \cup {"succeeded"}
    /\ UNCHANGED <<redis, guesses, prolonged, crashes>>

(* The process dies, or a Redis or database call fails. *)
Crash(a) ==
    /\ att[a].pc # "idle" /\ crashes < MaxCrashes
    /\ crashes' = crashes + 1
    /\ att' = [att EXCEPT ![a] = Idle]
    /\ UNCHANGED <<redis, auditLog, answers, guesses, prolonged>>

(* Redis drops a key at the end of its TTL. *)
WindowEnds ==
    /\ fails > 0 /\ failsEnds
    /\ fails' = 0 /\ failsEnds' = FALSE
    /\ guesses' = 0
    /\ UNCHANGED <<lock, att, auditLog, answers, prolonged, crashes>>

LockoutEnds ==
    /\ lock
    /\ lock' = FALSE
    /\ guesses' = 0 /\ prolonged' = 0
    /\ UNCHANGED <<fails, failsEnds, att, auditLog, answers, crashes>>

Fail(a) == VerifyWrong(a) \/ Expire(a) \/ SetLock(a) \/ ClearFails(a) \/ Raise(a)

Serve(a) ==
    \/ CheckLocked(a) \/ CheckOpen(a) \/ VerifyBlocked(a) \/ VerifyRight(a)
    \/ Fail(a) \/ ClearBoth(a) \/ Commit(a)

Next ==
    \/ \E a \in Attempts : \/ \E g \in Guesses : Arrives(a, g)
                           \/ Serve(a) \/ Crash(a)
    \/ WindowEnds \/ LockoutEnds

Spec == Init /\ [][Next]_vars

-----------------------------------------------------------------------------
(* Properties. *)

TypeOK ==
    /\ fails \in Nat /\ failsEnds \in BOOLEAN
    /\ lock \in BOOLEAN /\ (failsEnds => fails > 0)
    /\ att \in [Attempts -> [pc: Stages, guess: Guesses, count: Nat]]
    /\ auditLog \subseteq {"ADMIN_LOGIN_SUCCEEDED", "ADMIN_LOGIN_FAILED",
                           "ADMIN_LOGIN_BLOCKED"}
    /\ answers \subseteq {"locked", "failed", "blocked", "succeeded"}
    /\ guesses \in Nat /\ prolonged \in Nat /\ crashes \in 0..MaxCrashes

(* The cap holds whatever the interleaving.  The throttle lets go when a   *)
(* login succeeds, a TTL ends, or the counter is deleted with no lock      *)
(* standing; in between an identity can be guessed Max times, once more    *)
(* for every other attempt already past the check when the lock is set,    *)
(* and once more for every failure that was lost before it set the lock.   *)
GuessesAreBounded == guesses <= Max - 1 + Cardinality(Attempts) + crashes

(* The failure counter has a deadline, or an attempt is about to give it   *)
(* one; only a crash between INCR and EXPIRE leaves it without.            *)
CounterHasDeadline ==
    fails > 0 /\ crashes = 0 =>
        failsEnds \/ \E a \in Attempts : att[a].pc = "expire"

(* A lockout cannot be stretched from outside.  Each SET gives the lock    *)
(* its full TTL again, but only attempts that were past the check when it  *)
(* was first set may send one, and each of them once, whoever knocks at    *)
(* the locked identity meanwhile.                                          *)
LockoutIsBounded == lock => prolonged < Cardinality(Attempts)

(* What Technical_Debt/sprint-2/Fixed_Tech_Debt.md says of failed logins:  *)
(* they are audited.  (Violated: the row is rolled back.)                  *)
FailedLoginsAreAudited == "failed" \in answers => "ADMIN_LOGIN_FAILED" \in auditLog

(* What docs/architecture/01-architecture-overview.md says of the Redis    *)
(* counters: INCR and TTL are atomic.  (Violated: a request lost between   *)
(* the two leaves a counter that never expires.)                           *)
IncrSetsDeadline ==
    (\A a \in Attempts : att[a].pc = "idle") /\ fails > 0 => failsEnds
=============================================================================
