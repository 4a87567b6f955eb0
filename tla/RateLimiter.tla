---------------------------- MODULE RateLimiter ----------------------------
(***************************************************************************)
(* The fixed-window limiter in front of /auth/refresh                      *)
(* (core/rate_limit.py:RedisRateLimiter.hit), for one address: the counter *)
(* refresh:<ip> in Redis, hit by requests of any API process, one command  *)
(* per step.  The address is the one the backend sees: for every browser   *)
(* behind the Next.js server it is that server, which forwards no header.  *)
(***************************************************************************)
EXTENDS Naturals

CONSTANTS
    Hitters,   \* slots for requests inside hit() at the same time
    Limit,     \* settings.refresh_max_per_window
    MaxOrphans \* bound on requests lost between the two commands

LimiterAssumption == Limit \in Nat \ {0} /\ MaxOrphans \in Nat

VARIABLES
    hits,      \* value of the key, 0 when there is none, Limit + 1 for any above
    hasTtl,    \* the key has a TTL
    stage,     \* where each request stands
    orphans,   \* requests lost between INCR and EXPIRE
    admitted   \* history: requests let through since the window opened

vars == <<hits, hasTtl, stage, orphans, admitted>>

Init ==
    /\ hits = 0 /\ hasTtl = FALSE
    /\ stage = [h \in Hitters |-> "idle"]
    /\ orphans = 0 /\ admitted = 0

(* Mutant: strictly more than the limit is still within it. *)
AllowsOneMore(count) == count <= Limit + 1
Allows(count) == count <= Limit

(* Mutants: the deadline is set by the hit that reaches the limit; it is   *)
(* never set.                                                              *)
ExpireAtLimit(count) == IF count = Limit THEN "expire" ELSE "idle"
NeverExpire(count) == "idle"
AfterIncr(count) == IF count = 1 THEN "expire" ELSE "idle"

(* INCR, and the verdict it decides. *)
Incr(h) ==
    LET count == hits + 1 IN
    /\ stage[h] = "idle"
    /\ hits' = IF count > Limit THEN Limit + 1 ELSE count
    /\ stage' = [stage EXCEPT ![h] = AfterIncr(count)]
    /\ admitted' = IF Allows(count) THEN admitted + 1 ELSE admitted
    /\ UNCHANGED <<hasTtl, orphans>>

(* EXPIRE does nothing to a key that is gone. *)
Expire(h) ==
    /\ stage[h] = "expire"
    /\ hasTtl' = (hits > 0)
    /\ stage' = [stage EXCEPT ![h] = "idle"]
    /\ UNCHANGED <<hits, orphans, admitted>>

(* The process or its connection to Redis dies between the commands. *)
Orphan(h) ==
    /\ stage[h] = "expire" /\ orphans < MaxOrphans
    /\ stage' = [stage EXCEPT ![h] = "idle"]
    /\ orphans' = orphans + 1
    /\ UNCHANGED <<hits, hasTtl, admitted>>

WindowEnds ==
    /\ hasTtl
    /\ hits' = 0 /\ hasTtl' = FALSE /\ admitted' = 0
    /\ UNCHANGED <<stage, orphans>>

Next ==
    \/ \E h \in Hitters : Incr(h) \/ Expire(h) \/ Orphan(h)
    \/ WindowEnds

(* A request inside hit() keeps running, and Redis drops keys in time. *)
Fairness == (\A h \in Hitters : WF_vars(Expire(h))) /\ WF_vars(WindowEnds)

Spec == Init /\ [][Next]_vars

-----------------------------------------------------------------------------
(* Properties. *)

TypeOK ==
    /\ hits \in 0..(Limit + 1) /\ hasTtl \in BOOLEAN
    /\ stage \in [Hitters -> {"idle", "expire"}]
    /\ orphans \in 0..MaxOrphans /\ admitted \in Nat

(* No more than the limit gets through in a window, however many requests  *)
(* hit the counter at the same time.                                       *)
AdmittedWithinLimit == admitted <= Limit

(* A window that was opened will close: it has a deadline, or the request  *)
(* that opened it is about to set one.  Only a request lost between the    *)
(* two commands leaves the counter, and the refusals, standing for good.   *)
WindowWillClose ==
    hits > 0 /\ orphans = 0 => hasTtl \/ \E h \in Hitters : stage[h] = "expire"

(* An address that was refused is let through again. *)
RefusalEnds == hits > Limit ~> hits <= Limit \/ orphans > 0
=============================================================================
