------------------------------ MODULE MCRedis ------------------------------
(* What the backend keeps in Redis: the failure counter and lock of an     *)
(* identity (two attempts, a cap of two, one request lost), the counter of *)
(* an address (two refreshes at a time, a limit of three, one request      *)
(* lost) and the pending TOTP secret of an account (two verifies, three    *)
(* secrets).  The three share no key, no row and no request, so that one   *)
(* of them moves while the others are at rest and nothing is left out.     *)
EXTENDS LoginThrottle

CONSTANTS a1, a2,
          h1, h2, Hitters, Limit, MaxOrphans,
          v1, v2, Verifies, MaxSecrets

VARIABLES rlHits, rlHasTtl, rlStage, rlOrphans, rlAdmitted,
          toGenerated, toPending, toStored, toReq, toConfirmed, toAccepted, toExcused

rlVars == <<rlHits, rlHasTtl, rlStage, rlOrphans, rlAdmitted>>
toVars == <<toGenerated, toPending, toStored, toReq, toConfirmed, toAccepted, toExcused>>

Limiter == INSTANCE RateLimiter WITH hits <- rlHits, hasTtl <- rlHasTtl,
             stage <- rlStage, orphans <- rlOrphans, admitted <- rlAdmitted

Totp == INSTANCE TotpEnrolment WITH Requests <- Verifies,
             generated <- toGenerated, pending <- toPending, stored <- toStored,
             req <- toReq, confirmed <- toConfirmed, accepted <- toAccepted,
             excused <- toExcused

ASSUME InstancesAssumption ==
    Limiter!LimiterAssumption /\ Totp!EnrolmentAssumption

ThrottleMoves == Limiter!Init /\ Totp!Init /\ Next /\ UNCHANGED <<rlVars, toVars>>
LimiterMoves == Init /\ Totp!Init /\ Limiter!Next /\ UNCHANGED <<vars, toVars>>
TotpMoves == Init /\ Limiter!Init /\ Totp!Next /\ UNCHANGED <<vars, rlVars>>

RedisInit == Init /\ Limiter!Init /\ Totp!Init

RedisSpec ==
    /\ RedisInit
    /\ [][ThrottleMoves \/ LimiterMoves \/ TotpMoves]_<<vars, rlVars, toVars>>
    /\ Limiter!Fairness

AdmittedWithinLimit == Limiter!AdmittedWithinLimit
WindowWillClose == Limiter!WindowWillClose
RefusalEnds == Limiter!RefusalEnds
OnlyConfirmedIsStored == Totp!OnlyConfirmedIsStored
EnrolmentIsNotLost == Totp!EnrolmentIsNotLost
LastConfirmedIsStored == Totp!LastConfirmedIsStored
=============================================================================
