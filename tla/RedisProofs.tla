---------------------------- MODULE RedisProofs ----------------------------
(***************************************************************************)
(* What the backend keeps in Redis besides the login throttle, for any     *)
(* number of requests, secrets and any limit: the counter of the limiter   *)
(* (RateLimiter) and the pending TOTP secret (TotpEnrolment), as the two   *)
(* instances of MCRedis.                                                   *)
(***************************************************************************)
EXTENDS MCRedis, LoginThrottleProofs

-----------------------------------------------------------------------------
(* The limiter. *)

(* Every request let through has moved the counter. *)
LimiterInv ==
    /\ Limiter!TypeOK
    /\ rlAdmitted <= rlHits /\ rlAdmitted <= Limit
    /\ Limiter!WindowWillClose

(* A hit moves the counter, up to the limit together with what it lets     *)
(* through; the first hit of a window is due to set the deadline.          *)
LEMMA HitStep ==
    ASSUME LimiterInv, NEW h \in Hitters, Limiter!Incr(h) PROVE LimiterInv'
<1> USE InstancesAssumption DEF Limiter!LimiterAssumption, LimiterInv, Limiter!TypeOK
<1>1. Limiter!AfterIncr(rlHits + 1) = IF rlHits = 0 THEN "expire" ELSE "idle"
  BY DEF Limiter!AfterIncr
<1>2. Limiter!TypeOK'
  BY <1>1 DEF Limiter!Incr
<1>3. rlAdmitted' <= rlHits' /\ rlAdmitted' <= Limit
  BY DEF Limiter!Incr, Limiter!Allows
<1>4. Limiter!WindowWillClose'
  BY <1>1 DEF Limiter!Incr, Limiter!WindowWillClose
<1> QED  BY <1>2, <1>3, <1>4

(* EXPIRE gives a deadline to a counter that is there. *)
LEMMA DeadlineStep ==
    ASSUME LimiterInv, NEW h \in Hitters, Limiter!Expire(h) PROVE LimiterInv'
<1> USE InstancesAssumption DEF Limiter!LimiterAssumption, LimiterInv, Limiter!TypeOK,
        Limiter!Expire
<1>1. Limiter!TypeOK'
  OBVIOUS
<1>2. Limiter!WindowWillClose'
  BY DEF Limiter!WindowWillClose
<1> QED  BY <1>1, <1>2

(* Every step of the limiter keeps what is known of its counter. *)
LEMMA LimiterStep == LimiterInv /\ [Limiter!Next]_rlVars => LimiterInv'
<1> SUFFICES ASSUME LimiterInv, [Limiter!Next]_rlVars PROVE LimiterInv'
  OBVIOUS
<1> USE InstancesAssumption DEF Limiter!LimiterAssumption
<1>1. ASSUME NEW h \in Hitters, Limiter!Orphan(h) PROVE LimiterInv'
  BY <1>1 DEF LimiterInv, Limiter!TypeOK, Limiter!Orphan, Limiter!WindowWillClose
<1>2. CASE Limiter!WindowEnds
  <2>1. Limit \in Nat
    BY InstancesAssumption DEF InstancesAssumption, Limiter!LimiterAssumption
  <2>2. /\ rlHits' = 0 /\ rlHasTtl' = FALSE /\ rlAdmitted' = 0
        /\ UNCHANGED <<rlStage, rlOrphans>>
    BY <1>2 DEF Limiter!WindowEnds
  <2>3. Limiter!TypeOK'
    <3>1. rlHits' \in 0..(Limit + 1)
      BY <2>1, <2>2
    <3>2. rlHasTtl' \in BOOLEAN
      BY <2>2
    <3>3. rlStage' \in [Hitters -> {"idle", "expire"}]
      BY <2>2 DEF LimiterInv, Limiter!TypeOK
    <3>4. rlOrphans' \in 0..MaxOrphans /\ rlAdmitted' \in Nat
      BY <2>2 DEF LimiterInv, Limiter!TypeOK
    <3> QED BY <3>1, <3>2, <3>3, <3>4 DEF Limiter!TypeOK
  <2>4. Limiter!WindowWillClose'
    BY <2>2 DEF Limiter!WindowWillClose
  <2> QED
    BY <2>1, <2>2, <2>3, <2>4 DEF LimiterInv
<1>3. CASE UNCHANGED rlVars
  BY <1>3 DEF LimiterInv, Limiter!TypeOK, rlVars, Limiter!WindowWillClose
<1> QED  BY <1>1, <1>2, <1>3, HitStep, DeadlineStep DEF Limiter!Next

-----------------------------------------------------------------------------
(* The second factor. *)

(* The pending secret is the one generated last, and so is the one that is *)
(* confirmed: no code of an older secret is accepted.                      *)
Confirmations ==
    /\ toPending \in {Totp!NoSecret, toGenerated}
    /\ toAccepted \subseteq 1..toConfirmed
    /\ toStored \in toAccepted \cup {Totp!NoSecret}
    /\ \A r \in Verifies : Totp!PastCheck(r) => toReq[r].secret \in toAccepted

(* A verify about to delete the pending secret deletes its own, or one     *)
(* that was generated behind its back.                                     *)
Deletions ==
    \A r \in Verifies :
        Totp!At(r, {"load", "delete"}) =>
            toPending \in toExcused \cup {Totp!NoSecret, toReq[r].secret}

(* Verifies overlap without harm as long as they carry one secret; one     *)
(* that has found it stored finds it stored until it commits.              *)
Rivals ==
    toConfirmed \notin toExcused =>
        \A r \in Verifies :
            /\ Totp!PastCheck(r) => toReq[r].secret = toConfirmed
            /\ Totp!At(r, {"delete", "flush", "commit"}) /\ ~toReq[r].writes =>
                  toStored = toConfirmed

(* All that, the types and the two promises themselves. *)
EnrolmentInv ==
    /\ Totp!TypeOK
    /\ Confirmations /\ Deletions /\ Rivals
    /\ Totp!EnrolmentIsNotLost /\ Totp!LastConfirmedIsStored

(* Secrets, requests and the history keep their types.                     *)
LEMMA EnrolmentTypes ==
    ASSUME Totp!TypeOK, Confirmations, [Totp!Next]_toVars PROVE Totp!TypeOK'
<1> USE DEF Totp!At, Totp!NoSecret, Totp!history
<1> DEFINE Slot == [pc: {"idle", "get", "load", "delete", "flush", "commit"},
                    code: 0..toGenerated, secret: 0..toGenerated, writes: BOOLEAN]
<1>0. MaxSecrets \in Nat
  BY InstancesAssumption DEF InstancesAssumption, Totp!EnrolmentAssumption
<1>a. /\ toGenerated \in 0..MaxSecrets /\ toReq \in [Verifies -> Slot]
      /\ toPending \in 0..toGenerated /\ toStored \in 0..toGenerated
      /\ toConfirmed \in 0..toGenerated
      /\ toAccepted \subseteq 1..toGenerated /\ toExcused \subseteq 1..toGenerated
  BY DEF Totp!TypeOK
<1>b. Totp!Idle \in Slot
  BY <1>0, <1>a DEF Totp!Idle
<1>1. CASE Totp!Enroll
  <2>1. toGenerated' = toGenerated + 1 /\ toGenerated + 1 \in 0..MaxSecrets
    BY <1>0, <1>1 DEF Totp!Enroll, Totp!Secrets
  <2>2. /\ toPending' \in 0..toGenerated' /\ toStored' \in 0..toGenerated'
        /\ toConfirmed' \in 0..toGenerated'
    BY <1>0, <1>1, <1>a, <2>1 DEF Totp!Enroll
  <2>3. toAccepted' \subseteq 1..toGenerated' /\ toExcused' \subseteq 1..toGenerated'
    BY <1>0, <1>1, <1>a, <2>1 DEF Totp!Enroll
  <2>4. 0..toGenerated \subseteq 0..toGenerated'
    BY <1>0, <1>a, <2>1
  <2>5. toReq' = toReq
    BY <1>1 DEF Totp!Enroll
  <2>6. toReq' \in [Verifies -> Slot']
    BY <1>a, <2>4, <2>5
  <2> QED  BY <2>1, <2>2, <2>3, <2>6 DEF Totp!TypeOK
<1>2. CASE Totp!PendingExpires
  BY <1>0, <1>2, <1>a DEF Totp!PendingExpires, Totp!TypeOK
<1>3. ASSUME NEW r \in Verifies,
             Totp!Verify(r) \/ \E code \in 0..toGenerated : Totp!VerifyArrives(r, code)
      PROVE Totp!TypeOK'
  <2>1. toReq' \in [Verifies -> Slot]
    <3>1. ASSUME NEW code \in 0..toGenerated, Totp!VerifyArrives(r, code)
          PROVE  toReq' \in [Verifies -> Slot]
      <4>1. [Totp!Idle EXCEPT !.pc = "get", !.code = code] \in Slot
        BY <1>b
      <4> QED  BY <1>a, <3>1, <4>1 DEF Totp!VerifyArrives
    <3>2. CASE Totp!CodeRefused(r) \/ Totp!Commit(r) \/ Totp!Crash(r)
      BY <1>a, <1>b, <3>2 DEF Totp!CodeRefused, Totp!Commit, Totp!Crash
    <3>3. CASE Totp!CodeAccepted(r)
      <4>1. [toReq[r] EXCEPT !.pc = "load", !.secret = toPending] \in Slot
        BY <1>a
      <4> QED  BY <1>a, <3>3, <4>1 DEF Totp!CodeAccepted
    <3>4. CASE Totp!LoadAccount(r) \/ Totp!DeletePending(r) \/ Totp!Flush(r)
      BY <1>a, <3>4 DEF Totp!LoadAccount, Totp!DeletePending, Totp!SecretToStore, Totp!Flush
    <3> QED  BY <1>3, <3>1, <3>2, <3>3, <3>4 DEF Totp!Verify
  <2>2. /\ toGenerated' = toGenerated
        /\ toPending' \in 0..toGenerated /\ toStored' \in 0..toGenerated
        /\ toConfirmed' \in 0..toGenerated
    <3>1. CASE Totp!CodeRefused(r) \/ Totp!CodeAccepted(r) \/ Totp!LoadAccount(r)
      BY <3>1, <1>a DEF Totp!CodeRefused, Totp!KeptOnWrongCode, Totp!CodeAccepted,
                        Totp!LoadAccount
    <3>2. CASE Totp!DeletePending(r) \/ Totp!Flush(r) \/ Totp!Crash(r)
      BY <1>0, <1>a, <3>2 DEF Totp!DeletePending, Totp!Flush, Totp!Crash
    <3>3. CASE Totp!Commit(r)
      BY <1>a, <3>3 DEF Totp!Commit, Totp!NewSecret
    <3>4. CASE \E code \in 0..toGenerated : Totp!VerifyArrives(r, code)
      BY <1>a, <3>4 DEF Totp!VerifyArrives
    <3> QED  BY <1>3, <3>1, <3>2, <3>3, <3>4 DEF Totp!Verify
  <2>3. toAccepted' \subseteq 1..toGenerated /\ toExcused' \subseteq 1..toGenerated
    <3>1. CASE Totp!CodeAccepted(r)
      BY <1>0, <1>a, <3>1 DEF Totp!CodeAccepted
    <3>2. CASE Totp!Crash(r)
      BY <1>0, <1>a, <3>2 DEF Totp!Crash, Confirmations
    <3>3. CASE UNCHANGED <<toAccepted, toExcused>>
      BY <1>a, <3>3
    <3> QED  BY <1>3, <3>1, <3>2, <3>3
        DEF Totp!Verify, Totp!VerifyArrives, Totp!CodeRefused, Totp!LoadAccount,
            Totp!DeletePending, Totp!Flush, Totp!Commit
  <2> QED  BY <1>a, <2>1, <2>2, <2>3 DEF Totp!TypeOK
<1>4. CASE UNCHANGED toVars
  BY <1>4 DEF toVars, Totp!TypeOK
<1> QED
  BY <1>1, <1>2, <1>3, <1>4 DEF Totp!Next

(* A step that changes no request past its check: a new enrolment, the end *)
(* of a TTL, an attempt that arrives or is refused.                        *)
LEMMA OutsideStep ==
    ASSUME EnrolmentInv, Totp!TypeOK',
           \A r \in Verifies : Totp!PastCheck(r) \/ Totp!PastCheck(r)' =>
               toReq'[r] = toReq[r],
           UNCHANGED <<toStored, toConfirmed, toAccepted>>,
           toExcused \subseteq toExcused',
           \/ UNCHANGED <<toGenerated, toPending>>
           \/ Totp!Enroll
           \/ Totp!PendingExpires
    PROVE  EnrolmentInv'
<1> USE DEF EnrolmentInv, Totp!NoSecret
<1>1. \A r \in Verifies : Totp!PastCheck(r)' <=> Totp!PastCheck(r)
  BY DEF Totp!PastCheck, Totp!At
<1>2. Confirmations'
  <2>1. toPending' \in {Totp!NoSecret, toGenerated'}
    BY DEF Confirmations, Totp!Enroll, Totp!PendingExpires
  <2> QED  BY <1>1, <2>1 DEF Confirmations
<1>3. Deletions'
  <2> SUFFICES ASSUME NEW r \in Verifies, Totp!At(r, {"load", "delete"})'
               PROVE  toPending' \in toExcused' \cup {Totp!NoSecret, toReq'[r].secret}
    BY DEF Deletions
  <2>1. Totp!At(r, {"load", "delete"}) /\ toReq'[r] = toReq[r]
    BY DEF Totp!At, Totp!PastCheck
  <2> QED  BY <2>1 DEF Deletions, Totp!Enroll, Totp!PendingExpires
<1>4. Rivals'
  <2> SUFFICES ASSUME toConfirmed' \notin toExcused', NEW r \in Verifies, Totp!PastCheck(r)'
               PROVE  /\ toReq'[r].secret = toConfirmed'
                      /\ Totp!At(r, {"delete", "flush", "commit"})' /\ ~toReq'[r].writes =>
                            toStored' = toConfirmed'
    BY DEF Rivals, Totp!PastCheck, Totp!At
  <2>1. Totp!PastCheck(r) /\ toReq'[r] = toReq[r] /\ toConfirmed \notin toExcused
    BY <1>1
  <2> QED  BY <2>1 DEF Rivals, Totp!At
<1>5. Totp!EnrolmentIsNotLost'
  <2>1. CASE UNCHANGED <<toGenerated, toPending>>
    BY <1>1, <2>1 DEF Totp!EnrolmentIsNotLost
  <2>2. CASE Totp!Enroll
    BY <2>2 DEF Totp!Enroll, Totp!EnrolmentIsNotLost
  <2>3. CASE Totp!PendingExpires
    BY <1>1, <2>3 DEF Totp!PendingExpires, Totp!EnrolmentIsNotLost
  <2> QED  BY <2>1, <2>2, <2>3
<1>6. Totp!LastConfirmedIsStored'
  BY <1>1 DEF Totp!LastConfirmedIsStored
<1> QED  BY <1>2, <1>3, <1>4, <1>5, <1>6

(* A code is only accepted of the secret generated last; a verify of       *)
(* another secret that is still running excuses it.                        *)
LEMMA AcceptStep ==
    ASSUME EnrolmentInv, Totp!TypeOK', NEW r \in Verifies, Totp!CodeAccepted(r)
    PROVE  EnrolmentInv'
<1> USE DEF EnrolmentInv, Totp!NoSecret
<1>1. /\ toPending = toGenerated /\ toPending # 0
      /\ toConfirmed' = toPending /\ toAccepted' = toAccepted \cup {toPending}
      /\ toExcused \subseteq toExcused'
      /\ UNCHANGED <<toGenerated, toPending, toStored>>
  BY DEF Totp!CodeAccepted, Confirmations
<1>2. /\ ~Totp!PastCheck(r)
      /\ toReq'[r].pc = "load" /\ toReq'[r].secret = toPending
      /\ \A s \in Verifies : s # r => toReq'[s] = toReq[s]
  BY DEF Totp!CodeAccepted, Totp!TypeOK, Totp!PastCheck, Totp!At
<1>3. /\ Totp!PastCheck(r)'
      /\ \A s \in Verifies : s # r => (Totp!PastCheck(s)' <=> Totp!PastCheck(s))
  BY <1>2 DEF Totp!PastCheck, Totp!At
<1>4. Confirmations'
  <2>1. toConfirmed \in 0..toGenerated /\ toGenerated \in Nat
    BY InstancesAssumption DEF InstancesAssumption, Totp!EnrolmentAssumption, Totp!TypeOK
  <2>2. toAccepted' \subseteq 1..toConfirmed'
    BY <1>1, <2>1 DEF Confirmations
  <2> QED  BY <1>1, <1>2, <1>3, <2>2 DEF Confirmations
<1>5. Deletions'
  <2> SUFFICES ASSUME NEW s \in Verifies, Totp!At(s, {"load", "delete"})'
               PROVE  toPending' \in toExcused' \cup {Totp!NoSecret, toReq'[s].secret}
    BY DEF Deletions
  <2>1. CASE s = r
    BY <1>1, <1>2, <2>1
  <2>2. CASE s # r
    BY <1>1, <1>2, <2>2 DEF Deletions, Totp!At
  <2> QED  BY <2>1, <2>2
<1>6. Rivals'
  <2> SUFFICES ASSUME toConfirmed' \notin toExcused', NEW s \in Verifies, Totp!PastCheck(s)'
               PROVE  /\ toReq'[s].secret = toConfirmed'
                      /\ Totp!At(s, {"delete", "flush", "commit"})' /\ ~toReq'[s].writes =>
                            toStored' = toConfirmed'
    BY DEF Rivals, Totp!PastCheck, Totp!At
  <2>1. CASE s = r
    BY <1>1, <1>2, <2>1 DEF Totp!At
  <2>2. CASE s # r
    <3>1. toReq'[s] = toReq[s] /\ Totp!PastCheck(s)
      BY <1>2, <1>3, <2>2
    <3>2. toReq[s].secret = toPending
      BY <1>1, <3>1 DEF Totp!CodeAccepted
    <3>3. toConfirmed = toPending
      <4>1. toPending \in 1..toConfirmed
        BY <3>1, <3>2 DEF Confirmations
      <4>2. toConfirmed \in 0..toGenerated /\ toGenerated \in Nat
        BY DEF Totp!TypeOK
      <4> QED  BY <1>1, <4>1, <4>2
    <3>4. toConfirmed \notin toExcused
      BY <1>1, <3>3
    <3> QED  BY <1>1, <3>1, <3>2, <3>3, <3>4 DEF Rivals, Totp!At
  <2> QED  BY <2>1, <2>2
<1>7. Totp!EnrolmentIsNotLost'
  BY <1>1 DEF Totp!EnrolmentIsNotLost
<1>8. Totp!LastConfirmedIsStored'
  BY <1>1, <1>2, <1>3 DEF Totp!LastConfirmedIsStored
<1> QED  BY <1>4, <1>5, <1>6, <1>7, <1>8

(* Between its check and its commit a verify keeps its secret; the pending *)
(* secret it deletes is its own or excused.                                *)
LEMMA WorkStep ==
    ASSUME EnrolmentInv, Totp!TypeOK', NEW r \in Verifies,
           Totp!LoadAccount(r) \/ Totp!DeletePending(r) \/ Totp!Flush(r)
    PROVE  EnrolmentInv'
<1> USE DEF EnrolmentInv, Totp!NoSecret, Totp!history
<1>1. /\ UNCHANGED <<toGenerated, toStored, toConfirmed, toAccepted, toExcused>>
      /\ toPending' \in {toPending, 0}
      /\ Totp!LoadAccount(r) \/ Totp!Flush(r) => toPending' = toPending
  BY DEF Totp!LoadAccount, Totp!DeletePending, Totp!Flush
<1>2. /\ Totp!PastCheck(r) /\ toReq'[r].secret = toReq[r].secret
      /\ toReq'[r].pc \in {"delete", "flush", "commit"}
      /\ \A s \in Verifies : s # r => toReq'[s] = toReq[s]
      /\ ~toReq'[r].writes =>
            \/ toReq[r].secret = toStored
            \/ ~toReq[r].writes /\ toReq[r].pc \in {"delete", "flush"}
  BY DEF Totp!LoadAccount, Totp!DeletePending, Totp!SecretToStore, Totp!Flush,
         Totp!TypeOK, Totp!PastCheck, Totp!At
<1>3. \A s \in Verifies : /\ Totp!PastCheck(s)' <=> Totp!PastCheck(s)
                          /\ toReq'[s].secret = toReq[s].secret
  BY <1>2 DEF Totp!PastCheck, Totp!At
<1>4. Confirmations'
  BY <1>1, <1>3 DEF Confirmations
<1>5. Deletions'
  <2> SUFFICES ASSUME NEW s \in Verifies, Totp!At(s, {"load", "delete"})'
               PROVE  toPending' \in toExcused' \cup {Totp!NoSecret, toReq'[s].secret}
    BY DEF Deletions
  <2>1. Totp!At(s, {"load", "delete"})
    BY <1>2 DEF Totp!At, Totp!LoadAccount, Totp!DeletePending, Totp!Flush, Totp!TypeOK
  <2> QED  BY <1>1, <1>3, <2>1 DEF Deletions
<1>6. Rivals'
  <2> SUFFICES ASSUME toConfirmed' \notin toExcused', NEW s \in Verifies, Totp!PastCheck(s)'
               PROVE  /\ toReq'[s].secret = toConfirmed'
                      /\ Totp!At(s, {"delete", "flush", "commit"})' /\ ~toReq'[s].writes =>
                            toStored' = toConfirmed'
    BY DEF Rivals, Totp!PastCheck, Totp!At
  <2>1. toReq[s].secret = toConfirmed /\ toConfirmed \notin toExcused
    BY <1>1, <1>3 DEF Rivals
  <2>2. CASE s = r
    BY <1>1, <1>2, <1>3, <2>1, <2>2 DEF Rivals, Totp!At
  <2>3. CASE s # r
    BY <1>1, <1>2, <2>1, <2>3 DEF Rivals, Totp!At
  <2> QED  BY <2>2, <2>3
<1>7. Totp!EnrolmentIsNotLost'
  <2>1. CASE toPending' = toPending
    BY <1>1, <1>3, <2>1 DEF Totp!EnrolmentIsNotLost
  <2>2. CASE Totp!DeletePending(r)
    <3>1. toPending \in toExcused \cup {0, toReq[r].secret}
      BY <2>2 DEF Totp!DeletePending, Deletions, Totp!At
    <3> QED  BY <1>1, <1>2, <1>3, <3>1 DEF Totp!EnrolmentIsNotLost
  <2> QED  BY <1>1, <2>1, <2>2
<1>8. Totp!LastConfirmedIsStored'
  BY <1>1, <1>3 DEF Totp!LastConfirmedIsStored
<1> QED  BY <1>4, <1>5, <1>6, <1>7, <1>8

(* A verify that ends leaves the secret it carried stored, or that secret  *)
(* is excused: another verify overlapped with it, or it was lost.          *)
LEMMA EndStep ==
    ASSUME EnrolmentInv, Totp!TypeOK', NEW r \in Verifies, Totp!Commit(r) \/ Totp!Crash(r)
    PROVE  EnrolmentInv'
<1> USE DEF EnrolmentInv, Totp!NoSecret, Totp!history
<1>1. /\ UNCHANGED <<toGenerated, toPending, toConfirmed, toAccepted>>
      /\ toExcused \subseteq toExcused'
  BY DEF Totp!Commit, Totp!Crash
<1>2. /\ ~Totp!PastCheck(r)' /\ ~Totp!At(r, {"load", "delete"})'
      /\ \A s \in Verifies : s # r => toReq'[s] = toReq[s]
  BY DEF Totp!Commit, Totp!Crash, Totp!Idle, Totp!TypeOK, Totp!PastCheck, Totp!At
<1>3. \A s \in Verifies : Totp!PastCheck(s)' =>
          s # r /\ toReq'[s] = toReq[s] /\ Totp!PastCheck(s)
  BY <1>2 DEF Totp!PastCheck, Totp!At
<1>4. toStored' = toStored \/ (Totp!PastCheck(r) /\ toStored' = toReq[r].secret)
  BY DEF Totp!Commit, Totp!Crash, Totp!NewSecret, Totp!PastCheck, Totp!At
<1>5. Confirmations'
  BY <1>1, <1>3, <1>4 DEF Confirmations
<1>6. Deletions'
  BY <1>1, <1>2 DEF Deletions, Totp!At
<1>7. Rivals'
  <2> SUFFICES ASSUME toConfirmed' \notin toExcused', NEW s \in Verifies, Totp!PastCheck(s)'
               PROVE  /\ toReq'[s].secret = toConfirmed'
                      /\ Totp!At(s, {"delete", "flush", "commit"})' /\ ~toReq'[s].writes =>
                            toStored' = toConfirmed'
    BY DEF Rivals, Totp!PastCheck, Totp!At
  <2>1. toConfirmed \notin toExcused
    BY <1>1
  <2> QED  BY <1>1, <1>3, <1>4, <2>1 DEF Rivals, Totp!At
<1>8. ASSUME Totp!PastCheck(r), toReq[r].secret = toConfirmed, toConfirmed \notin toExcused'
      PROVE  toStored' = toConfirmed
  <2>1. Totp!Commit(r)
    BY <1>8 DEF Totp!Crash
  <2>2. CASE toReq[r].writes
    BY <1>8, <2>1, <2>2 DEF Totp!Commit, Totp!NewSecret
  <2>3. CASE ~toReq[r].writes
    BY <1>1, <1>8, <2>1, <2>3 DEF Totp!Commit, Totp!At, Rivals
  <2> QED  BY <2>2, <2>3
<1>9. Totp!LastConfirmedIsStored'
  <2> SUFFICES ASSUME toConfirmed \notin toExcused', toConfirmed # 0
               PROVE  toConfirmed = toStored' \/ \E s \in Verifies :
                         Totp!PastCheck(s)' /\ toReq'[s].secret = toConfirmed
    BY <1>1 DEF Totp!LastConfirmedIsStored
  <2>1. CASE toStored' = toStored /\ toConfirmed = toStored
    BY <2>1
  <2>2. CASE Totp!PastCheck(r) /\ toReq[r].secret = toConfirmed
    BY <1>8, <2>2
  <2>3. CASE Totp!PastCheck(r)
    BY <1>1, <2>2, <2>3 DEF Rivals
  <2>4. CASE ~Totp!PastCheck(r)
    <3>1. toStored' = toStored
      BY <1>4, <2>4
    <3>2. \A s \in Verifies : Totp!PastCheck(s) =>
        Totp!PastCheck(s)' /\ toReq'[s] = toReq[s]
      BY <1>2, <2>4 DEF Totp!PastCheck, Totp!At
    <3> QED  BY <1>1, <3>1, <3>2 DEF Totp!LastConfirmedIsStored
  <2> QED  BY <2>3, <2>4
<1>10. Totp!EnrolmentIsNotLost'
  <2> SUFFICES ASSUME toGenerated \notin toExcused', toGenerated \notin {0, toPending}
               PROVE  toGenerated = toStored' \/ \E s \in Verifies :
                         Totp!PastCheck(s)' /\ toReq'[s].secret = toGenerated
    BY <1>1 DEF Totp!EnrolmentIsNotLost
  <2>1. toGenerated \in toAccepted
    BY <1>1 DEF Totp!EnrolmentIsNotLost, Confirmations
  <2>2. toGenerated = toConfirmed
    <3>1. toGenerated \in 1..toConfirmed
      BY <2>1 DEF Confirmations
    <3>2. toConfirmed \in 0..toGenerated /\ toGenerated \in Nat
      BY DEF Totp!TypeOK
    <3> QED  BY <3>1, <3>2
  <2> QED  BY <1>1, <1>9, <2>2 DEF Totp!LastConfirmedIsStored
<1> QED  BY <1>5, <1>6, <1>7, <1>9, <1>10

(* Every step of an enrolment keeps the secret that was confirmed last.    *)
LEMMA EnrolmentStep == EnrolmentInv /\ [Totp!Next]_toVars => EnrolmentInv'
<1> SUFFICES ASSUME EnrolmentInv, [Totp!Next]_toVars PROVE EnrolmentInv'
  OBVIOUS
<1>1. Totp!TypeOK'
  BY EnrolmentTypes DEF EnrolmentInv
<1>2. CASE Totp!Enroll
  BY <1>1, <1>2, OutsideStep DEF Totp!Enroll
<1>3. CASE Totp!PendingExpires
  BY <1>1, <1>3, OutsideStep DEF Totp!PendingExpires
<1>4. ASSUME NEW r \in Verifies,
             Totp!CodeRefused(r) \/ \E code \in 0..toGenerated : Totp!VerifyArrives(r, code)
      PROVE  EnrolmentInv'
  <2>1. UNCHANGED <<toGenerated, toPending, toStored, toConfirmed, toAccepted, toExcused>>
    BY <1>4 DEF Totp!CodeRefused, Totp!KeptOnWrongCode, Totp!VerifyArrives, Totp!history
  <2>2. ~Totp!PastCheck(r) /\ ~Totp!PastCheck(r)'
    <3>1. toReq[r].pc \in {"idle", "get"} /\ r \in DOMAIN toReq
      BY <1>4 DEF Totp!CodeRefused, Totp!VerifyArrives, Totp!At, EnrolmentInv, Totp!TypeOK
    <3>2. toReq'[r].pc \in {"idle", "get"}
      <4>1. CASE Totp!CodeRefused(r)
        BY <3>1, <4>1 DEF Totp!CodeRefused, Totp!Idle
      <4>2. CASE \E code \in 0..toGenerated : Totp!VerifyArrives(r, code)
        BY <3>1, <4>2 DEF Totp!VerifyArrives, Totp!Idle
      <4> QED  BY <1>4, <4>1, <4>2
    <3> QED  BY <3>1, <3>2 DEF Totp!PastCheck, Totp!At
  <2>3. \A s \in Verifies : s # r => toReq'[s] = toReq[s]
    BY <1>4 DEF Totp!CodeRefused, Totp!VerifyArrives, EnrolmentInv, Totp!TypeOK
  <2> QED  BY <1>1, <2>1, <2>2, <2>3, OutsideStep
<1>5. CASE UNCHANGED toVars
  BY <1>1, <1>5, OutsideStep DEF toVars
<1> QED
  BY <1>1, <1>2, <1>3, <1>4, <1>5, AcceptStep, WorkStep, EndStep DEF Totp!Next, Totp!Verify

-----------------------------------------------------------------------------
(* The three together. *)

(* A step of the system is a step, or a stutter, of each of its parts.     *)
LEMMA Parts ==
    ASSUME [ThrottleMoves \/ LimiterMoves \/ TotpMoves]_<<vars, rlVars, toVars>>
    PROVE  [Next]_vars /\ [Limiter!Next]_rlVars /\ [Totp!Next]_toVars
BY DEF ThrottleMoves, LimiterMoves, TotpMoves

(* Each of the three behaves beside the others as it does alone, so that   *)
(* the theorems about it hold of the whole.                                *)
THEOREM RedisComposes == RedisSpec => Spec /\ Limiter!Spec /\ Totp!Spec
BY Parts, PTL DEF RedisSpec, RedisInit, Spec, Limiter!Spec, Totp!Spec, rlVars, toVars,
                  Limiter!vars, Totp!vars

(* The invariant behind the two theorems about the limiter: no request is  *)
(* let through without moving the counter.                                 *)
THEOREM LimiterInvariance == Limiter!Spec => []LimiterInv
<1>1. Limiter!Init => LimiterInv
  <2> SUFFICES ASSUME Limiter!Init PROVE LimiterInv
    OBVIOUS
  <2>1. Limit \in Nat /\ MaxOrphans \in Nat
    BY InstancesAssumption DEF InstancesAssumption, Limiter!LimiterAssumption
  <2>2. rlHits = 0 /\ rlAdmitted = 0 /\ Limiter!TypeOK
    <3>1. rlHits = 0 /\ rlAdmitted = 0 /\ rlHasTtl \in BOOLEAN
      BY DEF Limiter!Init
    <3> QED  BY <2>1, <3>1 DEF Limiter!Init, Limiter!TypeOK
  <2> QED  BY <2>1, <2>2 DEF LimiterInv, Limiter!WindowWillClose
<1> QED  BY <1>1, LimiterStep, PTL DEF Limiter!Spec, Limiter!vars, rlVars

(* However many requests hit the counter at the same time, no more than    *)
(* the limit gets through in a window (core/rate_limit.py: hit).           *)
THEOREM LimitHolds == Limiter!Spec => []AdmittedWithinLimit
<1>1. LimiterInv => AdmittedWithinLimit
  BY DEF LimiterInv, AdmittedWithinLimit, Limiter!AdmittedWithinLimit
<1> QED  BY <1>1, LimiterInvariance, PTL

(* A counter without a deadline has a request about to set one, unless     *)
(* that request was lost between INCR and EXPIRE.                          *)
THEOREM WindowsClose == Limiter!Spec => []WindowWillClose
<1>1. LimiterInv => WindowWillClose
  BY DEF LimiterInv, WindowWillClose
<1> QED  BY <1>1, LimiterInvariance, PTL

(* The invariant behind the theorems about the second factor: what running *)
(* verifies carry, delete and will store.                                  *)
THEOREM EnrolmentInvariance == Totp!Spec => []EnrolmentInv
<1>1. Totp!Init => EnrolmentInv
  <2> SUFFICES ASSUME Totp!Init PROVE EnrolmentInv
    OBVIOUS
  <2>1. Totp!Idle \in [pc: {"idle", "get", "load", "delete", "flush", "commit"},
                       code: 0..0, secret: 0..0, writes: BOOLEAN]
    BY DEF Totp!Idle, Totp!NoSecret
  <2>2. Totp!TypeOK
    BY <2>1, InstancesAssumption
    DEF InstancesAssumption, Totp!EnrolmentAssumption, Totp!Init, Totp!TypeOK, Totp!NoSecret
  <2>3. \A r \in Verifies : toReq[r].pc = "idle"
    BY DEF Totp!Init, Totp!Idle
  <2>4. \A r \in Verifies : ~Totp!PastCheck(r)
    BY <2>3 DEF Totp!PastCheck, Totp!At
  <2>5. Confirmations
    BY <2>4 DEF Totp!Init, Totp!NoSecret, Confirmations
  <2>6. Deletions /\ Rivals
    BY <2>3 DEF Deletions, Rivals, Totp!PastCheck, Totp!At
  <2>7. Totp!EnrolmentIsNotLost /\ Totp!LastConfirmedIsStored
    BY DEF Totp!Init, Totp!NoSecret, Totp!EnrolmentIsNotLost, Totp!LastConfirmedIsStored
  <2> QED  BY <2>2, <2>5, <2>6, <2>7 DEF EnrolmentInv
<1> QED  BY <1>1, EnrolmentStep, PTL DEF Totp!Spec, Totp!vars, toVars

(* An account never gets a secret that no code has confirmed, although a   *)
(* new enrolment may replace the pending one while a code is checked.      *)
THEOREM StoredIsConfirmed == Totp!Spec => []OnlyConfirmedIsStored
<1>1. EnrolmentInv => OnlyConfirmedIsStored
  BY DEF EnrolmentInv, Confirmations, OnlyConfirmedIsStored, Totp!OnlyConfirmedIsStored
<1> QED  BY <1>1, EnrolmentInvariance, PTL

(* The secret shown last can still be confirmed, or is being stored, or is *)
(* stored, for any number of verifies and enrolments: only a TTL, a lost   *)
(* verify and an overlap with one of another secret take it away.          *)
THEOREM EnrolmentSurvives == Totp!Spec => []EnrolmentIsNotLost
<1>1. EnrolmentInv => EnrolmentIsNotLost
  BY DEF EnrolmentInv, EnrolmentIsNotLost
<1> QED  BY <1>1, EnrolmentInvariance, PTL

(* The account ends up with the secret that was confirmed last, under the  *)
(* same exemptions.                                                        *)
THEOREM LastConfirmedWins == Totp!Spec => []LastConfirmedIsStored
<1>1. EnrolmentInv => LastConfirmedIsStored
  BY DEF EnrolmentInv, LastConfirmedIsStored
<1> QED  BY <1>1, EnrolmentInvariance, PTL
=============================================================================
