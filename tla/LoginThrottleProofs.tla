------------------------ MODULE LoginThrottleProofs ------------------------
(***************************************************************************)
(* Type correctness of the login throttle, and the deadline of its failure *)
(* counter: as long as no request is lost, whoever creates the counter is  *)
(* the one still due to run EXPIRE, and the two together are inductive.    *)
(* The bound on guesses needs to know who may still guess, and who has     *)
(* guessed at the cap and is about to set the lock; the bound on a lockout *)
(* who may still set the lock.                                             *)
(***************************************************************************)
EXTENDS LoginThrottle, TLAPS, FiniteSetTheorems

(* The state after every step has the types of TypeOK. *)
LEMMA TypeStep == TypeOK /\ [Next]_vars => TypeOK'
<1> SUFFICES ASSUME TypeOK, [Next]_vars PROVE TypeOK'
  OBVIOUS
<1> USE ThrottleAssumption DEF TypeOK, redis
<1>1. CASE UNCHANGED vars
  BY <1>1 DEF vars
<1>2. ASSUME NEW a \in Attempts, NEW g \in Guesses, Arrives(a, g)
      PROVE  TypeOK'
  BY <1>2 DEF Arrives, Stages
<1>3. ASSUME NEW a \in Attempts, CheckLocked(a) \/ Raise(a) \/ Commit(a) \/ Crash(a)
      PROVE  TypeOK'
  <2>1. Idle \in [pc: Stages, guess: Guesses, count: Nat]
    BY DEF Idle, Stages, Guesses
  <2>2. CASE CheckLocked(a)
    BY <2>1, <2>2 DEF CheckLocked
  <2>3. CASE Raise(a)
    BY <2>1, <2>3 DEF Raise
  <2>4. CASE Commit(a)
    BY <2>1, <2>4 DEF Commit
  <2>5. CASE Crash(a)
    BY <2>1, <2>5 DEF Crash
  <2> QED BY <1>3, <2>2, <2>3, <2>4, <2>5
<1>4. ASSUME NEW a \in Attempts, CheckOpen(a) \/ VerifyBlocked(a) \/ VerifyRight(a)
      PROVE  TypeOK'
  BY <1>4 DEF CheckOpen, VerifyBlocked, VerifyRight, Goto, Stages
<1>5. ASSUME NEW a \in Attempts, VerifyWrong(a)
      PROVE  TypeOK'
  <2>1. AfterIncr(fails + 1) \in Stages
    BY DEF AfterIncr, AfterExpire, Stages
  <2>2. fails + 1 \in Nat /\ fails + 1 > 0 /\ guesses + 1 \in Nat
    OBVIOUS
  <2> QED BY <1>5, <2>1, <2>2 DEF VerifyWrong
<1>6. ASSUME NEW a \in Attempts, Expire(a)
      PROVE  TypeOK'
  <2>1. AfterExpire(att[a].count) \in Stages
    BY DEF AfterExpire, Stages
  <2> QED BY <1>6, <2>1 DEF Expire, CounterExists, Goto
<1>7. ASSUME NEW a \in Attempts, SetLock(a) \/ ClearFails(a) \/ ClearBoth(a)
      PROVE  TypeOK'
  <2>1. CASE SetLock(a)
    BY <2>1 DEF SetLock, Goto, Stages
  <2>2. CASE ClearFails(a)
    BY <2>2 DEF ClearFails, Goto, Stages
  <2>3. CASE ClearBoth(a)
    BY <2>3 DEF ClearBoth, Goto, Stages
  <2> QED BY <1>7, <2>1, <2>2, <2>3
<1>8. CASE WindowEnds
  BY <1>8 DEF WindowEnds
<1>9. CASE LockoutEnds
  BY <1>9 DEF LockoutEnds
<1> QED BY <1>1, <1>2, <1>3, <1>4, <1>5, <1>6, <1>7, <1>8, <1>9 DEF Next, Serve, Fail

(* Keys, attempts and counters keep their types, and a key that is absent  *)
(* has no deadline.                                                        *)
THEOREM ThrottleTypeCorrect == Spec => []TypeOK
<1>1. Init => TypeOK
  <2> SUFFICES ASSUME Init PROVE TypeOK
    OBVIOUS
  <2>1. att \in [Attempts -> [pc: Stages, guess: Guesses, count: Nat]]
    BY DEF Init, Idle, Stages, Guesses
  <2>2. /\ fails \in Nat /\ failsEnds \in BOOLEAN /\ lock \in BOOLEAN
        /\ (failsEnds => fails > 0)
    BY DEF Init
  <2>3. guesses \in Nat /\ prolonged \in Nat /\ crashes \in 0..MaxCrashes
    BY ThrottleAssumption DEF Init
  <2> QED BY <2>1, <2>2, <2>3 DEF Init, TypeOK
<1> QED BY <1>1, TypeStep, PTL DEF Spec

(* Without a crash the failure counter never stands without a deadline,    *)
(* except while the attempt that created it is about to set one.           *)
THEOREM CounterExpires == Spec => []CounterHasDeadline
<1>1. Init => CounterHasDeadline
  BY DEF Init, CounterHasDeadline
<1>2. TypeOK /\ CounterHasDeadline /\ [Next]_vars => CounterHasDeadline'
  <2> SUFFICES ASSUME TypeOK, CounterHasDeadline, [Next]_vars,
                      fails' > 0, crashes' = 0, ~failsEnds'
               PROVE  \E a \in Attempts : att'[a].pc = "expire"
    BY DEF CounterHasDeadline
  <2> USE DEF TypeOK, redis
  <2>1. CASE UNCHANGED vars
    BY <2>1 DEF vars, CounterHasDeadline
  <2>2. ASSUME NEW a \in Attempts, VerifyWrong(a)
        PROVE  \E b \in Attempts : att'[b].pc = "expire"
    <3>1. CASE fails = 0
      BY <2>2, <3>1 DEF VerifyWrong, AfterIncr
    <3>2. CASE fails > 0
      <4>1. PICK b \in Attempts : att[b].pc = "expire"
        BY <2>2, <3>2 DEF VerifyWrong, CounterHasDeadline
      <4>2. att'[b] = att[b]
        BY <2>2, <4>1 DEF VerifyWrong
      <4> QED BY <4>1, <4>2
    <3> QED BY <3>1, <3>2
  <2>3. ASSUME NEW a \in Attempts, Expire(a)
        PROVE  FALSE
    BY <2>3 DEF Expire, CounterExists
  <2>4. ASSUME NEW a \in Attempts, ClearFails(a) \/ ClearBoth(a)
        PROVE  FALSE
    BY <2>4 DEF ClearFails, ClearBoth
  <2>5. ASSUME NEW a \in Attempts, Crash(a)
        PROVE  FALSE
    BY <2>5 DEF Crash
  <2>6. ASSUME NEW a \in Attempts, att[a].pc # "expire",
               UNCHANGED <<fails, failsEnds, crashes>>,
               \A b \in Attempts \ {a} : att'[b] = att[b]
        PROVE  \E b \in Attempts : att'[b].pc = "expire"
    <3>1. PICK b \in Attempts : att[b].pc = "expire"
      BY <2>6 DEF CounterHasDeadline
    <3> QED BY <2>6, <3>1
  <2>7. ASSUME NEW a \in Attempts,
               \/ \E g \in Guesses : Arrives(a, g)
               \/ CheckLocked(a) \/ CheckOpen(a) \/ VerifyBlocked(a) \/ VerifyRight(a)
               \/ SetLock(a) \/ Raise(a) \/ Commit(a)
        PROVE  \E b \in Attempts : att'[b].pc = "expire"
    <3>1. /\ att[a].pc # "expire"
          /\ UNCHANGED <<fails, failsEnds, crashes>>
          /\ \A b \in Attempts \ {a} : att'[b] = att[b]
      <4>1. CASE \E g \in Guesses : Arrives(a, g)
        BY <4>1 DEF Arrives
      <4>2. CASE CheckLocked(a) \/ CheckOpen(a)
        BY <4>2 DEF CheckLocked, CheckOpen, IsOpen, Goto
      <4>3. CASE VerifyBlocked(a) \/ VerifyRight(a)
        BY <4>3 DEF VerifyBlocked, VerifyRight, Goto
      <4>4. CASE SetLock(a)
        BY <4>4 DEF SetLock, Goto
      <4>5. CASE Raise(a) \/ Commit(a)
        BY <4>5 DEF Raise, Commit
      <4> QED BY <2>7, <4>1, <4>2, <4>3, <4>4, <4>5
    <3> QED BY <2>6, <3>1
  <2>8. CASE WindowEnds
    BY <2>8 DEF WindowEnds
  <2>9. CASE LockoutEnds
    BY <2>9 DEF LockoutEnds, CounterHasDeadline
  <2> QED BY <2>1, <2>2, <2>3, <2>4, <2>5, <2>7, <2>8, <2>9 DEF Next, Serve, Fail
<1> QED BY <1>1, <1>2, ThrottleTypeCorrect, PTL DEF Spec

-----------------------------------------------------------------------------

(* Attempts past the check, and failures at the cap that are about to set  *)
(* the lock.                                                               *)
Verifying == {a \in Attempts : att[a].pc = "verify"}
Locking == {a \in Attempts : \/ att[a].pc = "lock"
                             \/ att[a].pc = "expire" /\ att[a].count >= Max}

(* Until the lock is set, every guess counts, and a guess at the cap has   *)
(* left somebody to set the lock, unless it was lost.  While the lock      *)
(* stands, only those already past the check can still guess.              *)
Unlocked ==
    /\ guesses <= fails
    /\ guesses <= Max - 1 + Cardinality(Locking) + crashes
Locked ==
    guesses + Cardinality(Verifying) <= Max - 1 + Cardinality(Attempts) + crashes

GuessInv == IF lock THEN Locked ELSE Unlocked

(* How a set of attempts grows and shrinks. *)
LEMMA Counting ==
    ASSUME NEW S \in SUBSET Attempts, NEW T \in SUBSET Attempts
    PROVE  /\ Cardinality(S) \in Nat
           /\ Cardinality(S) <= Cardinality(Attempts) /\ Cardinality(Attempts) \in Nat
           /\ S \subseteq T => Cardinality(S) <= Cardinality(T)
           /\ \A a : S \subseteq T \cup {a} => Cardinality(S) <= Cardinality(T) + 1
           /\ \A a \in T : S \subseteq T \ {a} => Cardinality(S) + 1 <= Cardinality(T)
           /\ S \cap T = {} => Cardinality(S) + Cardinality(T) <= Cardinality(Attempts)
<1>1. IsFiniteSet(S) /\ IsFiniteSet(T) /\ IsFiniteSet(Attempts)
  BY ThrottleAssumption, FS_Subset
<1>2. Cardinality(S) \in Nat /\ Cardinality(T) \in Nat /\ Cardinality(Attempts) \in Nat
  BY <1>1, FS_CardinalityType
<1>3. Cardinality(S) <= Cardinality(Attempts)
  BY <1>1, FS_Subset
<1>4. S \subseteq T => Cardinality(S) <= Cardinality(T)
  BY <1>1, FS_Subset
<1>5. ASSUME NEW a, S \subseteq T \cup {a} PROVE Cardinality(S) <= Cardinality(T) + 1
  <2>1. /\ IsFiniteSet(T \cup {a})
        /\ Cardinality(T \cup {a}) = IF a \in T THEN Cardinality(T) ELSE Cardinality(T) + 1
    BY <1>1, FS_AddElement
  <2>2. Cardinality(S) <= Cardinality(T \cup {a})
    BY <1>5, <2>1, FS_Subset
  <2> QED  BY <1>2, <2>1, <2>2
<1>6. ASSUME NEW a \in T, S \subseteq T \ {a} PROVE Cardinality(S) + 1 <= Cardinality(T)
  <2>1. IsFiniteSet(T \ {a}) /\ Cardinality(T \ {a}) = Cardinality(T) - 1
    BY <1>1, FS_RemoveElement
  <2>2. Cardinality(S) <= Cardinality(T \ {a})
    BY <1>6, <2>1, FS_Subset
  <2> QED  BY <1>2, <2>1, <2>2
<1>7. ASSUME S \cap T = {}
      PROVE  Cardinality(S) + Cardinality(T) <= Cardinality(Attempts)
  <2>1. Cardinality(S \cup T) = Cardinality(S) + Cardinality(T)
    <3>1. Cardinality(S \cup T) = Cardinality(S) + Cardinality(T) - Cardinality(S \cap T)
      BY <1>1, FS_Union
    <3> QED  BY <1>2, <1>7, <3>1, FS_EmptySet
  <2>2. Cardinality(S \cup T) <= Cardinality(Attempts)
    BY <1>1, FS_Subset
  <2> QED  BY <2>1, <2>2
<1> QED  BY <1>2, <1>3, <1>4, <1>5, <1>6, <1>7

(* Steps at which nobody guesses, and nobody joins those who may. *)
LEMMA QuietStep ==
    ASSUME TypeOK, TypeOK', GuessInv, guesses' \in {0, guesses}, crashes <= crashes',
           lock' = lock,
           ~lock => fails' = fails \/ guesses' = 0,
           ~lock => Cardinality(Locking) + crashes <= Cardinality(Locking') + crashes',
           lock => Verifying' \subseteq Verifying
    PROVE  GuessInv'
<1>1. /\ guesses \in Nat /\ fails \in Nat /\ fails' \in Nat /\ crashes \in Nat
      /\ crashes' \in Nat /\ Max \in Nat \ {0}
  BY ThrottleAssumption DEF TypeOK
<1>2. Verifying \subseteq Attempts /\ Locking \subseteq Attempts
      /\ Verifying' \subseteq Attempts /\ Locking' \subseteq Attempts
  BY DEF Verifying, Locking
<1>3. CASE ~lock
  <2>1. Cardinality(Locking) \in Nat /\ Cardinality(Locking') \in Nat
    BY <1>2, Counting
  <2> QED  BY <1>1, <1>3, <2>1 DEF GuessInv, Unlocked
<1>4. CASE lock
  <2>1. /\ Cardinality(Verifying) \in Nat /\ Cardinality(Verifying') \in Nat
        /\ Cardinality(Attempts) \in Nat
        /\ Cardinality(Verifying') <= Cardinality(Verifying)
    BY <1>2, <1>4, Counting
  <2> QED  BY <1>1, <1>4, <2>1 DEF GuessInv, Locked
<1> QED  BY <1>3, <1>4

(* The throttle lets go: no guess is counted any more. *)
LEMMA LetGoStep ==
    ASSUME TypeOK, TypeOK', ~lock', guesses' = 0
    PROVE  GuessInv'
<1>1. Cardinality(Locking') \in Nat
  <2>1. Locking' \subseteq Attempts
    BY DEF Locking
  <2> QED  BY <2>1, Counting
<1>2. fails' \in Nat /\ crashes' \in Nat /\ Max - 1 \in Nat
  BY ThrottleAssumption DEF TypeOK
<1> QED  BY <1>1, <1>2 DEF GuessInv, Unlocked

(* A wrong guess: below the cap the counter bounds it, at the cap it is    *)
(* due to set the lock, and beside a lock one attempt less may guess.      *)
LEMMA WrongStep ==
    ASSUME TypeOK, TypeOK', GuessInv, NEW a \in Attempts, VerifyWrong(a)
    PROVE  GuessInv'
<1>1. /\ guesses \in Nat /\ fails \in Nat /\ crashes \in Nat /\ Max \in Nat \ {0}
  BY ThrottleAssumption DEF TypeOK
<1>2. /\ guesses' = guesses + 1 /\ fails' = fails + 1
      /\ UNCHANGED <<lock, crashes>>
  BY DEF VerifyWrong
<1>3. /\ att[a].pc = "verify"
      /\ att'[a].pc = AfterIncr(fails + 1) /\ att'[a].count = fails + 1
      /\ \A b \in Attempts \ {a} : att'[b] = att[b]
  BY DEF VerifyWrong, TypeOK
<1>4. AfterIncr(fails + 1) \in {"expire", "lock", "raise"}
      /\ (fails + 1 >= Max => AfterIncr(fails + 1) \in {"expire", "lock"})
  BY DEF AfterIncr, AfterExpire
<1>5. /\ Verifying \in SUBSET Attempts /\ Locking \in SUBSET Attempts
      /\ Verifying' \in SUBSET Attempts /\ Locking' \in SUBSET Attempts
  BY DEF Verifying, Locking
<1>6. CASE lock
  <2>1. a \in Verifying /\ Verifying' \subseteq Verifying \ {a}
    BY <1>3, <1>4 DEF Verifying
  <2>2. /\ Cardinality(Verifying') + 1 <= Cardinality(Verifying)
        /\ Cardinality(Verifying) \in Nat /\ Cardinality(Verifying') \in Nat
        /\ Cardinality(Attempts) \in Nat
    BY <1>5, <2>1, Counting
  <2> QED  BY <1>1, <1>2, <1>6, <2>2 DEF GuessInv, Locked
<1>7. CASE ~lock
  <2>1. guesses' <= fails'
    BY <1>1, <1>2, <1>7 DEF GuessInv, Unlocked
  <2>2. Cardinality(Locking) \in Nat /\ Cardinality(Locking') \in Nat
    BY <1>5, Counting
  <2>3. CASE fails + 1 >= Max
    <3>1. a \in Locking' /\ a \notin Locking /\ Locking \subseteq Locking' \ {a}
      BY <1>3, <1>4, <2>3 DEF Locking
    <3>2. Cardinality(Locking) + 1 <= Cardinality(Locking')
      BY <1>5, <3>1, Counting
    <3> QED  BY <1>1, <1>2, <1>7, <2>1, <2>2, <3>2 DEF GuessInv, Unlocked
  <2>4. CASE ~(fails + 1 >= Max)
    BY <1>1, <1>2, <1>7, <2>1, <2>2, <2>4 DEF GuessInv, Unlocked
  <2> QED  BY <2>3, <2>4
<1> QED  BY <1>6, <1>7

(* The lock is set: whoever guessed at the cap is not past the check, so   *)
(* that the two kinds of attempts together are not more than all.          *)
LEMMA LockStep ==
    ASSUME TypeOK, TypeOK', GuessInv, NEW a \in Attempts, SetLock(a)
    PROVE  GuessInv'
<1>1. /\ guesses \in Nat /\ crashes \in Nat /\ Max \in Nat \ {0}
  BY ThrottleAssumption DEF TypeOK
<1>2. /\ lock' /\ UNCHANGED <<guesses, crashes>>
  BY DEF SetLock
<1>3. /\ Verifying \in SUBSET Attempts /\ Locking \in SUBSET Attempts
      /\ Verifying' \subseteq Verifying /\ Verifying \cap Locking = {}
  BY DEF Verifying, Locking, SetLock, Goto, TypeOK
<1>4. /\ Cardinality(Verifying') <= Cardinality(Verifying)
      /\ Cardinality(Verifying) + Cardinality(Locking) <= Cardinality(Attempts)
      /\ Cardinality(Verifying) \in Nat /\ Cardinality(Verifying') \in Nat
      /\ Cardinality(Locking) \in Nat /\ Cardinality(Attempts) \in Nat
  <2>1. Verifying' \in SUBSET Attempts
    BY <1>3
  <2> QED  BY <1>3, <2>1, Counting
<1>5. guesses + Cardinality(Verifying) <= Max - 1 + Cardinality(Attempts) + crashes
  <2>1. CASE lock
    BY <2>1 DEF GuessInv, Locked
  <2>2. CASE ~lock
    BY <1>1, <1>4, <2>2 DEF GuessInv, Unlocked
  <2> QED  BY <2>1, <2>2
<1> QED  BY <1>1, <1>2, <1>4, <1>5 DEF GuessInv, Locked

(* Every step keeps the bound on what has been and may still be guessed.  *)
LEMMA GuessStep == TypeOK /\ GuessInv /\ [Next]_vars => GuessInv'
<1> SUFFICES ASSUME TypeOK, GuessInv, [Next]_vars PROVE GuessInv'
  OBVIOUS
<1>1. TypeOK'
  BY TypeStep
<1>2. ASSUME UNCHANGED <<redis, guesses, crashes>>,
             Locking \subseteq Locking', lock => Verifying' \subseteq Verifying
      PROVE  GuessInv'
  <2>1. Locking \in SUBSET Attempts /\ Locking' \in SUBSET Attempts
    BY DEF Locking
  <2>2. Cardinality(Locking) <= Cardinality(Locking')
    BY <1>2, <2>1, Counting
  <2>3. crashes \in Nat /\ Cardinality(Locking) \in Nat /\ Cardinality(Locking') \in Nat
    BY <2>1, Counting, ThrottleAssumption DEF TypeOK
  <2> QED  BY <1>1, <1>2, <2>2, <2>3, QuietStep DEF redis
<1>3. CASE UNCHANGED vars
  BY <1>2, <1>3 DEF vars, Locking, Verifying
<1>4. ASSUME NEW a \in Attempts, NEW g \in Guesses, Arrives(a, g) PROVE GuessInv'
  BY <1>2, <1>4 DEF Arrives, Locking, Verifying, TypeOK
<1>5. ASSUME NEW a \in Attempts,
             CheckLocked(a) \/ VerifyBlocked(a) \/ VerifyRight(a) \/ Raise(a) \/ Commit(a)
      PROVE  GuessInv'
  <2>1. /\ att[a].pc \notin {"lock", "expire"}
        /\ att'[a].pc \in {"idle", "raise", "clear"}
        /\ \A b \in Attempts \ {a} : att'[b] = att[b]
        /\ UNCHANGED <<redis, guesses, crashes>>
    BY <1>5 DEF CheckLocked, VerifyBlocked, VerifyRight, Raise, Commit, Goto, Idle, TypeOK
  <2> QED  BY <1>2, <2>1 DEF Locking, Verifying
<1>6. ASSUME NEW a \in Attempts, CheckOpen(a) PROVE GuessInv'
  <2>1. ~lock
    BY <1>6 DEF CheckOpen, IsOpen
  <2> QED  BY <1>2, <1>6, <2>1 DEF CheckOpen, IsOpen, Goto, Locking, TypeOK
<1>7. ASSUME NEW a \in Attempts, Expire(a) PROVE GuessInv'
  <2>1. /\ att[a].pc = "expire" /\ att'[a].count = att[a].count
        /\ att'[a].pc = (IF att[a].count >= Max THEN "lock" ELSE "raise")
        /\ \A b \in Attempts \ {a} : att'[b] = att[b]
        /\ UNCHANGED <<fails, lock, guesses, crashes>>
    BY <1>7 DEF Expire, Goto, AfterExpire, TypeOK
  <2>2. Locking' = Locking /\ Verifying' = Verifying
    BY <2>1 DEF Locking, Verifying
  <2>3. Cardinality(Locking) \in Nat /\ crashes \in Nat
    BY Counting, ThrottleAssumption DEF Locking, TypeOK
  <2> QED  BY <1>1, <2>1, <2>2, <2>3, QuietStep
<1>8. ASSUME NEW a \in Attempts, ClearFails(a) PROVE GuessInv'
  <2>1. /\ att[a].pc = "clearFails" /\ att'[a].pc = "raise"
        /\ \A b \in Attempts \ {a} : att'[b] = att[b]
        /\ guesses' = (IF lock THEN guesses ELSE 0)
        /\ UNCHANGED <<lock, crashes>>
    BY <1>8 DEF ClearFails, Goto, TypeOK
  <2>2. Locking' = Locking /\ Verifying' = Verifying
    BY <2>1 DEF Locking, Verifying
  <2>3. Cardinality(Locking) \in Nat /\ crashes \in Nat
    BY Counting, ThrottleAssumption DEF Locking, TypeOK
  <2> QED  BY <1>1, <2>1, <2>2, <2>3, QuietStep
<1>9. ASSUME NEW a \in Attempts, Crash(a) PROVE GuessInv'
  <2>1. /\ att'[a].pc = "idle" /\ crashes' = crashes + 1
        /\ \A b \in Attempts \ {a} : att'[b] = att[b]
        /\ UNCHANGED <<fails, lock, guesses>>
    BY <1>9 DEF Crash, Idle, TypeOK, redis
  <2>2. Locking \subseteq Locking' \cup {a} /\ Verifying' \subseteq Verifying
    BY <2>1 DEF Locking, Verifying
  <2>3. Locking \in SUBSET Attempts /\ Locking' \in SUBSET Attempts
    BY DEF Locking
  <2>4. Cardinality(Locking) \in Nat /\ Cardinality(Locking') \in Nat
    BY <2>3, Counting
  <2>5. Cardinality(Locking) <= Cardinality(Locking') + 1
    BY <2>2, <2>3, Counting
  <2>6. crashes \in Nat
    BY ThrottleAssumption DEF TypeOK
  <2>7. Cardinality(Locking) + crashes <= Cardinality(Locking') + crashes'
    BY <2>1, <2>4, <2>5, <2>6
  <2>8. crashes <= crashes'
    BY <2>1, <2>6
  <2> QED  BY <1>1, <2>1, <2>2, <2>7, <2>8, QuietStep
<1>10. ASSUME NEW a \in Attempts, ClearBoth(a) PROVE GuessInv'
  BY <1>1, <1>10, LetGoStep DEF ClearBoth
<1>11. CASE WindowEnds
  <2>1. /\ guesses' = 0 /\ Locking' = Locking /\ Verifying' = Verifying
        /\ UNCHANGED <<lock, crashes>>
    BY <1>11 DEF WindowEnds, Locking, Verifying
  <2>2. Cardinality(Locking) \in Nat /\ crashes \in Nat
    BY Counting, ThrottleAssumption DEF Locking, TypeOK
  <2> QED  BY <1>1, <2>1, <2>2, QuietStep
<1>12. CASE LockoutEnds
  BY <1>1, <1>12, LetGoStep DEF LockoutEnds
<1> QED
  BY <1>1, <1>3, <1>4, <1>5, <1>6, <1>7, <1>8, <1>9, <1>10, <1>11, <1>12, WrongStep, LockStep
  DEF Next, Serve, Fail

(* However attempts interleave and whichever are lost, an identity can be  *)
(* guessed Max times before the throttle lets go, once more for each other *)
(* attempt past the check and for each lost failure.                       *)
THEOREM GuessesBounded == Spec => []GuessesAreBounded
<1>1. Init => GuessInv
  <2> SUFFICES ASSUME Init PROVE GuessInv
    OBVIOUS
  <2>1. Cardinality(Locking) \in Nat
    BY Counting DEF Locking
  <2> QED  BY <2>1, ThrottleAssumption DEF Init, GuessInv, Unlocked
<1>2. TypeOK /\ GuessInv => GuessesAreBounded
  <2> SUFFICES ASSUME TypeOK, GuessInv PROVE GuessesAreBounded
    OBVIOUS
  <2>1. /\ guesses \in Nat /\ crashes \in Nat /\ Max \in Nat \ {0}
    BY ThrottleAssumption DEF TypeOK
  <2>2. Verifying \in SUBSET Attempts /\ Locking \in SUBSET Attempts
    BY DEF Verifying, Locking
  <2>3. /\ Cardinality(Locking) <= Cardinality(Attempts)
        /\ Cardinality(Locking) \in Nat /\ Cardinality(Verifying) \in Nat
        /\ Cardinality(Attempts) \in Nat
    BY <2>2, Counting
  <2> QED  BY <2>1, <2>3 DEF GuessInv, Locked, Unlocked, GuessesAreBounded
<1> QED  BY <1>1, <1>2, GuessStep, ThrottleTypeCorrect, PTL DEF Spec

-----------------------------------------------------------------------------

(* Attempts past the check that may still set the lock. *)
MaySetLock == {a \in Attempts : att[a].pc \in {"verify", "expire", "lock"}}

(* Under a lock every attempt that may still set it again is one of those  *)
(* that were past the check when it was set, and no SET has been counted   *)
(* for it; nor for the attempt that set the lock first.                    *)
ProlongInv == lock => prolonged + Cardinality(MaySetLock) < Cardinality(Attempts)

(* Nobody sets the lock or gets past the check of a lock that stands. *)
LEMMA NoSetStep ==
    ASSUME TypeOK, ProlongInv, lock' => lock /\ prolonged' = prolonged,
           lock => MaySetLock' \subseteq MaySetLock
    PROVE  ProlongInv'
<1> SUFFICES ASSUME lock'
             PROVE  prolonged' + Cardinality(MaySetLock') < Cardinality(Attempts)
  BY DEF ProlongInv
<1>1. MaySetLock \in SUBSET Attempts /\ MaySetLock' \in SUBSET Attempts
  BY DEF MaySetLock
<1>2. /\ Cardinality(MaySetLock') <= Cardinality(MaySetLock)
      /\ Cardinality(MaySetLock) \in Nat /\ Cardinality(MaySetLock') \in Nat
      /\ Cardinality(Attempts) \in Nat
  BY <1>1, Counting
<1> QED  BY <1>2 DEF ProlongInv, TypeOK

(* The first SET of a lock, or one of those that may still follow it. *)
LEMMA SetStep ==
    ASSUME TypeOK, ProlongInv, NEW a \in Attempts, SetLock(a)
    PROVE  ProlongInv'
<1>1. MaySetLock \in SUBSET Attempts /\ MaySetLock' \in SUBSET Attempts
  BY DEF MaySetLock
<1>2. a \in MaySetLock /\ MaySetLock' \subseteq MaySetLock \ {a}
  BY DEF MaySetLock, SetLock, Goto, TypeOK
<1>3. /\ Cardinality(MaySetLock') + 1 <= Cardinality(MaySetLock)
      /\ Cardinality(MaySetLock) <= Cardinality(Attempts)
      /\ Cardinality(MaySetLock) \in Nat /\ Cardinality(MaySetLock') \in Nat
      /\ Cardinality(Attempts) \in Nat
  BY <1>1, <1>2, Counting
<1>4. prolonged' = IF lock THEN prolonged + 1 ELSE 0
  BY DEF SetLock
<1> QED  BY <1>3, <1>4 DEF ProlongInv, TypeOK

(* However attempts interleave, whoever sends new ones to a locked         *)
(* identity, and whichever requests are lost, one lockout is set again     *)
(* less than once per attempt.                                             *)
THEOREM LockoutBounded == Spec => []LockoutIsBounded
<1>1. Init => ProlongInv
  BY DEF Init, ProlongInv
<1>2. TypeOK /\ ProlongInv /\ [Next]_vars => ProlongInv'
  <2> SUFFICES ASSUME TypeOK, ProlongInv, [Next]_vars PROVE ProlongInv'
    OBVIOUS
  <2>1. CASE UNCHANGED vars
    BY <2>1, NoSetStep DEF vars, redis, MaySetLock
  <2>2. ASSUME NEW a \in Attempts, NEW g \in Guesses, Arrives(a, g) PROVE ProlongInv'
    BY <2>2, NoSetStep DEF Arrives, redis, MaySetLock, TypeOK
  <2>3. ASSUME NEW a \in Attempts, CheckOpen(a) PROVE ProlongInv'
    BY <2>3 DEF CheckOpen, IsOpen, redis, ProlongInv
  <2>4. ASSUME NEW a \in Attempts,
               \/ CheckLocked(a) \/ VerifyBlocked(a) \/ VerifyRight(a) \/ VerifyWrong(a)
               \/ Expire(a) \/ ClearFails(a) \/ Raise(a) \/ Commit(a) \/ Crash(a)
        PROVE  ProlongInv'
    <3>1. /\ lock' = lock /\ prolonged' = prolonged
          /\ \A b \in Attempts \ {a} : att'[b] = att[b]
      BY <2>4 DEF CheckLocked, VerifyBlocked, VerifyRight, VerifyWrong, Expire, ClearFails,
                  Raise, Commit, Crash, Goto, redis, TypeOK
    <3>2. att'[a].pc \in {"verify", "expire", "lock"} =>
              att[a].pc \in {"verify", "expire", "lock"}
      BY <2>4 DEF CheckLocked, VerifyBlocked, VerifyRight, VerifyWrong, Expire, ClearFails,
                  Raise, Commit, Crash, Goto, Idle, TypeOK
    <3> QED  BY <3>1, <3>2, NoSetStep DEF MaySetLock
  <2>5. ASSUME NEW a \in Attempts, ClearBoth(a) PROVE ProlongInv'
    BY <2>5 DEF ClearBoth, ProlongInv
  <2>6. CASE WindowEnds
    BY <2>6, NoSetStep DEF WindowEnds, MaySetLock
  <2>7. CASE LockoutEnds
    BY <2>7 DEF LockoutEnds, ProlongInv
  <2> QED  BY <2>1, <2>2, <2>3, <2>4, <2>5, <2>6, <2>7, SetStep DEF Next, Serve, Fail
<1>3. TypeOK /\ ProlongInv => LockoutIsBounded
  <2> SUFFICES ASSUME TypeOK, ProlongInv, lock PROVE prolonged < Cardinality(Attempts)
    BY DEF LockoutIsBounded
  <2>1. MaySetLock \in SUBSET Attempts
    BY DEF MaySetLock
  <2>2. Cardinality(MaySetLock) \in Nat /\ Cardinality(Attempts) \in Nat
    BY <2>1, Counting
  <2> QED  BY <2>2 DEF ProlongInv, TypeOK
<1> QED  BY <1>1, <1>2, <1>3, ThrottleTypeCorrect, PTL DEF Spec
=============================================================================
