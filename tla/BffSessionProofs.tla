-------------------------- MODULE BffSessionProofs --------------------------
(***************************************************************************)
(* Why one browser keeps its session.  A pair on its way to the browser is *)
(* known to nobody else, so nobody can have rotated it: it is live unless  *)
(* a logout revoked its family.  And a session that a logout has ended has *)
(* no live token and nobody rotating one, so that it cannot get another.   *)
(***************************************************************************)
EXTENDS BffSession, TLAPS

Proxied == {"data", "me", "credential"}

(* What kind of call is at which stage, and what it has by then. *)
StageOK(q) ==
    /\ q.pc = "idle" => q.got = None /\ q.refresh = None
    /\ q.pc \in {"hit", "lookup", "commit"} =>
         q.kind \in Proxied /\ q.got = None /\ q.refresh # None
    /\ q.pc = "send" => q.kind \in Proxied
    /\ q.pc = "login" => q.kind = "login" /\ q.got = None
    /\ q.pc \in {"logout", "revoke", "leave"} => q.kind = "logout"
    /\ q.pc \in {"revoke", "leave"} => q.refresh # None
    /\ q.kind = "logout" => q.got = None

(* A call that is not answered has committed nothing, and has run its      *)
(* handler only if the handler refused it.                                 *)
RunsOK(q) ==
    LET refusals == IF RefusesItself(q.kind) THEN 1 ELSE 0 IN
    /\ q.pc # "answer" => q.commits = 0 /\ q.runs <= refusals
    /\ q.pc = "send" /\ q.got = None => q.runs = 0
    /\ q.commits <= 1 /\ q.runs <= refusals + 1

StagesAgree == \A c \in Calls : StageOK(call[c]) /\ RunsOK(call[c])

(* Whatever a cookie, a call or the history names has been issued. *)
IdsExist ==
    /\ \A c \in Calls : /\ call[c].access \in 0..issued
                        /\ call[c].refresh \in 0..issued
                        /\ call[c].got \in 0..issued
    /\ \A p \in 1..issued : family[p] \in 1..issued
    /\ lost \subseteq 1..issued /\ leaving \subseteq 1..issued /\ ended \subseteq 1..issued

(* A pair on its way to the browser is known to nobody else. *)
PairsAreFresh ==
    \A c \in Calls : call[c].got # None =>
        /\ call[c].got # jar.refresh
        /\ \A d \in Calls : call[d].refresh # call[c].got
        /\ \A d \in Calls \ {c} : call[d].got # call[c].got

(* It is live, unless the user has asked to leave its session. *)
PairsAreLive ==
    \A c \in Calls : call[c].got # None =>
        call[c].got \in live \/ family[call[c].got] \in leaving

(* A logout is known by the session it presents. *)
LogoutsLeave ==
    \A c \in Calls : call[c].kind = "logout" /\ call[c].refresh # None =>
        family[call[c].refresh] \in leaving

(* A session that a logout has ended has no live token, and nobody who has *)
(* looked one of its tokens up is about to replace it.                     *)
EndedIsDead ==
    /\ \A p \in 1..issued : family[p] \in ended => p \notin live
    /\ \A c \in Calls : call[c].pc = "commit" => FamilyOf(call[c].refresh) \notin ended

Rest ==
    /\ StagesAgree /\ IdsExist /\ PairsAreFresh /\ PairsAreLive /\ LogoutsLeave
    /\ BrowserKeepsItsSession /\ EndedIsDead

BffInv == TypeOK /\ Rest

-----------------------------------------------------------------------------
(* Types. *)

(* Every id that exists is an id, and the family of one is one. *)
LEMMA Ids ==
    ASSUME TypeOK, IdsExist
    PROVE  /\ issued \in Nat /\ 0..issued \subseteq 0..MaxPairs /\ 1..issued \subseteq Pairs
           /\ FamilyOf(None) = None
           /\ \A p \in 1..issued : FamilyOf(p) = family[p] /\ family[p] \in 1..issued
           /\ \A p \in 0..issued : p # None => p \in 1..issued
           /\ jar.refresh \in 0..issued /\ jar.access \in 0..issued
           /\ live \subseteq 1..issued
<1>1. issued \in Nat /\ 0..issued \subseteq 0..MaxPairs /\ 1..issued \subseteq Pairs
  BY BffAssumption DEF TypeOK, Pairs
<1>2. PICK n \in 0..issued : jar = [access |-> n, refresh |-> n]
  BY DEF TypeOK
<1>3. jar.refresh \in 0..issued /\ jar.access \in 0..issued
  BY <1>2
<1>4. \A p \in 1..issued : FamilyOf(p) = family[p] /\ family[p] \in 1..issued
  BY <1>1 DEF FamilyOf, IdsExist
<1>5. FamilyOf(None) = None
  BY DEF FamilyOf, None, Pairs
<1>6. \A p \in 0..issued : p # None => p \in 1..issued
  BY <1>1 DEF None
<1> QED  BY <1>1, <1>3, <1>4, <1>5, <1>6 DEF TypeOK

(* A free slot is typed. *)
LEMMA IdleIsCall == Idle \in Call
<1>1. None \in 0..MaxPairs /\ 0 \in 0..MaxPairs /\ 0 \in 0..2
  BY BffAssumption DEF None
<1>2. "data" \in Kinds /\ "idle" \in Stages /\ "none" \in Statuses
  BY DEF Kinds, Stages, Statuses
<1> QED  BY <1>1, <1>2 DEF Idle, Call

(* A step of one call keeps the calls what they are. *)
LEMMA CallStep ==
    ASSUME TypeOK, NEW c \in Calls, NEW q \in Call, call' = [call EXCEPT ![c] = q]
    PROVE  call' \in [Calls -> Call]
BY DEF TypeOK

(* Every step keeps the types. *)
LEMMA TypeStep == BffInv /\ [Next]_vars => TypeOK'
<1> SUFFICES ASSUME BffInv, [Next]_vars PROVE TypeOK'
  OBVIOUS
<1> USE DEF BffInv, Rest
<1>1. CASE UNCHANGED vars
  BY <1>1 DEF vars, backend, faults, history, TypeOK
<1>2. ASSUME NEW c \in Calls, NEW kind \in Kinds, Arrive(c, kind) PROVE TypeOK'
  <2>1. jar.refresh \in 0..MaxPairs /\ jar.access \in 0..MaxPairs
    BY Ids
  <2>2. PICK first \in FirstStages(kind) :
          call' = [call EXCEPT ![c] =
                    [Idle EXCEPT !.kind = kind, !.pc = first,
                                 !.access = jar.access, !.refresh = jar.refresh]]
    BY <1>2 DEF Arrive
  <2>3. first \in Stages
    BY DEF FirstStages, Kinds, Stages
  <2>4. call' \in [Calls -> Call]
    <3>1. [Idle EXCEPT !.kind = kind, !.pc = first,
                       !.access = jar.access, !.refresh = jar.refresh] \in Call
      BY <2>1, <2>3, IdleIsCall DEF Call
    <3> QED  BY <2>2, <3>1, CallStep
  <2>5. FamilyOf(jar.refresh) \in 0..MaxPairs
    BY Ids
  <2>6. leaving' \subseteq 1..MaxPairs
    <3>1. {FamilyOf(jar.refresh)} \ {None} \subseteq 1..MaxPairs
      BY <2>5, BffAssumption DEF None
    <3> QED  BY <1>2, <3>1 DEF Arrive, TypeOK
  <2> QED  BY <1>2, <2>4, <2>6 DEF Arrive, TypeOK, backend, faults
<1>3. ASSUME NEW c \in Calls, Send(c) PROVE TypeOK'
  <2>1. call[c] \in Call /\ call[c].runs \in 0..2 /\ call[c].commits \in 0..2
    BY DEF TypeOK, Call
  <2>2. call[c].runs < 2 /\ call[c].commits < 2
    BY <1>3, <2>1 DEF Send, StagesAgree, RunsOK
  <2>3. PICK r \in Replies(c) :
          call' = [call EXCEPT
                     ![c].pc = IF Retries(c, r.status) THEN "hit" ELSE "answer",
                     ![c].status = r.status,
                     ![c].runs = IF r.ran THEN @ + 1 ELSE @,
                     ![c].commits = IF r.committed THEN @ + 1 ELSE @]
    BY <1>3 DEF Send
  <2>4. r.status \in Statuses
    BY DEF Replies, Reply
  <2>5. PICK q : q = [call[c] EXCEPT
                        !.pc = IF Retries(c, r.status) THEN "hit" ELSE "answer",
                        !.status = r.status,
                        !.runs = IF r.ran THEN @ + 1 ELSE @,
                        !.commits = IF r.committed THEN @ + 1 ELSE @]
    OBVIOUS
  <2>6. q \in Call
    <3>1. call[c].runs + 1 \in 0..2 /\ call[c].commits + 1 \in 0..2
      BY <2>1, <2>2
    <3> QED  BY <2>1, <2>4, <2>5, <3>1 DEF Call, Stages
  <2>7. call' = [call EXCEPT ![c] = q]
    BY <2>3, <2>5 DEF TypeOK
  <2> QED  BY <1>3, <2>6, <2>7, CallStep DEF Send, TypeOK, backend, faults, history
<1>4. ASSUME NEW c \in Calls, Hit(c) \/ Lookup(c) \/ LoginFails(c) \/ LogoutSent(c)
      PROVE  TypeOK'
  <2>1. call[c] \in Call
    BY DEF TypeOK
  <2>2. call' \in [Calls -> Call]
    <3>1. ASSUME NEW to \in Stages, call' = [call EXCEPT ![c].pc = to]
          PROVE  call' \in [Calls -> Call]
      <4>1. [call[c] EXCEPT !.pc = to] \in Call
        BY <2>1 DEF Call
      <4> QED  BY <3>1, <4>1 DEF TypeOK
    <3>2. CASE LoginFails(c)
      <4>1. [call[c] EXCEPT !.pc = "answer", !.status = "401"] \in Call
        BY <2>1 DEF Call, Stages, Statuses
      <4> QED  BY <3>2, <4>1 DEF LoginFails, TypeOK
    <3>3. CASE Hit(c) \/ Lookup(c) \/ LogoutSent(c)
      <4>1. PICK to \in {"lookup", "answer", "commit", "revoke"} :
              call' = [call EXCEPT ![c].pc = to]
        BY <3>3 DEF Hit, Lookup, LogoutSent, Step
      <4>2. to \in Stages
        BY DEF Stages
      <4> QED  BY <3>1, <4>1, <4>2
    <3> QED  BY <1>4, <3>2, <3>3
  <2> QED
    BY <1>4, <2>2 DEF Hit, Lookup, LoginFails, LogoutSent, TypeOK, backend, faults, history
<1>5. ASSUME NEW c \in Calls, LogoutFetchFails(c) PROVE TypeOK'
  <2>1. call' \in [Calls -> Call]
    BY <1>5 DEF LogoutFetchFails, Step, TypeOK, Call, Stages
  <2>2. losses' \in 0..MaxLosses
    BY <1>5, BffAssumption DEF LogoutFetchFails, TypeOK
  <2> QED  BY <1>5, <2>1, <2>2 DEF LogoutFetchFails, TypeOK, backend, history
<1>6. ASSUME NEW c \in Calls, Rotate(c) \/ Login(c) PROVE TypeOK'
  <2>1. /\ issued' = issued + 1 /\ issued' \in 0..MaxPairs /\ issued' \in Pairs
        /\ issued \in Nat
    BY <1>6, BffAssumption DEF Rotate, Login, Pairs, TypeOK
  <2>2. call' \in [Calls -> Call]
    BY <1>6, <2>1 DEF Rotate, Login, TypeOK, Call, Stages, Statuses
  <2>3. live' \subseteq 1..issued' /\ aged' \subseteq 1..issued'
    BY <1>6, <2>1 DEF Rotate, Login, TypeOK
  <2>4. family' \in [Pairs -> 0..MaxPairs]
    <3>1. CASE Login(c)
      BY <2>1, <3>1 DEF Login, TypeOK, Pairs
    <3>2. CASE Rotate(c)
      <4>1. call[c].refresh \in 1..issued
        BY <3>2, Ids DEF Rotate, StagesAgree, StageOK, IdsExist
      <4>2. family[call[c].refresh] \in 0..MaxPairs
        BY <4>1, Ids
      <4> QED  BY <2>1, <3>2, <4>2 DEF Rotate, TypeOK
    <3> QED  BY <1>6, <3>1, <3>2
  <2>5. jar' \in {[access |-> p, refresh |-> p] : p \in 0..issued'}
    BY <1>6, <2>1 DEF Rotate, Login, TypeOK
  <2> QED
    BY <1>6, <2>1, <2>2, <2>3, <2>4, <2>5 DEF Rotate, Login, TypeOK, faults, history
<1>7. ASSUME NEW c \in Calls, Revoke(c) PROVE TypeOK'
  <2>1. call[c] \in Call /\ issued \in 0..MaxPairs
    BY DEF TypeOK
  <2>2. [call[c] EXCEPT !.pc = "leave", !.seen = issued] \in Call
    BY <2>1 DEF Call, Stages
  <2>3. call' \in [Calls -> Call]
    BY <1>7, <2>2 DEF Revoke, TypeOK
  <2> QED  BY <1>7, <2>3 DEF Revoke, TypeOK, backend, faults, history
<1>8. ASSUME NEW c \in Calls, LogoutCommits(c) PROVE TypeOK'
  <2>1. call' \in [Calls -> Call]
    <3>1. call[c] \in Call
      BY DEF TypeOK
    <3>2. [call[c] EXCEPT !.pc = "answer", !.status = "ok"] \in Call
      BY <3>1 DEF Call, Stages, Statuses
    <3> QED  BY <1>8, <3>2 DEF LogoutCommits, TypeOK
  <2>2. FamilyOf(call[c].refresh) \in leaving
    <3>1. call[c].kind = "logout" /\ call[c].refresh # None
      BY <1>8 DEF LogoutCommits, StagesAgree, StageOK
    <3>2. FamilyOf(call[c].refresh) = family[call[c].refresh]
      BY <3>1, Ids DEF IdsExist
    <3> QED  BY <3>1, <3>2 DEF LogoutsLeave
  <2>3. live' \subseteq live /\ ended' \subseteq ended \cup {FamilyOf(call[c].refresh)}
        /\ UNCHANGED <<jar, issued, family, aged, losses, lost, leaving>>
    BY <1>8 DEF LogoutCommits, faults
  <2> QED  BY <2>1, <2>2, <2>3 DEF TypeOK
<1>9. ASSUME NEW c \in Calls, Answer(c) PROVE TypeOK'
  <2>1. call' \in [Calls -> Call]
    BY <1>9, IdleIsCall, CallStep DEF Answer
  <2>2. jar' \in {[access |-> p, refresh |-> p] : p \in 0..issued}
    BY <1>9, Ids DEF Answer, JarAfter, JarAfterLogout, EmptyJar, SetsPair, IdsExist, None,
       TypeOK
  <2> QED  BY <1>9, <2>1, <2>2 DEF Answer, TypeOK, backend, faults, history
<1>10. ASSUME NEW c \in Calls, Lose(c) PROVE TypeOK'
  <2>1. call' \in [Calls -> Call]
    BY <1>10, IdleIsCall, CallStep DEF Lose
  <2>2. losses' \in 0..MaxLosses
    BY <1>10, BffAssumption DEF Lose, TypeOK
  <2>3. lost' \subseteq 1..MaxPairs
    <3>1. lost' \subseteq lost \cup {family[call[c].got]}
             /\ (lost' # lost => call[c].got # None)
      BY <1>10 DEF Lose
    <3>2. call[c].got # None => family[call[c].got] \in 1..MaxPairs
      BY Ids DEF IdsExist
    <3> QED  BY <3>1, <3>2 DEF TypeOK
  <2> QED  BY <1>10, <2>1, <2>2, <2>3 DEF Lose, TypeOK, backend, history
<1>11. ASSUME NEW p \in Pairs, Age(p) PROVE TypeOK'
  <2>1. p \in 1..issued
    BY <1>11, BffAssumption DEF Age, Pairs, TypeOK
  <2> QED  BY <1>11, <2>1 DEF Age, TypeOK, faults, history
<1> QED
  BY <1>1, <1>2, <1>3, <1>4, <1>5, <1>6, <1>7, <1>8, <1>9, <1>10, <1>11 DEF Next, Serve

-----------------------------------------------------------------------------
(* The rest of the invariant. *)

(* A step of one call that obtains no pair and ends nothing. *)
LEMMA MoveStep ==
    ASSUME TypeOK, TypeOK', Rest, NEW c \in Calls, NEW q \in Call,
           call' = [call EXCEPT ![c] = q], Flying(c), q.pc # "idle",
           q.got = call[c].got, q.refresh = call[c].refresh, q.access = call[c].access,
           q.kind = call[c].kind, StageOK(q), RunsOK(q),
           q.pc = "commit" => q.refresh \in live,
           UNCHANGED <<jar, issued, family, live, lost, history>>
    PROVE  Rest'
<1> USE DEF Rest
<1>1. \A d \in Calls :
        /\ call'[d].got = call[d].got /\ call'[d].refresh = call[d].refresh
        /\ call'[d].access = call[d].access /\ call'[d].kind = call[d].kind
  BY DEF TypeOK
<1>2. call'[c] = q /\ \A d \in Calls \ {c} : call'[d] = call[d]
  BY DEF TypeOK
<1>3. StagesAgree'
  BY <1>2 DEF StagesAgree
<1>4. IdsExist' /\ PairsAreFresh' /\ PairsAreLive'
  BY <1>1 DEF IdsExist, PairsAreFresh, PairsAreLive, history
<1>5. LogoutsLeave' /\ BrowserKeepsItsSession'
  BY <1>1 DEF LogoutsLeave, BrowserKeepsItsSession, FamilyOf, LiveOf, history
<1>6. EndedIsDead'
  <2>1. q.pc = "commit" => FamilyOf(call[c].refresh) \notin ended
    BY Ids DEF EndedIsDead
  <2>2. \A d \in Calls : call'[d].pc = "commit" => FamilyOf(call[d].refresh) \notin ended
    BY <1>2, <2>1 DEF EndedIsDead
  <2> QED  BY <1>1, <2>2 DEF EndedIsDead, FamilyOf, history
<1> QED  BY <1>3, <1>4, <1>5, <1>6

(* An arrival: it presents the cookies. *)
LEMMA ArriveStep ==
    ASSUME TypeOK, TypeOK', Rest, NEW c \in Calls, NEW kind \in Kinds, Arrive(c, kind)
    PROVE  Rest'
<1> USE DEF Rest
<1>1. PICK first \in FirstStages(kind) :
        call' = [call EXCEPT ![c] =
                  [Idle EXCEPT !.kind = kind, !.pc = first,
                               !.access = jar.access, !.refresh = jar.refresh]]
  BY DEF Arrive
<1>2. PICK q : q = [Idle EXCEPT !.kind = kind, !.pc = first,
                                !.access = jar.access, !.refresh = jar.refresh]
  OBVIOUS
<1>3. /\ q.kind = kind /\ q.pc = first /\ q.access = jar.access /\ q.refresh = jar.refresh
      /\ q.got = None /\ q.runs = 0 /\ q.commits = 0
  BY <1>2 DEF Idle
<1>4. call'[c] = q /\ \A d \in Calls \ {c} : call'[d] = call[d]
  BY <1>1, <1>2 DEF TypeOK
<1>5. /\ UNCHANGED <<jar, issued, family, live, lost, ended>>
      /\ leaving \subseteq leaving'
      /\ kind = "logout" => leaving' = leaving \cup ({FamilyOf(jar.refresh)} \ {None})
      /\ leaving' \subseteq leaving \cup ({FamilyOf(jar.refresh)} \ {None})
  BY DEF Arrive, backend, faults
<1>6. StagesAgree'
  <2>1. StageOK(q) /\ RunsOK(q)
    BY <1>3 DEF StageOK, RunsOK, FirstStages, Kinds, Proxied
  <2> QED  BY <1>4, <2>1 DEF StagesAgree
<1>7. IdsExist'
  <2>1. leaving' \subseteq 1..issued
    <3>1. {FamilyOf(jar.refresh)} \ {None} \subseteq 1..issued
      BY Ids
    <3>2. leaving \subseteq 1..issued
      BY DEF IdsExist
    <3> QED  BY <1>5, <3>1, <3>2
  <2>2. jar.refresh \in 0..issued /\ jar.access \in 0..issued /\ None \in 0..issued
    BY Ids DEF None
  <2> QED  BY <1>3, <1>4, <1>5, <2>1, <2>2 DEF IdsExist
<1>8. PairsAreFresh' /\ PairsAreLive'
  BY <1>3, <1>4, <1>5 DEF PairsAreFresh, PairsAreLive
<1>9. LogoutsLeave'
  <2>1. jar.refresh # None => FamilyOf(jar.refresh) = family[jar.refresh]
                                /\ FamilyOf(jar.refresh) # None
    BY Ids DEF None
  <2> QED  BY <1>3, <1>4, <1>5, <2>1 DEF LogoutsLeave
<1>10. BrowserKeepsItsSession'
  <2>1. \A d \in Calls : call[d].got # None => call'[d].got = call[d].got
    <3>1. call[c].got = None
      BY DEF StagesAgree, StageOK, Arrive, Flying
    <3> QED  BY <1>4, <3>1
  <2> SUFFICES ASSUME jar.refresh \notin live \cup {None},
                      FamilyOf(jar.refresh) \notin lost \cup leaving'
               PROVE  \E d \in Calls : call'[d].got \in LiveOf(FamilyOf(jar.refresh))
    BY <1>5 DEF BrowserKeepsItsSession, LiveOf, FamilyOf
  <2>2. PICK d \in Calls : call[d].got \in LiveOf(FamilyOf(jar.refresh))
    BY <1>5 DEF BrowserKeepsItsSession
  <2>3. call[d].got # None
    BY <2>2, Ids DEF LiveOf, None
  <2> QED  BY <2>1, <2>2, <2>3
<1>11. EndedIsDead'
  <2>1. call'[c].pc # "commit"
    BY <1>3, <1>4 DEF FirstStages, Kinds
  <2> QED  BY <1>4, <1>5, <2>1 DEF EndedIsDead, FamilyOf
<1> QED  BY <1>6, <1>7, <1>8, <1>9, <1>10, <1>11

(* A new pair: of the session of the token it replaces, or of its own. *)
LEMMA ObtainStep ==
    ASSUME TypeOK, TypeOK', Rest, NEW c \in Calls, Rotate(c) \/ Login(c)
    PROVE  Rest'
<1> USE DEF Rest
<1>1. PICK new : new = issued + 1
  OBVIOUS
<1>2. /\ new \in Nat /\ new \notin 0..issued /\ new # None /\ new \in Pairs /\ issued \in Nat
      /\ 0..issued \subseteq 0..new /\ 1..issued \subseteq 1..new /\ issued' = new
      /\ \A p \in 1..new : p # new => p \in 1..issued
  <2>1. issued \in Nat /\ MaxPairs \in Nat
    BY BffAssumption DEF TypeOK
  <2>2. issued' = new /\ new \in 1..MaxPairs
    BY <1>1, <2>1 DEF Rotate, Login, Pairs
  <2> QED  BY <1>1, <2>1, <2>2 DEF Pairs, None
<1>3. /\ call[c].got = None /\ call'[c].got = new
      /\ call'[c].refresh = call[c].refresh /\ call'[c].access = call[c].access
      /\ call'[c].kind = call[c].kind
      /\ call[c].kind \in Proxied \cup {"login"} /\ call'[c].pc # "commit"
      /\ \A d \in Calls \ {c} : call'[d] = call[d]
  <2>1. call[c].pc \in {"commit", "login"} /\ call[c].kind \in Proxied \cup {"login"}
        /\ call[c].got = None
    BY DEF StagesAgree, StageOK, Rotate, Login
  <2>2. call[c] \in Call
    BY DEF TypeOK
  <2>3. CASE Rotate(c)
    BY <1>1, <2>1, <2>2, <2>3 DEF Rotate, TypeOK, Call
  <2>4. CASE Login(c)
    BY <1>1, <2>1, <2>2, <2>4 DEF Login, TypeOK, Call
  <2> QED  BY <2>3, <2>4
<1>4. /\ family'[new] \in 1..new
      /\ \A p \in Pairs \ {new} : family'[p] = family[p]
      /\ Rotate(c) => /\ family'[new] = family[call[c].refresh]
                      /\ call[c].refresh \in 1..issued
                      /\ live' = (live \ {call[c].refresh}) \cup {new}
      /\ Login(c) => family'[new] = new /\ live' = live \cup {new}
  <2>1. CASE Login(c)
    BY <1>1, <1>2, <2>1 DEF Login, Rotate, TypeOK
  <2>2. CASE Rotate(c)
    <3>1. call[c].refresh \in 1..issued
      BY <2>2, Ids DEF Rotate, StagesAgree, StageOK, IdsExist
    <3>2. family[call[c].refresh] \in 1..issued
      BY <3>1, Ids
    <3> QED  BY <1>1, <1>2, <2>2, <3>1, <3>2 DEF Login, Rotate, TypeOK
  <2> QED  BY <2>1, <2>2
<1>5. UNCHANGED <<jar, lost, leaving, ended>>
  BY DEF Rotate, Login, faults, history
<1>7. StagesAgree'
  <2>1. StageOK(call'[c]) /\ RunsOK(call'[c])
    <3>1. StageOK(call[c]) /\ RunsOK(call[c])
      BY DEF StagesAgree
    <3>2. CASE Rotate(c)
      <4>1. /\ call'[c].pc = "send" /\ call[c].pc = "commit"
            /\ call'[c].runs = call[c].runs /\ call'[c].commits = call[c].commits
        BY <3>2 DEF Rotate, TypeOK, Call
      <4> QED  BY <1>2, <1>3, <3>1, <4>1 DEF StageOK, RunsOK, Proxied, Stages
    <3>3. CASE Login(c)
      <4>1. /\ call'[c].pc = "answer" /\ call[c].pc = "login"
            /\ call'[c].runs = call[c].runs /\ call'[c].commits = call[c].commits
        BY <3>3 DEF Login, TypeOK, Call
      <4>2. call'[c].kind = "login"
        BY <1>3, <3>1, <4>1 DEF StageOK
      <4> QED  BY <1>2, <1>3, <3>1, <4>1, <4>2 DEF StageOK, RunsOK, Proxied, Stages
    <3> QED  BY <3>2, <3>3
  <2> QED  BY <1>3, <2>1 DEF StagesAgree
<1>8. IdsExist'
  <2>1. \A p \in 1..new : family'[p] \in 1..new
    <3>1. ASSUME NEW p \in 1..new, p # new PROVE family'[p] \in 1..new
      <4>1. p \in 1..issued /\ p \in Pairs
        BY <1>2, <3>1, Ids
      <4> QED  BY <1>2, <1>4, <3>1, <4>1 DEF IdsExist
    <3> QED  BY <1>4, <3>1
  <2>2. \A d \in Calls : /\ call'[d].access \in 0..new /\ call'[d].refresh \in 0..new
                         /\ call'[d].got \in 0..new
    BY <1>2, <1>3 DEF IdsExist
  <2> QED  BY <1>2, <1>5, <2>1, <2>2 DEF IdsExist
<1>9. PairsAreFresh'
  <2>1. jar.refresh \in 0..issued
    BY Ids
  <2> QED  BY <1>2, <1>3, <1>5, <2>1 DEF PairsAreFresh, IdsExist
<1>10. PairsAreLive'
  <2>1. new \in live'
    BY <1>4
  <2>2. ASSUME NEW d \in Calls \ {c}, call[d].got # None
        PROVE  call[d].got \in live' \/ family'[call[d].got] \in leaving
    <3>1. call[d].got \in 1..issued
      BY <2>2, Ids DEF IdsExist
    <3>2. family'[call[d].got] = family[call[d].got]
      BY <3>1, <1>2, <1>4, Ids
    <3>3. call[d].got # call[c].refresh
      BY <2>2 DEF PairsAreFresh
    <3> QED  BY <2>2, <3>2, <3>3, <1>4 DEF PairsAreLive
  <2> QED  BY <1>3, <1>5, <2>1, <2>2 DEF PairsAreLive
<1>11. LogoutsLeave'
  <2>1. ASSUME NEW d \in Calls, call'[d].kind = "logout", call'[d].refresh # None
        PROVE  family'[call'[d].refresh] \in leaving
    <3>1. d # c /\ call'[d] = call[d]
      BY <2>1, <1>3 DEF Proxied
    <3>2. call[d].refresh \in 1..issued
      BY <2>1, <3>1, Ids DEF IdsExist
    <3> QED  BY <2>1, <3>1, <3>2, <1>2, <1>4, Ids DEF LogoutsLeave
  <2> QED  BY <1>5, <2>1 DEF LogoutsLeave
<1>12. BrowserKeepsItsSession'
  <2> SUFFICES ASSUME jar.refresh \notin live' \cup {None},
                      FamilyOf(jar.refresh)' \notin lost \cup leaving
               PROVE  \E d \in Calls : call'[d].got \in live'
                                        /\ family'[call'[d].got] = FamilyOf(jar.refresh)'
    BY <1>5 DEF BrowserKeepsItsSession, LiveOf
  <2>1. /\ jar.refresh \in 1..issued
        /\ FamilyOf(jar.refresh)' = family[jar.refresh]
        /\ FamilyOf(jar.refresh) = family[jar.refresh]
    <3>1. jar.refresh \in 1..issued /\ FamilyOf(jar.refresh) = family[jar.refresh]
      BY Ids
    <3>2. jar.refresh \in Pairs /\ jar.refresh # new
      BY <1>2, <3>1, Ids
    <3> QED  BY <1>4, <1>5, <3>1, <3>2 DEF FamilyOf
  <2>2. CASE jar.refresh \in live
    <3>1. Rotate(c) /\ call[c].refresh = jar.refresh
      BY <2>2, <1>4
    <3>2. call'[c].got \in live' /\ family'[call'[c].got] = family[jar.refresh]
      BY <3>1, <1>3, <1>4
    <3> QED  BY <3>2, <2>1
  <2>3. CASE jar.refresh \notin live
    <3>1. PICK d \in Calls : call[d].got \in LiveOf(FamilyOf(jar.refresh))
      BY <2>1, <2>3 DEF BrowserKeepsItsSession
    <3>2. call[d].got \in live /\ family[call[d].got] = FamilyOf(jar.refresh)
      BY <3>1 DEF LiveOf
    <3>3. call[d].got \in 1..issued
      BY <3>2, Ids
    <3>4. call[d].got # None /\ call[d].got # call[c].refresh
      BY <3>3 DEF PairsAreFresh, None
    <3>5. d # c /\ call'[d].got = call[d].got
      BY <3>4, <1>3
    <3>6. call[d].got \in live' /\ family'[call[d].got] = family[call[d].got]
      BY <3>2, <3>3, <3>4, <1>2, <1>4, Ids
    <3> QED  BY <2>1, <3>2, <3>5, <3>6
  <2> QED  BY <2>2, <2>3
<1>13. EndedIsDead'
  <2>1. family'[new] \notin ended
    <3>1. Rotate(c) => family[call[c].refresh] \notin ended
      BY <1>4, Ids DEF Rotate, EndedIsDead
    <3>2. Login(c) => new \notin ended
      BY <1>2 DEF IdsExist
    <3> QED  BY <1>4, <3>1, <3>2
  <2>2. ASSUME NEW p \in 1..issued, family'[p] \in ended PROVE p \notin live'
    <3>1. p # new /\ family'[p] = family[p]
      BY <1>2, <1>4, Ids
    <3> QED  BY <2>2, <3>1, <1>4 DEF EndedIsDead
  <2>3. ASSUME NEW d \in Calls, call'[d].pc = "commit"
        PROVE  FamilyOf(call[d].refresh)' \notin ended
    <3>1. d # c /\ call'[d] = call[d]
      BY <2>3, <1>3
    <3>2. call[d].refresh # new
      BY <1>2 DEF IdsExist
    <3>3. FamilyOf(call[d].refresh)' = FamilyOf(call[d].refresh)
      BY <1>4, <3>1, <3>2 DEF FamilyOf
    <3> QED  BY <2>3, <3>1, <3>3 DEF EndedIsDead
  <2> QED  BY <1>2, <1>5, <2>1, <2>2, <2>3 DEF EndedIsDead
<1> QED
  BY <1>7, <1>8, <1>9, <1>10, <1>11, <1>12, <1>13

(* A free slot has nothing, and is at the right stage for it. *)
LEMMA IdleHasNothing ==
    /\ Idle.got = None /\ Idle.refresh = None /\ Idle.access = None
    /\ Idle.kind = "data" /\ Idle.pc = "idle"
    /\ StageOK(Idle) /\ RunsOK(Idle)
BY DEF Idle, StageOK, RunsOK

(* A logout takes live tokens from the session it leaves, and no other.  *)
(* Unless it was overtaken, that is all of them, and nobody is replacing *)
(* one of them.                                                          *)
LEMMA LogoutCommitsStep ==
    ASSUME TypeOK, TypeOK', Rest, NEW c \in Calls, LogoutCommits(c)
    PROVE  Rest'
<1> USE DEF Rest
<1>1. PICK f : f = FamilyOf(call[c].refresh)
  OBVIOUS
<1>2. /\ call[c].kind = "logout" /\ call[c].got = None /\ call[c].refresh # None
      /\ f \in leaving /\ f \in 1..issued
  <2>1. call[c].kind = "logout" /\ call[c].got = None /\ call[c].refresh # None
    BY DEF LogoutCommits, StagesAgree, StageOK
  <2>2. f = family[call[c].refresh] /\ f \in 1..issued
    BY <1>1, <2>1, Ids DEF IdsExist
  <2> QED  BY <2>1, <2>2 DEF LogoutsLeave
<1>3. /\ live' \subseteq live
      /\ \A p \in live \ live' : family[p] = f
      /\ ended \subseteq ended' /\ ended' \subseteq ended \cup {f}
      /\ UNCHANGED <<jar, issued, family, lost, leaving>>
  BY <1>1 DEF LogoutCommits, RevokedByLogout, LiveOf, faults
<1>4. /\ call'[c].pc = "answer"
      /\ \A d \in Calls :
           /\ call'[d].got = call[d].got /\ call'[d].refresh = call[d].refresh
           /\ call'[d].access = call[d].access /\ call'[d].kind = call[d].kind
           /\ call'[d].runs = call[d].runs /\ call'[d].commits = call[d].commits
      /\ \A d \in Calls \ {c} : call'[d] = call[d]
  BY DEF LogoutCommits, TypeOK, Call
<1>5. StagesAgree'
  <2>1. StageOK(call'[c]) /\ RunsOK(call'[c])
    BY <1>2, <1>4 DEF StagesAgree, StageOK, RunsOK
  <2> QED  BY <1>4, <2>1 DEF StagesAgree
<1>6. IdsExist' /\ PairsAreFresh'
  BY <1>2, <1>3, <1>4 DEF IdsExist, PairsAreFresh
<1>7. PairsAreLive' /\ LogoutsLeave'
  BY <1>2, <1>3, <1>4 DEF PairsAreLive, LogoutsLeave
<1>8. BrowserKeepsItsSession'
  <2> SUFFICES ASSUME jar.refresh \notin live' \cup {None},
                      FamilyOf(jar.refresh) \notin lost \cup leaving
               PROVE  \E d \in Calls : call[d].got \in live'
                                        /\ family[call[d].got] = FamilyOf(jar.refresh)
    BY <1>3, <1>4 DEF BrowserKeepsItsSession, LiveOf, FamilyOf
  <2>1. FamilyOf(jar.refresh) = family[jar.refresh]
    BY Ids
  <2>2. jar.refresh \notin live
    BY <1>2, <1>3, <2>1
  <2>3. PICK d \in Calls : call[d].got \in LiveOf(FamilyOf(jar.refresh))
    BY <2>2 DEF BrowserKeepsItsSession
  <2> QED  BY <1>2, <1>3, <2>3 DEF LiveOf
<1>9. EndedIsDead'
  <2>1. CASE ended' = ended
    BY <1>3, <1>4, <2>1 DEF EndedIsDead, FamilyOf
  <2>2. CASE ended' # ended
    <3>1. ~Overtaken(call[c]) /\ live' = live \ RevokedByLogout(call[c])
      BY <2>2 DEF LogoutCommits
    <3>2. ASSUME NEW p \in 1..issued, family[p] = f PROVE p \notin live'
      <4>1. p \in Pairs /\ p <= issued /\ p \in Nat /\ call[c].seen \in Nat
        BY Ids, BffAssumption DEF TypeOK, Call
      <4>2. ~(call[c].seen < p)
        BY <1>1, <3>1, <3>2, <4>1 DEF Overtaken
      <4>3. p \in live => p \in RevokedByLogout(call[c])
        BY <1>1, <3>2, <4>1, <4>2 DEF RevokedByLogout, LiveOf
      <4> QED  BY <3>1, <4>3
    <3>3. ASSUME NEW d \in Calls, call'[d].pc = "commit"
          PROVE  FamilyOf(call[d].refresh) \notin ended'
      <4>1. d # c /\ call[d].pc = "commit"
        BY <1>4, <3>3
      <4>2. FamilyOf(call[d].refresh) # f
        BY <1>1, <3>1, <4>1 DEF Overtaken
      <4> QED  BY <1>3, <4>1, <4>2 DEF EndedIsDead
    <3>4. ASSUME NEW p \in 1..issued, family[p] \in ended' PROVE p \notin live'
      BY <1>3, <3>2, <3>4 DEF EndedIsDead
    <3> QED  BY <1>3, <1>4, <3>3, <3>4 DEF EndedIsDead, FamilyOf
  <2> QED  BY <2>1, <2>2
<1> QED  BY <1>5, <1>6, <1>7, <1>8, <1>9

(* A call leaves its slot, answered or lost. *)
LEMMA LeaveSlot ==
    ASSUME TypeOK, Rest, NEW c \in Calls, call' = [call EXCEPT ![c] = Idle],
           UNCHANGED <<issued, family, live, leaving, ended>>
    PROVE  /\ StagesAgree' /\ PairsAreLive' /\ LogoutsLeave' /\ EndedIsDead'
           /\ \A d \in Calls : /\ call'[d].access \in {None, call[d].access}
                               /\ call'[d].refresh \in {None, call[d].refresh}
                               /\ call'[d].got \in {None, call[d].got}
           /\ call'[c].got = None /\ \A d \in Calls \ {c} : call'[d] = call[d]
<1> USE DEF Rest
<1>1. call'[c] = Idle /\ \A d \in Calls \ {c} : call'[d] = call[d]
  BY DEF TypeOK
<1>2. StagesAgree'
  BY <1>1, IdleHasNothing DEF StagesAgree
<1>3. PairsAreLive' /\ LogoutsLeave'
  BY <1>1, IdleHasNothing DEF PairsAreLive, LogoutsLeave
<1>4. EndedIsDead'
  BY <1>1, IdleHasNothing DEF EndedIsDead, FamilyOf
<1> QED  BY <1>1, <1>2, <1>3, <1>4, IdleHasNothing

(* An answer: the cookies become those of a pair nobody else knew, or are  *)
(* deleted.                                                                *)
LEMMA AnswerStep ==
    ASSUME TypeOK, TypeOK', Rest, NEW c \in Calls, Answer(c)
    PROVE  Rest'
<1> USE DEF Rest
<1>1. /\ call' = [call EXCEPT ![c] = Idle]
      /\ UNCHANGED <<issued, family, live, lost, leaving, ended>>
  BY DEF Answer, backend, faults, history
<1>2. /\ StagesAgree' /\ PairsAreLive' /\ LogoutsLeave' /\ EndedIsDead'
      /\ \A d \in Calls : /\ call'[d].access \in {None, call[d].access}
                          /\ call'[d].refresh \in {None, call[d].refresh}
                          /\ call'[d].got \in {None, call[d].got}
      /\ call'[c].got = None /\ \A d \in Calls \ {c} : call'[d] = call[d]
  BY <1>1, LeaveSlot
<1>3. jar'.refresh \in {None, call[c].got, jar.refresh}
      /\ (call[c].got # None => jar'.refresh = call[c].got)
      /\ (call[c].kind = "logout" => jar'.refresh = None)
  BY DEF Answer, JarAfter, JarAfterLogout, EmptyJar, SetsPair, StagesAgree, StageOK
<1>4. IdsExist'
  <2>1. None \in 0..issued
    BY Ids DEF None
  <2> QED  BY <1>1, <1>2, <2>1 DEF IdsExist
<1>5. PairsAreFresh'
  BY <1>2, <1>3 DEF PairsAreFresh
<1>6. BrowserKeepsItsSession'
  <2> SUFFICES ASSUME jar'.refresh \notin live \cup {None},
                      FamilyOf(jar.refresh)' \notin lost \cup leaving
               PROVE  \E d \in Calls : call'[d].got \in live
                                        /\ family[call'[d].got] = FamilyOf(jar.refresh)'
    BY <1>1 DEF BrowserKeepsItsSession, LiveOf
  <2>1. call[c].got # None => FamilyOf(jar.refresh)' = family[call[c].got]
    BY <1>1, <1>3, Ids DEF FamilyOf, IdsExist
  <2>2. call[c].got = None
    BY <1>3, <2>1 DEF PairsAreLive
  <2>3. jar'.refresh = jar.refresh /\ FamilyOf(jar.refresh)' = FamilyOf(jar.refresh)
    BY <1>1, <1>3, <2>2 DEF FamilyOf
  <2>4. PICK d \in Calls : call[d].got \in LiveOf(FamilyOf(jar.refresh))
    BY <2>3 DEF BrowserKeepsItsSession
  <2>5. d # c
    BY <2>2, <2>4, Ids DEF LiveOf, None
  <2> QED  BY <1>2, <2>3, <2>4, <2>5 DEF LiveOf
<1> QED  BY <1>2, <1>4, <1>5, <1>6

(* A lost request: the session of a pair that was under way is lost. *)
LEMMA LoseStep ==
    ASSUME TypeOK, TypeOK', Rest, NEW c \in Calls, Lose(c)
    PROVE  Rest'
<1> USE DEF Rest
<1>1. /\ call' = [call EXCEPT ![c] = Idle]
      /\ UNCHANGED <<jar, issued, family, live, leaving, ended>>
      /\ lost \subseteq lost'
      /\ call[c].got # None => lost' = lost \cup {family[call[c].got]}
      /\ call[c].got = None => lost' = lost
  BY DEF Lose, backend, history
<1>2. /\ StagesAgree' /\ PairsAreLive' /\ LogoutsLeave' /\ EndedIsDead'
      /\ \A d \in Calls : /\ call'[d].access \in {None, call[d].access}
                          /\ call'[d].refresh \in {None, call[d].refresh}
                          /\ call'[d].got \in {None, call[d].got}
      /\ call'[c].got = None /\ \A d \in Calls \ {c} : call'[d] = call[d]
  BY <1>1, LeaveSlot
<1>3. IdsExist'
  <2>1. lost' \subseteq 1..issued
    BY <1>1, Ids DEF IdsExist
  <2>2. None \in 0..issued
    BY Ids DEF None
  <2> QED  BY <1>1, <1>2, <2>1, <2>2 DEF IdsExist
<1>4. PairsAreFresh'
  BY <1>1, <1>2 DEF PairsAreFresh
<1>5. BrowserKeepsItsSession'
  <2> SUFFICES ASSUME jar.refresh \notin live \cup {None},
                      FamilyOf(jar.refresh) \notin lost' \cup leaving
               PROVE  \E d \in Calls : call'[d].got \in LiveOf(FamilyOf(jar.refresh))
    BY <1>1 DEF BrowserKeepsItsSession, LiveOf, FamilyOf
  <2>1. PICK d \in Calls : call[d].got \in LiveOf(FamilyOf(jar.refresh))
    BY <1>1 DEF BrowserKeepsItsSession
  <2>2. call[d].got # None
    BY <2>1, Ids DEF LiveOf, None
  <2>3. d # c
    BY <1>1, <2>1, <2>2 DEF LiveOf
  <2> QED  BY <1>2, <2>1, <2>3
<1> QED  BY <1>2, <1>3, <1>4, <1>5

(* Steps the rest of the invariant does not look at. *)
LEMMA QuietStep ==
    ASSUME Rest, UNCHANGED <<jar, call, issued, family, live, lost, history>>
    PROVE  Rest'
BY DEF Rest, StagesAgree, IdsExist, PairsAreFresh, PairsAreLive, LogoutsLeave,
   BrowserKeepsItsSession, EndedIsDead, FamilyOf, LiveOf, history

(* The steps of the two routes and of the proxy that only move a call on. *)
LEMMA ProxyStep ==
    ASSUME TypeOK, TypeOK', Rest, NEW c \in Calls,
           \/ Send(c) \/ Hit(c) \/ Lookup(c) \/ LoginFails(c)
           \/ LogoutSent(c) \/ LogoutFetchFails(c) \/ Revoke(c)
    PROVE  Rest'
<1>1. call[c] \in Call /\ call'[c] \in Call /\ StageOK(call[c]) /\ RunsOK(call[c])
  BY DEF TypeOK, Rest, StagesAgree
<1>2. PICK q : q = call'[c]
  OBVIOUS
<1>3. UNCHANGED <<jar, issued, family, live, lost, history>>
  BY DEF Send, Hit, Lookup, LoginFails, LogoutSent, LogoutFetchFails, Revoke, backend, faults
<1>4. ASSUME NEW to \in Stages, call' = [call EXCEPT ![c].pc = to]
      PROVE  /\ call' = [call EXCEPT ![c] = q]
             /\ q.pc = to /\ q.got = call[c].got /\ q.refresh = call[c].refresh
             /\ q.access = call[c].access /\ q.kind = call[c].kind
             /\ q.runs = call[c].runs /\ q.commits = call[c].commits
  BY <1>1, <1>2, <1>4 DEF TypeOK, Call
<1>5. CASE Send(c)
  <2>1. PICK r \in Replies(c) :
          call' = [call EXCEPT
                     ![c].pc = IF Retries(c, r.status) THEN "hit" ELSE "answer",
                     ![c].status = r.status,
                     ![c].runs = IF r.ran THEN @ + 1 ELSE @,
                     ![c].commits = IF r.committed THEN @ + 1 ELSE @]
    BY <1>5 DEF Send
  <2>2. /\ call' = [call EXCEPT ![c] = q]
        /\ q.pc = (IF Retries(c, r.status) THEN "hit" ELSE "answer")
        /\ q.got = call[c].got /\ q.refresh = call[c].refresh /\ q.access = call[c].access
        /\ q.kind = call[c].kind
        /\ q.runs = (IF r.ran THEN call[c].runs + 1 ELSE call[c].runs)
        /\ q.commits = (IF r.committed THEN call[c].commits + 1 ELSE call[c].commits)
    <3>1. q = [call[c] EXCEPT
                 !.pc = IF Retries(c, r.status) THEN "hit" ELSE "answer",
                 !.status = r.status,
                 !.runs = IF r.ran THEN @ + 1 ELSE @,
                 !.commits = IF r.committed THEN @ + 1 ELSE @]
      BY <1>2, <2>1 DEF TypeOK
    <3>2. call' = [call EXCEPT ![c] = q]
      BY <2>1, <3>1 DEF TypeOK
    <3> QED  BY <1>1, <3>1, <3>2 DEF Call
  <2>3. call[c].pc = "send" /\ call[c].kind \in Proxied
    BY <1>1, <1>5 DEF Send, StageOK
  <2>4. StageOK(q)
    BY <2>2, <2>3 DEF StageOK, Proxied, Retries
  <2>5. Retries(c, r.status) =>
          ~r.committed /\ (r.ran => RefusesItself(call[c].kind))
    BY DEF Retries, Replies
  <2>6. RunsOK(q)
    <3>1. /\ call[c].commits = 0
          /\ call[c].runs <= IF RefusesItself(call[c].kind) THEN 1 ELSE 0
          /\ call[c].got = None => call[c].runs = 0
          /\ call[c].runs \in 0..2
      BY <1>1, <2>3 DEF RunsOK, Call
    <3>2. Retries(c, r.status) => call[c].got = None
      BY DEF Retries
    <3> QED  BY <2>2, <2>5, <3>1, <3>2 DEF RunsOK
  <2> QED
    BY <1>1, <1>2, <1>3, <2>2, <2>3, <2>4, <2>6, MoveStep DEF Flying, Proxied
<1>6. CASE Hit(c) \/ Lookup(c)
  <2>1. PICK to \in {"lookup", "answer", "commit"} :
          /\ call' = [call EXCEPT ![c].pc = to]
          /\ call[c].pc \in {"hit", "lookup"}
          /\ to = "commit" => call[c].refresh \in live
    BY <1>6 DEF Hit, Lookup, Step, IsLive
  <2>2. to \in Stages
    BY DEF Stages
  <2>3. call[c].kind \in Proxied /\ StageOK(q) /\ RunsOK(q)
    BY <1>1, <1>4, <2>1, <2>2 DEF StageOK, RunsOK, Proxied, Stages
  <2> QED  BY <1>1, <1>2, <1>3, <1>4, <2>1, <2>2, <2>3, MoveStep DEF Flying, Proxied
<1>7. CASE LoginFails(c)
  <2>1. /\ call' = [call EXCEPT ![c] = q] /\ call[c].pc = "login"
        /\ q.pc = "answer" /\ q.got = call[c].got /\ q.refresh = call[c].refresh
        /\ q.access = call[c].access /\ q.kind = call[c].kind
        /\ q.runs = call[c].runs /\ q.commits = call[c].commits
    BY <1>1, <1>2, <1>7 DEF LoginFails, TypeOK, Call
  <2>2. call[c].kind = "login" /\ StageOK(q) /\ RunsOK(q)
    BY <1>1, <2>1 DEF StageOK, RunsOK, Stages
  <2> QED  BY <1>1, <1>2, <1>3, <2>1, <2>2, MoveStep DEF Flying
<1>8. CASE LogoutSent(c) \/ LogoutFetchFails(c)
  <2>1. PICK to \in {"revoke", "answer"} :
          /\ call' = [call EXCEPT ![c].pc = to]
          /\ call[c].pc \in {"logout", "revoke", "leave"}
          /\ to = "revoke" => call[c].refresh # None
    BY <1>8 DEF LogoutSent, LogoutFetchFails, Step
  <2>2. to \in Stages
    BY DEF Stages
  <2>3. StageOK(q) /\ RunsOK(q)
    BY <1>1, <1>4, <2>1, <2>2 DEF StageOK, RunsOK
  <2> QED  BY <1>1, <1>2, <1>3, <1>4, <2>1, <2>2, <2>3, MoveStep DEF Flying
<1>9. CASE Revoke(c)
  <2>1. /\ call' = [call EXCEPT ![c] = q] /\ call[c].pc = "revoke"
        /\ q.pc = "leave" /\ q.got = call[c].got /\ q.refresh = call[c].refresh
        /\ q.access = call[c].access /\ q.kind = call[c].kind
        /\ q.runs = call[c].runs /\ q.commits = call[c].commits
    BY <1>1, <1>2, <1>9 DEF Revoke, TypeOK, Call
  <2>2. StageOK(q) /\ RunsOK(q)
    BY <1>1, <2>1 DEF StageOK, RunsOK
  <2> QED  BY <1>1, <1>2, <1>3, <2>1, <2>2, MoveStep DEF Flying
<1> QED  BY <1>5, <1>6, <1>7, <1>8, <1>9

(* The invariant is kept. *)
LEMMA RestStep == BffInv /\ [Next]_vars => Rest'
<1> SUFFICES ASSUME TypeOK, TypeOK', Rest, [Next]_vars PROVE Rest'
  BY TypeStep DEF BffInv
<1>1. CASE UNCHANGED vars
  BY <1>1, QuietStep DEF vars, backend, faults
<1>2. ASSUME NEW p \in Pairs, Age(p) PROVE Rest'
  BY <1>2, QuietStep DEF Age, faults
<1> QED
  BY <1>1, <1>2, ProxyStep, ArriveStep, ObtainStep, LogoutCommitsStep, AnswerStep, LoseStep
  DEF Next, Serve

(* However requests of one browser overlap and whichever are lost, what    *)
(* cookies, calls and the backend know of its sessions agrees.             *)
THEOREM BffInvariance == Spec => []BffInv
<1>1. Init => BffInv
  <2> SUFFICES ASSUME Init PROVE BffInv
    OBVIOUS
  <2>1. jar = [access |-> None, refresh |-> None] /\ issued = 0 /\ \A c \in Calls : call[c] = Idle
    BY DEF Init, EmptyJar
  <2>2. None \in 0..MaxPairs /\ None \in 0..0 /\ None \notin Pairs /\ 0 \in 0..MaxLosses
    BY BffAssumption DEF None, Pairs
  <2>3. TypeOK
    BY <2>1, <2>2, IdleIsCall DEF Init, TypeOK
  <2>4. StagesAgree /\ LogoutsLeave
    BY <2>1, IdleHasNothing DEF StagesAgree, LogoutsLeave
  <2>5. IdsExist
    BY <2>1, <2>2, IdleHasNothing DEF Init, IdsExist
  <2>6. PairsAreFresh /\ PairsAreLive /\ EndedIsDead
    BY <2>1, IdleHasNothing DEF Init, PairsAreFresh, PairsAreLive, EndedIsDead
  <2>7. BrowserKeepsItsSession
    BY <2>1 DEF BrowserKeepsItsSession
  <2> QED  BY <2>3, <2>4, <2>5, <2>6, <2>7 DEF BffInv, Rest
<1> QED  BY <1>1, TypeStep, RestStep, PTL DEF Spec, BffInv

(* The cookies, the calls and the tokens keep their types. *)
THEOREM BffTypeCorrect == Spec => []TypeOK
<1>1. BffInv => TypeOK
  BY DEF BffInv
<1> QED  BY <1>1, BffInvariance, PTL

(* Unless an answer with cookies was lost or the user asked to leave, the  *)
(* browser holds a live refresh token or is about to be given one, however *)
(* many of its requests rotate at once and whichever answer comes last.    *)
THEOREM SessionKept == Spec => []BrowserKeepsItsSession
<1>1. BffInv => BrowserKeepsItsSession
  BY DEF BffInv, Rest
<1> QED  BY <1>1, BffInvariance, PTL

(* Whatever the backend answers to the two attempts of a browser request,  *)
(* they commit once; and only a handler that can answer 401 itself runs    *)
(* twice.                                                                  *)
THEOREM NothingRepeated == Spec => []RetryRepeatsNothing
<1>1. BffInv => RetryRepeatsNothing
  BY DEF BffInv, Rest, StagesAgree, RunsOK, RetryRepeatsNothing
<1> QED  BY <1>1, BffInvariance, PTL

(* A logout that was committed and not overtaken by a rotation leaves no   *)
(* live token of its session, and none ever comes back, whatever is in     *)
(* flight beside it or sent afterwards.                                    *)
THEOREM AcceptedLogoutFinal == Spec => []AcceptedLogoutIsFinal
<1>1. BffInv => AcceptedLogoutIsFinal
  BY Ids DEF BffInv, Rest, EndedIsDead, AcceptedLogoutIsFinal
<1> QED  BY <1>1, BffInvariance, PTL
=============================================================================
