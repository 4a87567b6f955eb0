------------------------------ MODULE Session ------------------------------
(***************************************************************************)
(* What the refresh-token store promises, without requests, rows or locks: *)
(* a session holds one valid refresh token, each rotation replaces it by a *)
(* token never seen before, and an ended session stays ended.  A session   *)
(* that requests used at the same time may fork; of a forked session only  *)
(* the freshness of its tokens is promised.  RefreshTokens implements it.  *)
(***************************************************************************)
EXTENDS Naturals

CONSTANTS Sessions, Tokens, NoToken

VARIABLES
    phase,   \* of each session: new, open, ended or forked
    token,   \* the valid token of an open session
    issued   \* tokens given out so far

vars == <<phase, token, issued>>

Init ==
    /\ phase = [s \in Sessions |-> "new"]
    /\ token = [s \in Sessions |-> NoToken]
    /\ issued = {}

Give(s, n) ==
    /\ n \in Tokens \ issued
    /\ issued' = issued \cup {n}
    /\ token' = [token EXCEPT ![s] = n]

Open(s, n) ==
    /\ phase[s] = "new" /\ Give(s, n)
    /\ phase' = [phase EXCEPT ![s] = "open"]

Rotate(s, n) ==
    /\ phase[s] = "open" /\ Give(s, n)
    /\ UNCHANGED phase

End(s) ==
    /\ phase[s] = "open"
    /\ phase' = [phase EXCEPT ![s] = "ended"]
    /\ token' = [token EXCEPT ![s] = NoToken]
    /\ UNCHANGED issued

(* Two requests use the session at the same time. *)
Fork(s) ==
    /\ phase[s] \in {"open", "ended"}
    /\ phase' = [phase EXCEPT ![s] = "forked"]
    /\ token' = [token EXCEPT ![s] = NoToken]
    /\ UNCHANGED issued

RotateForked(n) ==
    /\ \E s \in Sessions : phase[s] = "forked"
    /\ n \in Tokens \ issued
    /\ issued' = issued \cup {n}
    /\ UNCHANGED <<phase, token>>

Next ==
    \/ \E s \in Sessions : \/ \E n \in Tokens : Open(s, n) \/ Rotate(s, n)
                           \/ End(s) \/ Fork(s)
    \/ \E n \in Tokens : RotateForked(n)

Spec == Init /\ [][Next]_vars
=============================================================================
