-------------------------- MODULE MCLoginThrottle --------------------------
(* Instances of LoginThrottle for what its own comments say of it: one     *)
(* attempt is enough.                                                      *)
EXTENDS LoginThrottle

CONSTANTS a1, a2
=============================================================================
