---------------------------- MODULE MCBffSession ----------------------------
(* Instances of BffSession: two requests of one browser at a time.         *)
EXTENDS BffSession, TLC

CONSTANTS c1, c2

CallSymmetry == Permutations(Calls)
=============================================================================
