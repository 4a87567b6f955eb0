-------------------------- MODULE MCCompanyAdmins --------------------------
(* Instances of CompanyAdmins: two addresses, owners and other admins, and *)
(* two requests at a time, so that an update can overlap an update, a      *)
(* creation a creation, and each the other.                                *)
EXTENDS CompanyAdmins, TLC

CONSTANTS r1, r2, first, second, owner, admin, none

RequestSymmetry == Permutations(Requests)
=============================================================================
