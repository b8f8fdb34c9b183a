------------------------------ MODULE MCMembership ------------------------------
(* Membership on small instances. *)
EXTENDS Membership, TLC

CONSTANTS o1, o2, guest, r1, r2

Symmetry == Permutations(Members) \union Permutations(Requests)
===============================================================================
