------------------------------- MODULE MCDialer -------------------------------
(* Dialer on small instances. *)
EXTENDS Dialer, TLC

CONSTANTS l1, l2, p1, p2, caller

Symmetry == Permutations(Leads)
===============================================================================
