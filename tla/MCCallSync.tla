------------------------------ MODULE MCCallSync ------------------------------
(* CallSync on small instances. *)
EXTENDS CallSync, TLC

CONSTANTS s1, s2

Symmetry == Permutations(Syncers)
===============================================================================
