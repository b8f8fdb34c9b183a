------------------------------ MODULE MCSessions ------------------------------
(* Sessions on small instances. *)
EXTENDS Sessions, TLC

CONSTANTS b1, b2, r1, r2, r3

\* Two requests on one page, and one on another.
SomeTabs == [r \in {r1, r2, r3} |-> IF r = r3 THEN b2 ELSE b1]

Symmetry == Permutations({r1, r2})
===============================================================================
