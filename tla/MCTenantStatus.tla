----------------------------- MODULE MCTenantStatus -----------------------------
(* TenantStatus on small instances: two instances of the API, each with one *)
(* operator and one request at a time.                                      *)
EXTENDS TenantStatus, TLC

CONSTANTS east, west, o1, o2, r1, r2

HomeOf == (o1 :> east) @@ (o2 :> west) @@ (r1 :> east) @@ (r2 :> west)
\* The two halves of the instance are alike.
Other == (o1 :> o2) @@ (o2 :> o1) @@ (r1 :> r2) @@ (r2 :> r1) @@ (east :> west) @@ (west :> east)
Same == [x \in DOMAIN Other |-> x]
Symmetry == {Same, Other}
===============================================================================
