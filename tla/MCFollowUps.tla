------------------------------ MODULE MCFollowUps ------------------------------
(* FollowUps on small instances. *)
EXTENDS FollowUps, TLC

CONSTANTS w1, w2

Symmetry == Permutations(Workers)

\* Zones that keep their clocks, lose an hour or gain one.
SomeZones ==
    {[before |-> 0, after |-> 0, change |-> 0],
     [before |-> 0, after |-> 1, change |-> 2],
     [before |-> 1, after |-> 0, change |-> 24],
     [before |-> -8, after |-> -7, change |-> 10],
     [before |-> 3, after |-> 2, change |-> 23]}
===============================================================================
