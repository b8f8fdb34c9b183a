------------------------------ MODULE MCDoNotCall ------------------------------
(* The do-not-call list on small instances: an Indian mobile number, and one  *)
(* abroad that is also typed without its country code.                        *)
EXTENDS DoNotCall, TLC

CONSTANTS l1, l2, r1, r2

TheCode == <<9, 1>>
TheSpellings ==
    [asha  |-> {<<9, 8, 7>>, <<0, 9, 8, 7>>, <<9, 1, 9, 8, 7>>},
     maria |-> {<<1, 4, 5, 5>>, <<4, 5, 5>>}]
Line(typed, dnc, name, dated) == [typed |-> typed, dnc |-> dnc, name |-> name, dated |-> dated]
TheFiles ==
    {<<Line(<<0, 9, 8, 7>>, FALSE, TRUE, TRUE), Line(<<9, 1, 9, 8, 7>>, TRUE, TRUE, TRUE)>>,
     <<Line(<<1, 4, 5, 5>>, TRUE, TRUE, FALSE)>>,
     <<Line(<<4, 5, 5>>, TRUE, TRUE, TRUE), Line(<<9, 8, 7>>, TRUE, FALSE, TRUE)>>}

Symmetry == Permutations(LeadIds) \union Permutations(Requests)
===============================================================================
