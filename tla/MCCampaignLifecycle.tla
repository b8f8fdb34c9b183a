------------------------- MODULE MCCampaignLifecycle -------------------------
(* CampaignLifecycle on small instances: the PATCHes its managers send. *)
EXTENDS CampaignLifecycle, TLC

CONSTANTS m1, m2, l1, l2

Symmetry == Permutations(Managers) \union Permutations(Leads)

Patch(start, end, agent, script) == [start |-> start, end |-> end, agent |-> agent, script |-> script]

\* A whole window, each end alone, the window cleared, and the agent taken off, put on, or left without a script.
SomePatches == {
    Patch(1, 3, Keep, Keep), Patch(2, Keep, Keep, Keep), Patch(3, Keep, Keep, Keep),
    Patch(Keep, 2, Keep, Keep), Patch(Null, Null, Keep, Keep),
    Patch(Keep, Keep, Null, "empty"), Patch(Keep, Keep, Agent, Keep)}
==============================================================================
