--------------------------- MODULE MCCreditLedger ---------------------------
(* CreditLedger on small instances: what the requests of each run ask for. *)
EXTENDS CreditLedger

CONSTANTS r1, r2, tenant, inv1, inv2, lead1

Ask(kind, operation, amount, refType, refId) ==
    [kind |-> kind, operation |-> operation, amount |-> amount, refType |-> refType, refId |-> refId]

\* Every way the account can move, and operator grants that are too large or of nothing.
AccountJobs == {
    Ask("spend", "AI_CALL", 1, "lead", lead1),
    Ask("spend", "TRANSCRIPTION", 2, "lead", lead1),
    Ask("grant", "REFUND", 1, "lead", lead1),
    Ask("operator", "PURCHASE", 2, "operator", inv1),
    Ask("operator", "MANUAL_ADJUSTMENT", 1, "operator", inv1),
    Ask("operator", "MANUAL_ADJUSTMENT", 2, "operator", NoId),
    Ask("operator", "PLAN_GRANT", 9, "operator", inv2),
    Ask("operator", "PLAN_GRANT", 0, "operator", NoId),
    Ask("reconcile", "AI_CALL", 0, "none", NoId)}
=============================================================================
