----------------------------- MODULE CallingRules -----------------------------
(***************************************************************************)
(* The gates every call passes, whoever places it (calling-rules.ts): a    *)
(* pure function from what is known about the lead, the campaign, the      *)
(* clock and the wallet to the reasons not to call.                        *)
(***************************************************************************)
EXTENDS Integers, FiniteSets

CONSTANT Null     \* a column that is NULL

ASSUME RulesAssumption == Null \notin Nat

BlockReasons == {
    "CALLING_DISABLED", "CAMPAIGN_NOT_ACTIVE", "INVALID_PHONE", "DO_NOT_CALL", "LEAD_ALREADY_CLOSED",
    "NUMBER_BLOCKED", "COUNTRY_NOT_ALLOWED", "OUTSIDE_CALLING_WINDOW", "DAY_NOT_ALLOWED",
    "MAX_ATTEMPTS_REACHED", "RETRY_TOO_SOON", "DAILY_LIMIT_REACHED", "INSUFFICIENT_CREDITS"}

\* The dialer gives up on a lead blocked by one of these, and retires it.
PermanentReasons == {"DO_NOT_CALL", "LEAD_ALREADY_CLOSED", "INVALID_PHONE", "NUMBER_BLOCKED",
                     "COUNTRY_NOT_ALLOWED"}

\* These stop the rest of the batch: every lead of the campaign would be blocked the same way.
CampaignWideReasons == {"OUTSIDE_CALLING_WINDOW", "DAY_NOT_ALLOWED", "DAILY_LIMIT_REACHED",
                        "CALLING_DISABLED", "CAMPAIGN_NOT_ACTIVE"}

ClosedLeadStatuses == {"CONVERTED", "NOT_INTERESTED", "INVALID", "LOST", "CLOSED", "WRONG_NUMBER"}

\* From the first minute up to but not including the last; one that ends before it starts is empty.
InWindow(minute, start, end) == start <= minute /\ minute < end

\* evaluateCallGates: every reason that applies, not just the first.
GateReasons(g) ==
    {reason \in BlockReasons :
        \/ reason = "CALLING_DISABLED" /\ ~g.callingEnabled
        \/ reason = "CAMPAIGN_NOT_ACTIVE" /\ g.campaignStatus # "ACTIVE"
        \/ reason = "INVALID_PHONE" /\ ~g.phoneDiallable
        \/ reason = "DO_NOT_CALL" /\ g.dncEnabled /\ g.doNotCall
        \/ reason = "LEAD_ALREADY_CLOSED" /\ g.leadStatus \in ClosedLeadStatuses
        \/ reason = "NUMBER_BLOCKED" /\ g.suppressed
        \/ reason = "COUNTRY_NOT_ALLOWED" /\ g.allowedCountries # {} /\ g.country \notin g.allowedCountries
        \/ reason = "OUTSIDE_CALLING_WINDOW" /\ ~InWindow(g.minuteOfDay, g.windowStart, g.windowEnd)
        \/ reason = "DAY_NOT_ALLOWED" /\ g.days # {} /\ g.dayOfWeek \notin g.days
        \/ reason = "MAX_ATTEMPTS_REACHED" /\ g.attempts >= g.maxAttempts
        \/ reason = "RETRY_TOO_SOON" /\ g.lastAttemptAt # Null
                                     /\ g.now - g.lastAttemptAt < g.retryDelay
        \/ reason = "DAILY_LIMIT_REACHED" /\ g.dailyCallLimit # Null /\ g.callsToday >= g.dailyCallLimit
        \/ reason = "INSUFFICIENT_CREDITS" /\ g.creditBalance < g.creditCost}
===============================================================================
