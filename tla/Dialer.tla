-------------------------------- MODULE Dialer --------------------------------
(***************************************************************************)
(* One campaign being dialled: dialer.service.ts, with placeCall, gate,    *)
(* syncStatus's effect and hangUp of calls.service.ts.                     *)
(*                                                                         *)
(* A worker is a pass of the dialer (a scheduled one, or an operator       *)
(* clicking Run) or somebody clicking Call.  Its database statements and   *)
(* its calls to the telephony provider are steps, so that workers, the     *)
(* provider, the operator and crashes interleave between any two.  Two     *)
(* handlers are one step each: the gate's reads, which only a worker past  *)
(* it can outdate, and syncStatus, whose own races CallSync has.  The      *)
(* wallet is the account that CreditLedger is shown to implement.          *)
(***************************************************************************)
EXTENDS CallingRules, Sequences

CONSTANTS
    Leads, NoLead,
    Passes,         \* dialer passes that may run at the same time
    Callers,        \* people who click Call, once each
    BatchSize,      \* BATCH_SIZE: leads one pass attempts
    SweepLimit,     \* syncActive's limit: calls one sweep looks at
    MaxAttempts,    \* the campaign's maxAttempts
    RetryDelay,     \* its retryDelayMinutes, in ticks
    DailyLimit,     \* its dailyCallLimit
    WindowStart, WindowEnd,     \* its calling window, in ticks of a day
    DayLength,      \* ticks in a day
    Credits,        \* the wallet at the start
    MaxTime,        \* bound: ticks of the clock
    MaxCrashes,     \* bound: workers that die
    MaxRefusals,    \* bound: calls the provider refuses
    MaxHangUps,     \* bound: calls somebody hangs up
    MaxPauses       \* bound: times the campaign is paused, or a lead flagged do-not-call

Workers == Passes \union Callers

ASSUME DialerAssumption ==
    /\ NoLead \notin Leads
    /\ IsFiniteSet(Passes) /\ IsFiniteSet(Callers)
    /\ BatchSize \in Nat \ {0} /\ SweepLimit \in Nat \ {0} /\ MaxAttempts \in Nat \ {0} /\ RetryDelay \in Nat
    /\ DailyLimit \in Nat \ {0} /\ DayLength \in Nat \ {0}
    /\ WindowStart \in Nat /\ WindowEnd \in Nat /\ Credits \in Nat
    /\ MaxTime \in Nat /\ MaxCrashes \in Nat /\ MaxRefusals \in Nat /\ MaxHangUps \in Nat /\ MaxPauses \in Nat

VARIABLES
    now,        \* the clock
    active,     \* the campaign's status is ACTIVE (else PAUSED)
    dnc,        \* leads flagged do-not-call
    balance,    \* the wallet
    member,     \* member[l]: the lead's campaign_leads row
    calls,      \* the calls table, and for each call what the phone line really did
    me,         \* me[w]: where worker w is, and what it has read
    crashes, refusals, hangUps, pauses  \* how often, against their bounds

counters == <<crashes, refusals, hangUps, pauses>>
vars == <<now, active, dnc, balance, member, calls, me, counters>>

LiveStatuses == {"QUEUED", "DIALING", "RINGING", "CONNECTED", "ON_HOLD"}
TerminalStatuses == {"COMPLETED", "FAILED", "BUSY", "NO_ANSWER", "VOICEMAIL", "CANCELLED"}

-------------------------------------------------------------------------------
\* A worker with nothing in hand.
Idle == [pc |-> "idle", campaign |-> TRUE, lead |-> NoLead, call |-> 0,
         sweep |-> {}, claims |-> {}, batch |-> {}, reasons |-> {}]

Init ==
    /\ now = 0
    /\ active = TRUE
    /\ dnc = {}
    /\ balance = Credits
    /\ member = [l \in Leads |-> [state |-> "PENDING", attempts |-> 0,
                                  lastAttemptAt |-> Null, nextAttemptAt |-> Null]]
    /\ calls = <<>>
    /\ me = [w \in Workers |-> Idle]
    /\ crashes = 0 /\ refusals = 0 /\ hangUps = 0 /\ pauses = 0

At(w, step) == me[w].pc = step
Goto(w, step) == me' = [me EXCEPT ![w].pc = step]

\* A pass goes on to its next lead; a person is done.
NextLead(w) == IF w \in Passes THEN "next" ELSE "done"

-------------------------------------------------------------------------------
(* syncStatus, when the provider says how a call ended: settleLead, the      *)
(* refund of a call that never connected, and the call's own row.            *)

\* Back in the queue at once, without waiting out the retry delay.
RequeuedAtOnce(row, attempts) ==
    IF attempts >= MaxAttempts
    THEN [row EXCEPT !.state = "EXHAUSTED", !.nextAttemptAt = Null]
    ELSE [row EXCEPT !.state = "PENDING", !.nextAttemptAt = Null]

\* The claim kept when a lead goes back.
RequeuedStillClaimed(row, attempts) == [row EXCEPT !.nextAttemptAt = now + RetryDelay]

\* Where a campaign lead goes when its call is over, or its stale claim is released.
Requeued(row, attempts) ==
    IF attempts >= MaxAttempts
    THEN [row EXCEPT !.state = "EXHAUSTED", !.nextAttemptAt = Null]
    ELSE [row EXCEPT !.state = "PENDING", !.nextAttemptAt = now + RetryDelay]

SettledMember(call) ==
    IF ~call.campaign THEN member
    ELSE [member EXCEPT ![call.lead] =
            IF call.line = "answered"
            THEN [@ EXCEPT !.state = "COMPLETED", !.nextAttemptAt = Null]
            ELSE Requeued(@, @.attempts)]

\* A refund for every call that ends.
RefundDueAlways(call) == call.credits > 0

RefundDue(call) == call.line # "answered" /\ call.credits > 0

Sync(c) ==
    LET call == calls[c] IN
    /\ calls' = [calls EXCEPT ![c].status = IF call.line = "answered" THEN "COMPLETED" ELSE "NO_ANSWER",
                              ![c].credits = IF RefundDue(call) THEN 0 ELSE @]
    /\ balance' = IF RefundDue(call) THEN balance + call.credits ELSE balance
    /\ member' = SettledMember(call)

\* A call whose end a sync would record: still open here, known to the provider, and over there.
Settleable(c) ==
    /\ calls[c].status \in LiveStatuses
    /\ calls[c].known
    /\ calls[c].line \notin {"none", "live"}

\* A webhook or somebody's poll; syncActive's endpoint sweeps the same way.
Poll(c) ==
    /\ Settleable(c)
    /\ Sync(c)
    /\ UNCHANGED <<now, active, dnc, me, counters>>

-------------------------------------------------------------------------------
(* A pass: runCampaign. *)

InFlight == {c \in DOMAIN calls : calls[c].status \in LiveStatuses}

\* queuedAt ascending, up to the limit.
Oldest(set) == {c \in set : Cardinality({d \in set : d < c}) < SweepLimit}

\* Reads the campaign, then the calls in flight, which syncActive settles one by one.
StartPass(p) ==
    /\ At(p, "idle")
    /\ active
    /\ me' = [me EXCEPT ![p] = [Idle EXCEPT !.pc = "sweep",
                                 !.sweep = Oldest(InFlight)]]
    /\ UNCHANGED <<now, active, dnc, balance, member, calls, counters>>

SyncActive(p) ==
    /\ At(p, "sweep")
    /\ \E c \in me[p].sweep :
          /\ me' = [me EXCEPT ![p].sweep = @ \ {c}]
          /\ \/ Settleable(c) /\ Sync(c)
             \/ ~Settleable(c) /\ UNCHANGED <<balance, member, calls>>
    /\ UNCHANGED <<now, active, dnc, counters>>

\* releaseStaleClaims, first read: the leads that are claimed, with their attempts.
ReadClaims(p) ==
    /\ At(p, "sweep")
    /\ me[p].sweep = {}
    /\ LET claimed == {l \in Leads : member[l].state = "IN_PROGRESS"} IN
       me' = [me EXCEPT ![p].pc = IF claimed = {} THEN "claim" ELSE "live",
                        ![p].claims = {<<l, member[l].attempts>> : l \in claimed}]
    /\ UNCHANGED <<now, active, dnc, balance, member, calls, counters>>

\* Every claim taken for stale, whatever its lead is doing.
OnTheLineNever(l) == FALSE

\* The statuses releaseStaleClaims counts as a call still in flight.
OnTheLine(l) == \E c \in DOMAIN calls : calls[c].campaign /\ calls[c].lead = l /\ calls[c].status \in LiveStatuses

\* Second read: those with no call in flight are stale.
ReadLiveCalls(p) ==
    /\ At(p, "live")
    /\ me' = [me EXCEPT ![p].pc = "stale", ![p].claims = {x \in @ : ~OnTheLine(x[1])}]
    /\ UNCHANGED <<now, active, dnc, balance, member, calls, counters>>

\* Released whatever has become of it since it was read.
ReleasedWhatever(row, attempts) == Requeued(row, attempts)

\* The update is conditional on the row still being claimed.
Released(row, attempts) == IF row.state = "IN_PROGRESS" THEN Requeued(row, attempts) ELSE row

\* One conditional update per stale claim.
ReleaseStaleClaim(p) ==
    /\ At(p, "stale")
    /\ \E claim \in me[p].claims :
          /\ me' = [me EXCEPT ![p].claims = @ \ {claim}]
          /\ member' = [member EXCEPT ![claim[1]] = Released(@, claim[2])]
    /\ UNCHANGED <<now, active, dnc, balance, calls, counters>>

Due(l) ==
    /\ member[l].state \in {"PENDING", "QUEUED"}
    /\ member[l].nextAttemptAt = Null \/ member[l].nextAttemptAt <= now

\* nextAttemptAt ascending, with NULL last as the database sorts it.
Before(l, k) ==
    /\ member[l].nextAttemptAt # Null
    /\ member[k].nextAttemptAt = Null \/ member[l].nextAttemptAt < member[k].nextAttemptAt

\* claimDueLeads, first read: at most a batch of due leads, the earliest.
ReadDueLeads(p) ==
    /\ \/ At(p, "claim")
       \/ At(p, "stale") /\ me[p].claims = {}
    /\ LET due == {l \in Leads : Due(l)} IN
       \E taken \in SUBSET due :
          /\ Cardinality(taken) = IF Cardinality(due) < BatchSize THEN Cardinality(due) ELSE BatchSize
          /\ \A l \in due \ taken, k \in taken : ~Before(l, k)
          /\ me' = [me EXCEPT ![p] = IF taken = {} THEN Idle ELSE [@ EXCEPT !.pc = "take", !.batch = taken]]
    /\ UNCHANGED <<now, active, dnc, balance, member, calls, counters>>

\* The claim: one conditional update of the leads just read.
Claim(p) ==
    /\ At(p, "take")
    /\ LET won == {l \in me[p].batch : member[l].state \in {"PENDING", "QUEUED"}} IN
       /\ member' = [l \in Leads |-> IF l \in won THEN [member[l] EXCEPT !.state = "IN_PROGRESS"] ELSE member[l]]
       /\ me' = [me EXCEPT ![p] = IF won = {} THEN Idle ELSE [@ EXCEPT !.pc = "reread"]]
    /\ UNCHANGED <<now, active, dnc, balance, calls, counters>>

\* Reads the batch back: every one of those leads that is IN_PROGRESS now.
RereadClaimed(p) ==
    /\ At(p, "reread")
    /\ me' = [me EXCEPT ![p].pc = "next", ![p].batch = {l \in @ : member[l].state = "IN_PROGRESS"}]
    /\ UNCHANGED <<now, active, dnc, balance, member, calls, counters>>

EndPass(p) ==
    /\ At(p, "next")
    /\ me[p].batch = {}
    /\ me' = [me EXCEPT ![p] = Idle]
    /\ UNCHANGED <<now, active, dnc, balance, member, calls, counters>>

-------------------------------------------------------------------------------
(* placeCall *)

\* A limit that counts only the calls already completed.
CallsTodayCompleted(inCampaign) ==
    Cardinality({c \in DOMAIN calls : calls[c].startedAt # Null /\ calls[c].status = "COMPLETED"})

\* The calls the daily limit counts: started since midnight, of this campaign if it is a campaign call.
CallsToday(inCampaign) ==
    Cardinality({c \in DOMAIN calls : /\ inCampaign => calls[c].campaign
                                      /\ calls[c].startedAt # Null
                                      /\ calls[c].startedAt >= now - (now % DayLength)})

\* The campaign's status as it was when the pass began.
CampaignStatusUnread(inCampaign) == "ACTIVE"

\* A call outside a campaign is not governed by one's status.
CampaignStatus(inCampaign) == IF inCampaign /\ ~active THEN "PAUSED" ELSE "ACTIVE"

(* What the gate reads about a lead.  A call outside a campaign is judged by *)
(* the workspace's settings, which here are the campaign's, and has no       *)
(* attempts behind it.                                                       *)
GateInput(l, inCampaign) == [
    callingEnabled |-> TRUE,
    campaignStatus |-> CampaignStatus(inCampaign),
    phoneDiallable |-> TRUE, doNotCall |-> l \in dnc, dncEnabled |-> TRUE,
    leadStatus |-> "NEW", suppressed |-> FALSE, country |-> "IN", allowedCountries |-> {},
    minuteOfDay |-> now % DayLength, windowStart |-> WindowStart, windowEnd |-> WindowEnd,
    days |-> {}, dayOfWeek |-> (now \div DayLength) % 7,
    attempts |-> IF inCampaign THEN member[l].attempts ELSE 0, maxAttempts |-> MaxAttempts,
    lastAttemptAt |-> IF inCampaign THEN member[l].lastAttemptAt ELSE Null,
    retryDelay |-> RetryDelay, now |-> now,
    callsToday |-> CallsToday(inCampaign), dailyCallLimit |-> DailyLimit,
    creditBalance |-> balance, creditCost |-> 1]

\* The gate a worker passes or is turned back at.
Gate(w, l, inCampaign) ==
    LET reasons == GateReasons(GateInput(l, inCampaign)) IN
    me' = [me EXCEPT ![w].pc = IF reasons = {} THEN "charge" ELSE IF w \in Passes THEN "unclaim" ELSE "done",
                     ![w].lead = l, ![w].campaign = inCampaign, ![w].reasons = reasons,
                     ![w].batch = @ \ {l}]

DialNext(p) ==
    /\ At(p, "next")
    /\ \E l \in me[p].batch : Gate(p, l, TRUE)
    /\ UNCHANGED <<now, active, dnc, balance, member, calls, counters>>

\* Somebody clicks Call, on a campaign's lead or on the lead alone.
ClickCall(w) ==
    /\ w \in Callers
    /\ At(w, "idle")
    /\ \E l \in Leads, inCampaign \in BOOLEAN : Gate(w, l, inCampaign)
    /\ UNCHANGED <<now, active, dnc, balance, member, calls, counters>>

\* OPERATION_COST.AI_CALL
Price == 1

Affordable == balance >= Price

\* The charge, before anything is dialled; an empty wallet is the gate's reason found out late.
Charge(w) ==
    /\ At(w, "charge")
    /\ \/ /\ Affordable
          /\ balance' = balance - Price
          /\ Goto(w, "create")
       \/ /\ ~Affordable
          /\ me' = [me EXCEPT ![w].pc = IF w \in Passes THEN "unclaim" ELSE "done",
                              ![w].reasons = {"INSUFFICIENT_CREDITS"}]
          /\ UNCHANGED balance
    /\ UNCHANGED <<now, active, dnc, member, calls, counters>>

CreateCall(w) ==
    /\ At(w, "create")
    /\ calls' = Append(calls, [lead |-> me[w].lead, campaign |-> me[w].campaign, status |-> "QUEUED",
                               known |-> FALSE, startedAt |-> Null, credits |-> 1,
                               line |-> "none", dialledAt |-> Null, late |-> {}])
    /\ me' = [me EXCEPT ![w].pc = "dial", ![w].call = Len(calls) + 1]
    /\ UNCHANGED <<now, active, dnc, balance, member, counters>>

\* What the operator has by now said not to do; only the gate reads it.
Unwanted(l, inCampaign) == l \in dnc \/ (inCampaign /\ ~active)

\* telephony.placeCall: the phone rings, or the provider refuses.
Dial(w) ==
    /\ At(w, "dial")
    /\ \/ /\ calls' = [calls EXCEPT ![me[w].call].line = "live", ![me[w].call].dialledAt = now,
                                    ![me[w].call].late = IF Unwanted(me[w].lead, me[w].campaign) THEN {w} ELSE {}]
          /\ Goto(w, "started")
          /\ UNCHANGED refusals
       \/ /\ refusals < MaxRefusals
          /\ refusals' = refusals + 1
          /\ Goto(w, "refund")
          /\ UNCHANGED <<calls>>
    /\ UNCHANGED <<now, active, dnc, balance, member, crashes, hangUps, pauses>>

Refund(w) ==
    /\ At(w, "refund")
    /\ balance' = balance + calls[me[w].call].credits
    /\ Goto(w, "failed")
    /\ UNCHANGED <<now, active, dnc, member, calls, counters>>

MarkFailed(w) ==
    /\ At(w, "failed")
    /\ calls' = [calls EXCEPT ![me[w].call].status = "FAILED", ![me[w].call].credits = 0]
    /\ me' = [me EXCEPT ![w].pc = IF w \in Passes THEN "unclaim" ELSE "done", ![w].call = 0]
    /\ UNCHANGED <<now, active, dnc, balance, member, counters>>

\* The call's row learns the provider's id, whatever its status has become meanwhile.
MarkStarted(w) ==
    /\ At(w, "started")
    /\ calls' = [calls EXCEPT ![me[w].call].status = "DIALING", ![me[w].call].known = TRUE,
                              ![me[w].call].startedAt = now]
    /\ Goto(w, "record")
    /\ UNCHANGED <<now, active, dnc, balance, member, counters>>

Attempted(row) == [row EXCEPT !.attempts = @ + 1, !.lastAttemptAt = now, !.state = "IN_PROGRESS"]

\* recordAttempt, on a campaign's lead, whatever its state has become meanwhile.
RecordAttempt(w) ==
    /\ At(w, "record")
    /\ member' = IF me[w].campaign THEN [member EXCEPT ![me[w].lead] = Attempted(@)] ELSE member
    /\ me' = [me EXCEPT ![w].pc = NextLead(w), ![w].lead = NoLead, ![w].call = 0]
    /\ UNCHANGED <<now, active, dnc, balance, calls, counters>>

\* releaseClaim, and whether the pass goes on to its next lead.
ReleaseClaim(p) ==
    /\ At(p, "unclaim")
    /\ member' = [member EXCEPT ![me[p].lead].state =
          IF me[p].reasons \intersect PermanentReasons # {} THEN "SKIPPED"
          ELSE IF "MAX_ATTEMPTS_REACHED" \in me[p].reasons THEN "EXHAUSTED" ELSE "PENDING"]
    /\ LET stop == "INSUFFICIENT_CREDITS" \in me[p].reasons \/ me[p].reasons \intersect CampaignWideReasons # {} IN
       me' = [me EXCEPT ![p] = IF stop THEN Idle
                               ELSE [@ EXCEPT !.pc = "next", !.lead = NoLead, !.reasons = {}]]
    /\ UNCHANGED <<now, active, dnc, balance, calls, counters>>

-------------------------------------------------------------------------------
(* Everybody else. *)

LineEnds(c) ==
    /\ calls[c].line = "live"
    /\ \E outcome \in {"answered", "unanswered"} : calls' = [calls EXCEPT ![c].line = outcome]
    /\ UNCHANGED <<now, active, dnc, balance, member, me, counters>>

\* hangUp: the line goes dead if the provider's id is known; the row is cancelled either way.
HangUp(c) ==
    /\ hangUps < MaxHangUps
    /\ hangUps' = hangUps + 1
    /\ calls' = [calls EXCEPT ![c].status = "CANCELLED",
                              ![c].line = IF calls[c].known /\ @ = "live" THEN "hungup" ELSE @]
    /\ UNCHANGED <<now, active, dnc, balance, member, me, crashes, refusals, pauses>>

Pause ==
    /\ active
    /\ pauses < MaxPauses
    /\ active' = FALSE
    /\ pauses' = pauses + 1
    /\ UNCHANGED <<now, dnc, balance, member, calls, me, crashes, refusals, hangUps>>

Resume ==
    /\ ~active
    /\ active' = TRUE
    /\ UNCHANGED <<now, dnc, balance, member, calls, me, counters>>

FlagDoNotCall(l) ==
    /\ l \notin dnc
    /\ pauses < MaxPauses
    /\ pauses' = pauses + 1
    /\ dnc' = dnc \union {l}
    /\ UNCHANGED <<now, active, balance, member, calls, me, crashes, refusals, hangUps>>

\* The process dies: what the worker had in hand is gone, what it wrote stays.
Crash(w) ==
    /\ me[w].pc \notin {"idle", "done"}
    /\ crashes < MaxCrashes
    /\ crashes' = crashes + 1
    /\ me' = [me EXCEPT ![w] = [Idle EXCEPT !.pc = IF w \in Passes THEN "idle" ELSE "done"]]
    /\ UNCHANGED <<now, active, dnc, balance, member, calls, refusals, hangUps, pauses>>

Tick ==
    /\ now < MaxTime
    /\ now' = now + 1
    /\ UNCHANGED <<active, dnc, balance, member, calls, me, counters>>

PassStep(p) ==
    \/ StartPass(p) \/ SyncActive(p) \/ ReadClaims(p) \/ ReadLiveCalls(p) \/ ReleaseStaleClaim(p)
    \/ ReadDueLeads(p) \/ Claim(p) \/ RereadClaimed(p) \/ EndPass(p) \/ DialNext(p) \/ ReleaseClaim(p)

PlaceCallStep(w) ==
    \/ Charge(w) \/ CreateCall(w) \/ Dial(w) \/ Refund(w) \/ MarkFailed(w) \/ MarkStarted(w) \/ RecordAttempt(w)

Next ==
    \/ \E p \in Passes : PassStep(p)
    \/ \E w \in Workers : PlaceCallStep(w) \/ Crash(w)
    \/ \E w \in Callers : ClickCall(w)
    \/ \E c \in DOMAIN calls : Poll(c) \/ LineEnds(c) \/ HangUp(c)
    \/ \E l \in Leads : FlagDoNotCall(l)
    \/ Pause \/ Resume \/ Tick

Spec == Init /\ [][Next]_vars

(* The scheduler runs passes again and again and a running pass takes its    *)
(* next step; a phone that rings stops ringing.  Nobody has to poll, click,  *)
(* pause, resume or die, and the clock may stop.                             *)
FairSpec ==
    /\ Spec
    /\ \A p \in Passes : WF_vars(PassStep(p) \/ PlaceCallStep(p))
    /\ WF_vars(\E c \in DOMAIN calls : LineEnds(c))

-------------------------------------------------------------------------------
Times == Nat \union {Null}
MemberStates == {"PENDING", "IN_PROGRESS", "COMPLETED", "SKIPPED", "EXHAUSTED"}
CallRow == [lead : Leads, campaign : BOOLEAN, status : LiveStatuses \union TerminalStatuses,
            known : BOOLEAN, startedAt : Times, credits : {0, 1},
            line : {"none", "live", "answered", "unanswered", "hungup"}, dialledAt : Times, late : SUBSET Workers]
Steps == {"idle", "sweep", "live", "stale", "claim", "take", "reread", "next", "charge", "create", "dial",
          "refund", "failed", "started", "record", "unclaim", "done"}

WorkerRow == [pc : Steps, campaign : BOOLEAN, lead : Leads \union {NoLead}, call : Nat, sweep : SUBSET Nat,
              claims : SUBSET (Leads \X Nat), batch : SUBSET Leads, reasons : SUBSET BlockReasons]

\* The values each variable takes; the wallet in particular is never negative.
TypeOK ==
    /\ now \in Nat /\ active \in BOOLEAN /\ dnc \subseteq Leads /\ balance \in Nat
    /\ member \in [Leads -> [state : MemberStates, attempts : Nat, lastAttemptAt : Times, nextAttemptAt : Times]]
    /\ calls \in Seq(CallRow)
    /\ me \in [Workers -> WorkerRow]
    /\ \A w \in Workers : me[w].call \in 0 .. Len(calls) /\ me[w].sweep \subseteq DOMAIN calls
    /\ crashes \in Nat /\ refusals \in Nat /\ hangUps \in Nat /\ pauses \in Nat

Dialled(l) == {c \in DOMAIN calls : calls[c].lead = l /\ calls[c].campaign /\ calls[c].line # "none"}

(* The claim keeps a campaign from ringing the same person on two lines,     *)
(* save for a line somebody hung up before the provider's id was known,      *)
(* which the provider was never told to drop.                                *)
OneLiveLine ==
    \A l \in Leads : Cardinality({c \in Dialled(l) : calls[c].line = "live" /\ calls[c].status # "CANCELLED"}) <= 1

(* Two dials of the same lead are at least the retry delay apart, also when  *)
(* a crash or a hang-up kept the first from being recorded.                  *)
RetrySpacing ==
    \A l \in Leads : \A c, d \in Dialled(l) : c < d => calls[d].dialledAt - calls[c].dialledAt >= RetryDelay

(* A campaign dials no more than its daily limit between two midnights, save *)
(* for a call whose start a crash kept from being recorded and for one call  *)
(* each of the other workers that are past the gate at the same moment.      *)
DailyLimitHeld ==
    \A day \in 0 .. now \div DayLength :
       Cardinality({c \in DOMAIN calls : /\ calls[c].campaign
                                         /\ calls[c].dialledAt # Null
                                         /\ calls[c].dialledAt \div DayLength = day})
          <= DailyLimit + crashes + Cardinality(Workers) - 1

(* "Fails by placing calls nobody paid for, which is worse": every call that *)
(* is ringing or was answered has been paid for and never given back,        *)
(* wherever a worker dies.                                                   *)
NoFreeCalls ==
    balance + Cardinality({c \in DOMAIN calls : calls[c].line \in {"live", "answered"}}) <= Credits

(* Pausing the campaign stops it, and so does flagging the lead: after       *)
(* either, each worker dials at most the one call it had already let past    *)
(* the gate.                                                                 *)
StopsHeld == \A w \in Workers : Cardinality({c \in DOMAIN calls : w \in calls[c].late}) <= pauses

(* A lead that was reached is done: nothing takes it out of COMPLETED but    *)
(* the pass that dialled it, still recording the attempt.                    *)
CompletedIsKept ==
    [][\A l \in Leads :
          member[l].state = "COMPLETED" /\ member'[l].state # "COMPLETED"
              => \E w \in Workers : At(w, "record") /\ me[w].lead = l]_vars

\* A call that was created and never dialled, and that no worker has in hand any more.
Abandoned(c) == calls[c].status = "QUEUED" /\ ~calls[c].known /\ \A w \in Workers : me[w].call # c

(* A claim ends wherever a worker dies and whatever is hung up or refused,   *)
(* unless the death left the lead an abandoned call.                         *)
ClaimsEndUnlessAbandoned ==
    \A l \in Leads :
       member[l].state = "IN_PROGRESS"
          ~> member[l].state # "IN_PROGRESS" \/ \E c \in DOMAIN calls : calls[c].lead = l /\ Abandoned(c)
===============================================================================
