# Verification of the calling platform's API

TLA+ modules, TLC configurations and TLAPS proofs for the API of this repository
(`apps/api`): the parts that spend a workspace's credits, ring its leads, settle what each
call cost, keep to the do-not-call list, deliver webhooks, announce follow-ups, and decide
who is let in. Paths below are relative to `apps/api/src/` unless they begin with `apps/`
or `packages/`.

## 1. The system

A tenant ("workspace") keeps leads, groups them into campaigns and has AI agents call
them. The API is a NestJS process, or several of them, over one PostgreSQL database at
its default isolation level (read committed). Except where a service opens a transaction
and locks a row, **every `await` on the database is a step of its own**: between two of
them any other request, dialer pass, webhook or process may run, and the process can die.
Almost every property below is about what that leaves possible.

| Component | State | Operations | Interacts with |
|---|---|---|---|
| credits (`credits/`) | `credit_wallets`, `credit_transactions` and its partial unique index | ensureWallet (trial grant), spend, grant, refund, reconcile, low-balance warning | called by calls and the operator console; emits integration events |
| dialer (`calls/dialer.service.ts`, `calls/calling-rules.ts`) | `campaign_leads` (state, attempts, nextAttemptAt) | runCampaign: sync the calls in flight, release stale claims, claim a batch, place each call | calls, credits, campaigns, the telephony provider |
| calls (`calls/calls.service.ts`) | `calls`, recordings, transcripts | placeCall (gate, charge, row, dial, record), syncStatus and its post-call pipeline, settleLead, hangUp | credits, dialer, provider, notifications, events |
| campaigns (`campaigns/`) | `campaigns`, its leads | create, update, transition, add and remove leads, duplicate, remove | read by the gate |
| leads (`leads/`) | leads, import batches, do-not-call flags, suppressions | create, import with deduplication, update, erase | read by the gate; erasure redacts webhook deliveries |
| call settings | calling window, blocked numbers | update | read by the gate; shares the suppression list with leads |
| integrations (`integrations/`) | connections, webhooks, deliveries | emit, deliver, retry with backoff, OAuth | every emitter; the worker's tick |
| follow-ups, calendar | follow-up, its reminder and linked event | create, move, complete, remove, announce when due | the worker's tick |
| sessions (`auth/`) | refresh tokens, failed sign-ins, second factor | sign in, refresh, sign out, recover | every request; the browser's copy in `apps/web/lib/api-client.ts` |
| users, invitations | members, roles, invitations | invite, resend, accept, revoke, change role, disable | sessions |
| operator console (`admin/`) | tenant status, audit trail | suspend, reactivate, cancel, grant credits | credits, sessions, the tenant guard |
| tenant access (`auth/guards`, `tenant-access.service.ts`) | per-process cache of tenant status | look up, forget, evict | every request of a workspace |
| recordings | audio objects and rows | retention sweep | nothing calls it |
| notifications | notices | raise with a day's deduplication, read | calls, credits, worker |
| notes, agents, transcripts | one row each | single-request edits | web application |
| providers, mail, prisma, config, health, common, runtime, workspace, API keys | configuration, transport | single updates and I/O | all |
| `apps/ai-service`, `apps/web`, `packages/shared` | none the API depends on but the browser's tokens | – | – |

What makes it hard: two passes of the dialer, a webhook, a poll and a sweep may all act
on one call; a call is charged before it is placed and refunded by whoever notices that
it did not connect; a claim on a lead, a reminder or a delivery has to survive the death
of its claimer and still end; a request judges by what it read some statements ago;
several processes each remember something of their own. `PROJECT.json` lists the
components and what each lacks, and every hazard at its line.

What each component must get right: **credits** - the balance is the ledger, is never
negative, and a reference is credited once; **dialer** - a lead is on one line at a time,
called no more often and no sooner than its campaign allows, within the daily limit, and
a claim ends; **calls** - what a finished call brings about happens once, and money goes
back exactly when nobody talked; **campaigns** - nothing is dialled that nobody activated,
the window stays one that can fire, archived is final; **leads and the list** - an
opt-out blocks every spelling of its number and outlives its lead; **webhooks** - at least
once, at most six attempts, none after success, nothing of an erased lead; **follow-ups** -
each schedule is announced once and none is missed; **sessions** - no live token that
nobody holds, changed terms take effect, nobody is signed out for nothing; **members** - a
workspace keeps an owner, a revoked invitation opens nothing; **tenant status** - a closed
workspace is shut out in time, and reopened as it was.

## 2. Modules

| Module | Models | Instance / proofs |
|---|---|---|
| `CreditAccount` | abstract: what the ledger promises its callers | refined by `CreditLedger` |
| `CreditLedger` | `credits/credit-ledger.ts`, `credits.service.ts`, `AdminService.grantCredits` | `MCCreditLedger` / `CreditLedgerProofs` |
| `CallingRules` | `calling-rules.ts`: the gates, as pure operators | with `Dialer` |
| `Dialer` | `dialer.service.ts`, `placeCall`, `gate`, `recordAttempt`, and the effect of a sync | `MCDialer` / `DialerProofs` |
| `CallSync` | `syncStatus`, the post-call pipeline, `settleLead`, notices, `hangUp` | `MCCallSync` / `CallSyncProofs` |
| `CampaignLifecycle` | `create`, `transition`, `update`, `addLeads`, `removeLead`, `remove`, and the dialer's gate | `MCCampaignLifecycle` / `ManagementProofs` |
| `PhoneNumbers` | `normalisePhone` and the matching of numbers, as pure operators | with `DoNotCall` |
| `DoNotCall` | `leads.service.ts` (create, update, remove, import), `leads.dedupe.ts`, the blocked numbers of `call-settings.service.ts` | `MCDoNotCall` / `DoNotCallProofs` |
| `WebhookDelivery` | `webhook-delivery.service.ts`, the worker's retries, test, redelivery, pause and removal, the redaction in `LeadsService.remove` | `MCWebhookDelivery` / `WebhookDeliveryProofs` |
| `LocalDays` | `followup-rules.ts`: local days in a zone that changes its clocks, as pure operators | with `FollowUps` |
| `FollowUps` | `followups.service.ts`, the linked event, the worker's announcement | `MCFollowUps` / `FollowUpsProofs` |
| `Sessions` | `auth.service.ts`, `two-factor.service.ts`, the tokens in `apps/web/lib/api-client.ts`, what revokes sessions elsewhere | `MCSessions` / `SessionsProofs` |
| `Membership` | `users.service.ts`, `invitations.service.ts`, `invitation-accept.service.ts` | `MCMembership` / `ManagementProofs` |
| `TenantStatus` | `suspend`, `reactivate`, `cancel` of `admin.service.ts`, `tenant-access.service.ts`, `tenant.guard.ts` | `MCTenantStatus` / `ManagementProofs` |

A module has one process per request, pass, syncer or worker. The process's local
variables and program counter are a record or functions (`me[r]`, `pc[r]`); each database
statement that others can come between is one action, named after what the code does
there. `Membership`, `CampaignLifecycle` and `TenantStatus`, the services that judge what they
read and write in a later statement, have one proof module, which extends all three; the
latter two therefore name their specifications `CampaignSpec` and `TenantSpec`, and so on.
Statements under a row lock are steps too, but take effect at the commit; a
transaction that reads nothing others may change meanwhile is one action. `Crash` forgets
the local state and rolls back the open transaction. An operator that stands before the
one it resembles and names a mistake (`AffordsAnything`, `ClaimedAnyway`, `ForgetNothing`,
…) is never used by the specification: it is the plausible bug that shows the property
named with it in `PROJECT.json` can fail. Variables that no column or local variable
stands for are history variables, marked so where they are declared; the most common is
`overlapped`: two requests have been under way at once. Where a property holds only of
requests in turn it says so, and the race that breaks it otherwise is named in section 3.

**CreditLedger.** `Begin` … `WarnIfBalanceLow` follow a request through `ensureWallet`
(find, look for a trial grant, create with its ledger row), `withLockedWallet` (the second
find, the `FOR UPDATE`) and `spend` / `appendCredit`. The unique index on granted
references is `KeyTaken`, checked at the insert. An operator grant computes `since` when it
begins and adds up the last day's grants after it has the lock. `SumLedger` is reconcile's
second query. `DeleteWallet` is the hand-made deletion that `ensureWallet`'s comment
provides for. Amounts are naturals; the ledger is the sequence of rows in commit order.

**Dialer, CallingRules.** A pass goes through `StartPass`, `SyncActive`, `ReadClaims`,
`ReadLiveCalls`, `ReleaseStaleClaim`, `ReadDueLeads`, `Claim`, `RereadClaimed`, then per
lead `DialNext` (the gate), `Charge`, `CreateCall`, `Dial`, `MarkStarted`, `RecordAttempt`,
or `Refund` and `MarkFailed`, or `ReleaseClaim`. A person clicking Call runs `ClickCall`
and the same `placeCall` steps. `line` in a call's row is what the telephone really does,
which the code learns only through a sync. Two handlers are one step each: the gate's
reads, since only what happens after it matters to the properties, and `syncStatus`, whose
own races are `CallSync`'s subject. The account is a balance with a conditional debit, the
abstract account that `CreditLedger` implements.

**CallSync.** One call that was charged and is being dialled. `ReadCall` and `AskProvider`
remember the row's `creditsUsed` and the provider's answer; `WriteStatus` is the
unconditional update; after it come `Refund` and `ZeroCredits`, or the pipeline
(`LookForRecording` … `CreateSegments`), then `SettleLead`, `LookForNotice`,
`CreateNotice`, `EmitCompleted`. A create that meets the unique call id throws out of the
sync, as in the code. The provider is an actor: `LineMoves`, `RecordingReady`. `member` has
one state for "in the queue again" and "exhausted", which are equally settled.

**CampaignLifecycle.** One campaign. Each request reads and judges in `BeginX`, and writes
in a later step (`CountLeads` and `WriteStatus`, `WriteUpdate`, `ReadEligible` and
`AddLeads`, `DeleteCampaign`). The dialer is reduced to its gate and the row it then
creates (`PassGate`, `CreateCall`). A PATCH carries, for each field, a value or `Keep`.

**PhoneNumbers, DoNotCall.** A number is a sequence of digits, with shorter lengths than
real ones; `Normalised` follows `normalisePhone` branch by branch and `Stops` the two-way
comparison. Rows of the list have a source, as in `suppressions`; a lead has a state, a
number and a flag. `BeginX` is what a request reads before its transaction, the later
steps are the transaction (`ReadRows` and `Update`, `LookUp` and `Erase`, `Save`); an
import's decisions on its file (`MarkedIn`, `Inserted`) are pure operators. A lead may
start flagged and unlisted: the flag is older than the list (`schema.prisma`).

**WebhookDelivery.** A delivery row has a request of its own that enqueues it and makes the
first attempt; a worker takes the list of what is due and attempts each in turn. `Attempt`,
`Send`, `Record`, `Park` are the statements of `attempt`; `InFlight` is the per-process
set, and `Crash(i)` empties it with everything else of the instance. `FindDeliveries` and
`EraseLead` are the two statements of the redaction. Backoff is a time "later" that
`ComeDue` makes "now".

**LocalDays, FollowUps.** Instants are hours of UTC; a zone has one change of its clocks.
`StartOfLocalDay` makes the code's two guesses. A follow-up is edited by requests of one
statement each, and `BeginPass`, `Claim`, `Emit` are a worker's announcement, with the
lookback. The clock advances only after a worker made a pass at the moment it shows: the
worker's interval is 30 seconds, the model's step is hours.

**Sessions.** A tab has a refresh token and a flag that a refresh is under way (the shared
promise of the client); a page's requests sign in (`ReadAccount`, `CheckCode`,
`ClaimCode`), refresh (`BeginRefresh`, `ReadToken`, `RevokeToken`, `IssueTokens`,
`StoreTokens`), end their session (`EndSession`), and log out (`BeginLogout`,
`RevokeOnLogout`, `ClearTab`). `ChangeTerms` is whatever revokes a member's tokens:
disabling, demotion, a new password, ending all sessions. `Lose` drops an answer.

**Membership.** `BeginUpdate`, `CountOwners`, `ApplyUpdate` are `UsersService.update`;
`BeginInvite` … `Accept` the life of one invitation, whose links are numbered.

**TenantStatus.** `BeginChange`, `ReadAudit`, `Commit`, `Forget` are an operator's change:
the read with its refusals, for a reopening the read of the audit trail, the transaction,
and the deletion of the operator's own instance's cache entry. `JudgeByCache`, `LookUp`,
`StoreAndJudge` are `TenantGuard` on one request; `Evict` is the cache at its limit.

## 3. Runs

All runs are breadth-first. Deadlock is not checked: a bounded number of requests does
come to rest.

| Run | Instance | Shows |
|---|---|---|
| `ledger_account` | 2 requests, 9 jobs, trial 3, cap 3, window 1 of 2 ticks, 1 deletion, `LiveSpec` | refinement of `CreditAccount`, one grant per reference, the row chain, the operator cap in every window, one announcement per crossing, requests end |
| `dialer_lead` | 1 lead, 1 pass again and again, 4 ticks of a 3-tick day, 1 crash, 1 refusal, 1 hang-up, `FairSpec` | one line, spacing, reached stays reached, claims end |
| `dialer_workers` | 2 leads in one batch, 1 pass and 1 person, 2 one-tick days, 2 credits, 1 stop | no unpaid call, the stop holds, the daily limit is overshot by at most one |
| `dialer_doubled` | 1 lead, 2 passes; **violated** | two passes ring one lead twice |
| `call_settle` | 2 syncers, 1 crash, 1 hang-up, `FairSpec` | settled once in turn, no refund after talk, cost follows ledger, every end agrees, calls settle |
| `campaign_requests` | 2 managers, 2 leads, 7 PATCHes, 1 call | the window, no call from a draft, archived is final |
| `leads_do_not_call` | 2 leads, 2 people in 5 spellings, 3 files, 4 requests in turn or 3 that race | opt-outs stand, what is held back stays so until somebody takes it back, a lead switched back is callable |
| `webhook_retries` | 2 deliveries, 1 worker, 1 instance, 2 attempts, 1 crash, 1 switch, `FairSpec` | sends are counted, delivered is not sent again, erased is not sent, deliveries settle |
| `followup_alerts` | 2 workers, 3 times of day over 64 hours, lookback 24, 5 edits, 1 crash, 5 zones | at most one announcement per schedule, none missed, labels follow the calendar |
| `session_rotation` | 2 tabs, 3 requests, 4 tokens, 2 codes, 2 changes, 1 lost answer | live tokens are held, terms take effect, nobody is wronged, codes win once |
| `membership_team` | 2 owners, 1 invitee, 2 requests at once of 4, 3 links | an owner remains in turn, revoked stays closed, accepted as invited |
| `workspace_status` | 2 instances with an operator and a request each, lifetime 2 of 3 ticks, 3 changes, 2 read back | shut out in time, reopened as it was |

Why the bounds are enough. Two ledger requests are the fewest in which one holds the lock
while the other has read what it is changing; the trial of 3 lets two charges exhaust it,
and one tick of `Window` within two ticks of clock has grants inside, on the edge of and
outside the window. One lead over four ticks reaches both attempts, the retry delay, the
end of the window and a second day; one crash falls on every step. Two leads and two
workers are what it takes to overshoot a limit of one. In `call_settle` two syncers
already repeat everything twice. Two managers are enough for a read of one to be outdated
by the other; so are two requests in `membership_team` and `leads_do_not_call`, where the
third and fourth are for sequences (invite, revoke, invite, accept; list, move, erase,
import). The numbers there are of three and four digits, with a trunk zero, a country code,
and a foreign number typed with and without its code: every branch of the normalisation.
Two attempts have a first, a last and a retry; the second delivery is the redelivery of
the first. 64 hours are three local days in every zone, more than the lookback, with the
change of the clocks inside. Four tokens are two sign-ins and two rotations, or one
session rotated three times. Two read back of three changes leave one out of reach, and a
lifetime of 2 in 3 ticks has entries that expire and that outlive the change; symmetry
there swaps the two halves of the instance. Symmetry is used only without liveness.

Fairness. `CreditLedger!LiveSpec` lets the database answer: a request that began takes its
next statement. It does not make anyone begin. `Dialer!FairSpec` adds weak fairness of
each pass's steps and of a phone that rings to stop ringing: `POST dialer/run` is
"intended for a scheduler" (`calls.controller.ts:214`), which lives outside the
repository, and a pass that was begun runs on. `CallSync!FairSpec` lets each syncer begin
again and go on (`POST sync-active` is "intended for a scheduler and as the safety net for
provider webhooks that never arrive", `:223-226`) and the provider end its calls. An
installation without such a scheduler has neither `ClaimsEndUnlessAbandoned` nor
`CallSettles`. `WebhookDelivery!FairSpec` is weak fairness of a request's and a worker's
next step, the worker's passes included (it runs on an interval inside the API), and of
a retry's time to come. Crashes, hang-ups, pauses, edits, clicks and the clock are never
fair.

### Where the code and its comments disagree

`dialer_doubled` is the one kept as a run: a batch is claimed at once and its call rows are
created one by one; to a second pass the claims without a row are stale, and it takes them
("The claim is what stops two dialer passes …
from dialling the same lead twice", `calls/dialer.service.ts:168-169`). The others are reachable in the models, excluded from a
property by a named condition, and described here.

*Credits, dialer, calls*
* `reconcile` reads wallet and sums in two queries, so a charge between them is reported as
  a mismatch "that should be investigated".
* A worker that dies between `call.create` and the update that stores the provider's id
  leaves a `QUEUED` row. `releaseStaleClaims` counts it as in flight and `syncStatus` skips
  it: the lead stays claimed. `ClaimsEndUnlessAbandoned` shows this is the only way.
* The idempotence check of `syncStatus` and its update are not atomic: two syncers both
  refund or both settle. Syncers in turn are idempotent for any number (a theorem), and
  `EndAgrees` shows that the final rows agree even when two race.
* A ringing call hung up is never refunded: `CANCELLED` is terminal, so the refund in
  `syncStatus` is not reached.
* An older answer of the provider is written over a terminal status (`calls.service.ts:204`;
  `CallSettles` shows it is settled again). A recording ready only after the sync that saw
  the call completed is never fetched (`:278`). `syncActive` looks at the 50 oldest calls in
  flight (`:651`), of which some may never settle. The daily limit counts from midnight of
  the server's zone (`:489`), the window from the campaign's.

*Campaigns and call settings*
* Two PATCHes that are each in order store a window that is not; two saves of the
  workspace's own calling window can do the same (`call-settings.service.ts:52`).
* A transition overwrites an archive (`campaigns.service.ts:393`). A call created between the
  count and the deletion of its campaign loses its `campaignId` (`:578`). Leads taken away
  between the activation's check and its update (`:385`), or an agent or script taken off a
  campaign that is already active (`:335`), leave it active without them.

*Leads and do-not-call*
* The do-not-call mark of a nameless import row is not read (`leads.dedupe.ts:191-194`),
  contrary to `:144-148`.
* A foreign number whose national part is ten digits beginning with 6–9, typed without its
  code, becomes an Indian mobile and is matched by equality only, contrary to "both ways
  round" (`:80-91`). The named assumption `DoNotCallAssumption` excludes it. A 12-digit
  `+91` landline is refused although `022 …` is kept.
* A lead flagged before the list existed whose number changes leaves the old number
  unlisted. Nothing writes the rows the schema calls `OUTCOME`.
* The look-up in `remove` and a racing Settings save can together leave no row behind; two
  concurrent Settings saves merge. `remove` deletes recording rows without the audio.

*Webhooks*
* With two API instances the claim is not shared: a `SUCCEEDED` row is overwritten with
  `FAILED` and sent again ("never double-send", `webhook-delivery.service.ts:52`). The
  properties that need it say `OneInstance`.
* The erasure finds deliveries and then updates them: one delivered in between becomes
  `EXHAUSTED`, an attempt in flight revives an erased one to `FAILED` (without the data), and
  a request older than the erasure enqueues the lead's data after it (`straggled`).
* An update that throws ends the worker's pass, announcements included; the worker's list
  ignores a backoff set since it was read.

*Follow-ups*
* Moving `dueAt` alone leaves a reminder in the past; a PATCH may set a reminder after the
  due time. A worker that read the row before a reschedule takes the new schedule's claim
  (`stolen`). One completed after it was read is announced all the same. A crash between
  claim and emit loses the alert. Moving the follow-up does not move its event, and only the
  seed sets the link.
* `StartOfLocalDay` is wrong where clocks change at midnight, contrary to the comment at
  `followup-rules.ts:79-81`; the theorem's condition is `ChangesByDay`.

*Sessions, members, tenant status*
* A refresh under way survives demotion, sign-out everywhere and logout (`straddlers`, and an
  answer after logout signs the tab in again); refresh does not look at the workspace's
  status. Duplicated tabs share a token. A reset link used twice at once works twice.
* Status `INVITED` bypasses the check for the last owner (`users.service.ts:102`, against
  "The last active OWNER cannot be demoted or disabled", `:72`; `setAside` excludes it), and
  two concurrent updates leave none. Accepting races a re-invitation and a resend: the older
  role or the older link counts. A resend after a racing upgrade hands out a link above the
  resender's rank.
* A look-up under way when the operator's instance forgets its entry stores the old status
  for another 30 seconds, against "applies at once" (`tenant-access.service.ts:14`); what
  `ShutOutInTime` holds at once is a change nobody was reading. A suspension racing a
  cancellation opens a cancelled workspace for reading; one racing a reactivation records
  an outdated `from`, and a workspace past its trial becomes one again. More than 50
  closings in a row lose the trial.

## 4. Proofs

TLAPS proves the theorems listed in `PROJECT.json` for every value of the constants under
the modules' named assumptions. These are the types and distinctness of the constants,
plus: workers of `FollowUps`, and passes and callers of `Dialer`, are finitely many;
`Step <= Lookback`; two spellings of a
number match (`DoNotCallAssumption`); `TabOf` and `Home` are functions. Every module below
has its type invariant proved (`TypesHold`, `Typed`, `TypesKept`, …).

* **CreditLedger** - the inductive invariant is `LockInv`: types, what `Begin` validated,
  `LockedReadIsCurrent`, and that without a wallet there is no ledger. A debit is computed
  from a balance read earlier; only because the lock holder's read is current does the
  subtraction stay natural and each row start where the last one ended. `StepOnLedger`
  reduces every step to "keeps the ledger" or "appends one row from the current balance".
  `LedgerImplementsAccount` needs `TrialInv` besides: whoever is about to make the wallet
  without a trial has one behind it, since a trial row stays and the index covers it.
  `CrossingsAreAnnouncedOnce` follows from `Falls` (between two credits the balance only
  falls, so it crosses a threshold once) and `Announces` (a charge is announced by its own
  request, once). `OperatorCapIsHeld` needs `CapInv`: what a request added up under the lock
  still stands when it decides (`AddedUpStands`), its `since` is no later than `Window`
  before now, so every span its own row falls into lies within what it added up. A step of
  the clock opens a span that holds no row yet. `BalanceIsTheSum` says that the wallet, never
  deleted by hand, holds the ledger's credits less its debits, a statement about all rows
  that `LedgerChain` makes row by row. Both rest on `FoldAddsUp` and `SumFacts`: the fold
  over a set of rows takes one by `CHOOSE` after the other, and the lemmas show that the
  order makes no difference, by contradiction from a smallest set for which it would
  (`Smallest`, from the well-foundedness of `\subset` on finite sets: no theorem with an
  operator parameter is needed). They assume that only the console's grants name the
  reference type `operator` (`LedgerAssumption`): in the code it is a constant of
  `AdminService`, charges and refunds name a lead or a call.
* **Dialer** - every invariant builds on `CallsInv`: the types, what a call's row says of its
  line (`SoundCall`), what a worker's step says of the call in its hand (`SoundHand`), and
  that no call is in two hands. The provider's answers and the statements of other workers
  come between any two steps, so a lemma per action (`…Does`) first says what it changes and
  `CallKept`, `HandKept`, `OwnKept` carry the rest.
  `NoCallIsFree` counts: the balance, the workers that have paid for a call not yet placed
  (`Paying`) and the calls that were paid for and dialled (`PaidFor`) never exceed the
  credits there were; a step moves one from one term to another. The property alone is not
  inductive: between the charge and the dial the credit is nowhere in the state but in the
  worker's step. `StopsAreHeld` needs, for each worker, that the one call it has past the gate
  is counted before it is late (`Heeds`). `DailyLimitIsHeld` bounds the day's dialled calls
  together with the workers `AboutToDial` one; those the gate's count misses are in a
  worker's hand or were lost to a crash (`Lost`), and a call dialled today is not counted on
  an earlier day (the lemmas on division).
  `AloneRingsOnce`, `AloneKeepsCompleted` and `AloneRetriesLate` assume `Alone`: one pass, and
  nobody clicks Call. The run `dialer_doubled` violates the first without it; `dialer_lead`
  is an instance with it. Crashes, sweeps, polls and hang-ups remain. `ClaimInv` says what
  the pass may rely on: an open call's lead is claimed, no
  lead has two open calls, what it is about to release or dial is on no line.
  `RestInv` says who remembers, after a call was dialled, that the lead must rest: the row
  (the time it was marked with, or the time it may be tried next), the state that keeps it
  from being due, or the pass that still has the call in hand.
* **CallSync** - `TalkIsPaidFor` from `RefundInv` (an answer that says the call is over
  agrees with the line for good; whoever is at the refund was told so); `CallAgreesWithLedger`
  from `CostInv` (between a refund and the next statement there is a syncer at `zero`, unless
  it died); `SyncersInTurnSettleOnce` from `TurnInv` (at most one syncer is busy, and
  whatever is ahead of it has not been done); `TheEndAgrees` from `EndInv`, whose part
  `Carried` says that a syncer which gives up because another has kept the recording or the
  transcript leaves that one behind to finish.
* **CampaignLifecycle** - `DraftIsNeverDialled` from `ActivatedInv` (also while the dialer is
  past the gate); `WindowHolds`, `ArchiveIsFinal` and `ActivationIsChecked` from `CampaignTurnInv`:
  while requests do not overlap, what a request was judged on is still so when it writes.
* **DoNotCall** - `ImportedOptOutsStand` from `OptOutInv`: rows of source `IMPORT` are never
  removed, so the row that the import left blocks every spelling. `SwitchedBackIsFree` and
  `HeldUntilSomebodyFrees` from `TurnInv`, which says that in turn a request's reads are
  current and that no two live leads have one number; lemmas on `Inserted` and `MarkedIn`
  say what an import keeps.
* **WebhookDelivery** - `ErasedStaysIn` from `LeadInv` (after the erasure neither a row nor
  anyone who began since has the lead's data); `AcceptedIsFinal` from `FlightInv` (in one
  instance no two actors attempt a delivery, and none attempts one recorded as accepted);
  `RowsCountSends` from `CountInv`.
* **FollowUps** - `QueueFollowsCalendar` is about the arithmetic alone: `StartParts` computes
  both guesses on either side of the change. `NoAlertTwice` from `OnceInv`, with the lemma
  `Counting` on the cardinality of the workers about to announce. `NothingIsMissed` from
  `MissInv`: whoever claimed the schedule that stands is about to announce it or has, and one
  nobody claimed is still in reach at the next moment (`Step <= Lookback`).
* **Sessions** - `LiveTokensAreHeld` and `NoRefreshWronged` from `PagesInv`, whose parts say
  that tokens are numbered, one request of a tab refreshes at a time, what it presents is
  what the tab holds, and two tabs never hold the same. `ChangedTermsTakeEffect` from
  `TermsInv`; `CodesWinOnce` is inductive together with the types.
* **Membership** - `RevokedMakesNoAccount` from `ClosedInv`, since `Accept` tests the
  invitation again in its update; `LastInvitationCounts` from `TurnInv`; `AnOwnerRemains`
  from `OwnerInv`: whoever is about to take an owner away has counted another.
* **TenantStatus** - `ShutOutHolds` from `WindowInv`: a kind of request that the status does
  not let in has been shut out since some moment (`ShutSince`); what an instance remembers, or
  a look-up under way has read, from before that moment is not trusted beyond the window
  (`TrustRunsOut`); and where the change has taken effect at once nothing remembered or
  under way lets anybody in (`ForgottenAtOnce`). `ReopeningRestores` from `TrailInv`: the
  changes form a chain (`Chained`), an operator in turn has seen what still is (`StillSo`), and
  there is a last time the workspace was open (`HasBeenOpen`, which gives `Max` its value
  without an induction over numbers). `ReadsBack` then computes what `statusBeforeClosing` finds in
  a chain: the status before the closing, if that is among the rows it reads.

Every safety invariant and action property that a passing run checks is stated by a theorem. Only
model-checked is liveness (`RequestsEnd`, `ClaimsEndUnlessAbandoned`, `CallSettles`,
`DeliverySettles`): it rests on fairness and ENABLED, which the prover does not handle.

## 5. Not modelled, and why

* **OAuth connections and vendors' adapters** - one row written by one request; HTTP in each
  vendor's format; the catalogue is data.
* **Retention of recordings** - the store is bound to null and nothing calls the sweep.
* **Sign-in through Clerk** - one transaction that takes over or makes an account; the other
  guards decide on one request over rows whose life is in `Membership` and `Sessions`.
* **Notifications, agents, notes, transcripts, workspace settings, API keys** - rows written
  by single updates; what calls and credits raise is in their modules.
* **Providers** - outside but for the sandbox; the telephony provider is an actor of `Dialer`
  and `CallSync` that allows every order the sandbox can produce.
* **Infrastructure** - framework wiring, the tenant-scoped client, mail, configuration.
* **Data** - the text of notices, transcripts, hashes and signatures, several campaigns at
  once (duplicate, unique names), lists and statistics that only read.
* **`apps/ai-service`** is a health endpoint. **`apps/web`** renders what the API returns; what
  it does with tokens is in `Sessions`. **`packages/shared`** is types and tables.

The models cover a small share of the repository's lines: three fifths of them are user
interface, and most of the rest data-transfer classes, vendor formats, catalogues, and
reads that list or count. None of those has a state the properties could be about.

## 6. Plan

Modelled, in order: money, dialling, settling, campaigns, webhooks, follow-ups, sessions,
members, do-not-call, tenant status. What could follow:

1. The dialer's gate over `DoNotCall` and `TenantStatus`: what a pass under way still does
   after an opt-out or a suspension.
2. Failed sign-ins and the pause they bring, and setting up and removing the second factor,
   in `Sessions`; two instances in `WebhookDelivery` with the properties that survive it.
