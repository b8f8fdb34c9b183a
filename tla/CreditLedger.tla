----------------------------- MODULE CreditLedger -----------------------------
(***************************************************************************)
(* One workspace's wallet and its ledger, as the API's requests use them:  *)
(* CreditLedger (credit-ledger.ts), CreditsService (credits.service.ts)    *)
(* and the operator's grant (admin.service.ts).                            *)
(*                                                                         *)
(* A request is a process.  Each of its database statements that other     *)
(* requests can be interleaved with is a step; what runs inside one        *)
(* transaction under the wallet's row lock (SELECT ... FOR UPDATE) reads   *)
(* and decides in steps of its own and takes effect at the commit.  A      *)
(* request can die at any step: its transaction rolls back and its lock is *)
(* released.                                                               *)
(***************************************************************************)
EXTENDS Integers, Sequences, FiniteSetsExt

CONSTANTS
    Requests,       \* the requests of one behaviour; each runs once
    NoRequest,      \* nobody holds the wallet's row lock
    Jobs,           \* what a request may ask for
    Ids,            \* reference ids a caller may give
    NoId,           \* the caller gave none: NULL, which no unique index constrains
    TenantId,       \* the workspace's own id, what its trial grant refers to
    TrialCredits,   \* TRIAL_CREDITS
    Cap,            \* OPERATOR_DAILY_CREDIT_CAP
    Window,         \* 24 hours, in ticks
    Threshold,      \* the wallet's low-balance line
    MaxTime,        \* bound: ticks of the clock
    MaxDeletions    \* bound: times somebody deletes the wallet by hand

Kinds == {"spend", "grant", "operator", "reconcile"}
Operations == {"AI_CALL", "TRANSCRIPTION", "REFUND", "PURCHASE", "PLAN_GRANT", "MANUAL_ADJUSTMENT"}
ReferenceTypes == {"lead", "operator", "trial", "none"}

Job == [kind : Kinds, operation : Operations, amount : Int,
        refType : ReferenceTypes \ {"trial"}, refId : Ids \union {NoId}]

Row == [type : {"CREDIT", "DEBIT"}, operation : Operations, amount : Nat, before : Nat, after : Nat,
        refType : ReferenceTypes, refId : Ids \union {NoId, TenantId}, at : Nat]

\* An integration event, and the ledger row of the charge it is about.
Announcement == {"low", "exhausted"} \X Nat

ASSUME LedgerAssumption ==
    /\ NoRequest \notin Requests
    /\ Jobs \subseteq Job
    /\ \A j \in Jobs : j.refType = "operator" => j.kind = "operator"    \* only the console names it
    /\ NoId \notin Ids \union {TenantId}
    /\ TrialCredits \in Nat
    /\ Cap \in Nat
    /\ Window \in Nat
    /\ Threshold \in Nat
    /\ MaxTime \in Nat
    /\ MaxDeletions \in Nat

VARIABLES
    walletExists,   \* credit_wallets has the tenant's row
    balance,        \* its balance; 0 while there is no row
    lock,           \* the request whose transaction holds the row, or NoRequest
    ledger,         \* credit_transactions, in commit order
    announced,      \* credits.low_balance events, as <<kind, row they are about>>
    now,            \* the clock
    deletions,      \* how often the wallet was deleted by hand
    pc,             \* pc[r]: the step request r is at
    job,            \* job[r]: what r asks for
    started,        \* started[r]: when r began (the operator cap's `since` is Window earlier)
    seen,           \* seen[r]: the balance r read last
    trialDue,       \* trialDue[r]: r found no trial grant in the ledger
    already,        \* already[r]: the operator grants r added up
    charge,         \* charge[r]: the ledger row r's spend wrote
    drift           \* drift[r]: what r's reconcile reported

wallet == <<walletExists, balance, lock, ledger>>
local  == <<job, started, seen, trialDue, already, charge, drift>>
vars   == <<wallet, announced, now, deletions, pc, local>>

-------------------------------------------------------------------------------
(* The ledger table and its partial unique index. *)

GrantOperations == {"PURCHASE", "PLAN_GRANT", "MANUAL_ADJUSTMENT"}

NewRow(type, operation, amount, before, refType, refId) ==
    [type |-> type, operation |-> operation, amount |-> amount, before |-> before,
     after |-> IF type = "CREDIT" THEN before + amount ELSE before - amount,
     refType |-> refType, refId |-> refId, at |-> now]

(* credit_transactions_grant_reference_key: rows it covers, and whether a new *)
(* row would collide with one.                                                *)
Indexed(type, operation, refType, refId) ==
    type = "CREDIT" /\ operation \in GrantOperations /\ refType # "none" /\ refId # NoId

\* The index before it existed, when a reference could be granted any number of times.
KeyTakenWithoutIndex(operation, refType, refId) == FALSE

KeyTaken(operation, refType, refId) ==
    /\ Indexed("CREDIT", operation, refType, refId)
    /\ \E i \in DOMAIN ledger :
          /\ Indexed(ledger[i].type, ledger[i].operation, ledger[i].refType, ledger[i].refId)
          /\ ledger[i].refType = refType
          /\ ledger[i].refId = refId

SumOver(rows) == MapThenSumSet(LAMBDA i : ledger[i].amount, rows)

OperatorRows == {i \in DOMAIN ledger : ledger[i].type = "CREDIT" /\ ledger[i].refType = "operator"}

LedgerBalance ==
    SumOver({i \in DOMAIN ledger : ledger[i].type = "CREDIT"})
      - SumOver({i \in DOMAIN ledger : ledger[i].type = "DEBIT"})

-------------------------------------------------------------------------------
Init ==
    /\ walletExists = FALSE
    /\ balance = 0
    /\ lock = NoRequest
    /\ ledger = <<>>
    /\ announced = <<>>
    /\ now = 0
    /\ deletions = 0
    /\ pc = [r \in Requests |-> "idle"]
    /\ job \in [Requests -> Jobs]
    /\ started = [r \in Requests |-> 0]
    /\ seen = [r \in Requests |-> 0]
    /\ trialDue = [r \in Requests |-> FALSE]
    /\ already = [r \in Requests |-> 0]
    /\ charge = [r \in Requests |-> 0]
    /\ drift = [r \in Requests |-> 0]

Goto(r, step) == pc' = [pc EXCEPT ![r] = step]

(* What is refused before any database work: spend's and grant's amount      *)
(* checks, and an operator grant that alone exceeds the cap.  (An operator   *)
(* grant's sign is checked later, by appendCredit.)                          *)
RefusedAtOnce(j) ==
    \/ j.kind \in {"spend", "grant"} /\ j.amount <= 0
    \/ j.kind = "operator" /\ j.amount > Cap

Begin(r) ==
    /\ pc[r] = "idle"
    /\ Goto(r, IF RefusedAtOnce(job[r]) THEN "failed" ELSE "find")
    /\ started' = [started EXCEPT ![r] = now]
    /\ UNCHANGED <<wallet, announced, now, deletions, job, seen, trialDue, already, charge, drift>>

-------------------------------------------------------------------------------
(* ensureWallet: find the wallet, or create it with the trial grant. *)

AfterEnsure(r) == IF job[r].kind = "reconcile" THEN "sum" ELSE "lock"

\* The first findUnique, and the one after a lost race, which rethrows if there is still no wallet.
FindWallet(r) ==
    /\ pc[r] \in {"find", "refind"}
    /\ IF walletExists
       THEN /\ Goto(r, AfterEnsure(r))
            /\ seen' = [seen EXCEPT ![r] = balance]
       ELSE /\ Goto(r, IF pc[r] = "find" THEN "trial" ELSE "failed")
            /\ UNCHANGED seen
    /\ UNCHANGED <<wallet, announced, now, deletions, job, started, trialDue, already, charge, drift>>

CheckTrial(r) ==
    /\ pc[r] = "trial"
    /\ Goto(r, "create")
    /\ trialDue' = [trialDue EXCEPT ![r] =
          TrialCredits > 0 /\ \A i \in DOMAIN ledger : ledger[i].refType # "trial"]
    /\ UNCHANGED <<wallet, announced, now, deletions, job, started, seen, already, charge, drift>>

\* The ledger with the trial's PLAN_GRANT row, when the trial is due.
LedgerWithTrialRow(r) ==
    IF trialDue[r]
    THEN Append(ledger, NewRow("CREDIT", "PLAN_GRANT", TrialCredits, 0, "trial", TenantId))
    ELSE ledger

\* credit_wallets.create and the trial row, one transaction.
InsertWallet(r) ==
    LET grant == IF trialDue[r] THEN TrialCredits ELSE 0 IN
    /\ walletExists' = TRUE
    /\ balance' = grant
    /\ ledger' = LedgerWithTrialRow(r)
    /\ seen' = [seen EXCEPT ![r] = grant]

(* The transaction's inserts and its commit.  The unique tenant id lets one  *)
(* wallet in, the grant index one trial row; whoever collides rolls back and *)
(* reads the winner's wallet.                                                *)
CreateWallet(r) ==
    /\ pc[r] = "create"
    /\ IF walletExists \/ (trialDue[r] /\ KeyTaken("PLAN_GRANT", "trial", TenantId))
       THEN Goto(r, "refind") /\ UNCHANGED <<wallet, seen>>
       ELSE Goto(r, AfterEnsure(r)) /\ InsertWallet(r) /\ UNCHANGED lock
    /\ UNCHANGED <<announced, now, deletions, job, started, trialDue, already, charge, drift>>

-------------------------------------------------------------------------------
(* The locked transaction of spend, grant and grantCredits. *)

\* A plain SELECT, which waits for nobody.
RowIsAlwaysFree == TRUE

\* FOR UPDATE: the row is free when no other transaction holds it.
RowIsFree == lock = NoRequest

\* SELECT id, balance ... FOR UPDATE waits for the lock; a wallet that is gone is a 400.
LockWallet(r) ==
    /\ pc[r] = "lock"
    /\ RowIsFree
    /\ IF walletExists
       THEN /\ Goto(r, IF job[r].kind = "operator" THEN "aggregate" ELSE "apply")
            /\ lock' = r
            /\ seen' = [seen EXCEPT ![r] = balance]
       ELSE Goto(r, "failed") /\ UNCHANGED <<lock, seen>>
    /\ UNCHANGED <<walletExists, balance, ledger, announced, now, deletions,
                   job, started, trialDue, already, charge, drift>>

\* A window that forgets how far back it reaches.
SinceNow(r) == started[r]

\* The operator cap's `since`: 24 hours before the request began, read before the lock.
Since(r) == started[r] - Window

\* What operators granted since 24 hours before this request began, read under the lock.
AggregateOperatorGrants(r) ==
    /\ pc[r] = "aggregate"
    /\ Goto(r, "apply")
    /\ already' = [already EXCEPT ![r] =
          SumOver({i \in OperatorRows : ledger[i].at >= Since(r)})]
    /\ UNCHANGED <<wallet, announced, now, deletions, job, started, seen, trialDue, charge, drift>>

Affordable(r) == seen[r] >= job[r].amount

Refused(r) ==
    CASE job[r].kind = "spend"    -> ~Affordable(r)
      [] job[r].kind = "grant"    -> KeyTaken(job[r].operation, job[r].refType, job[r].refId)
      [] job[r].kind = "operator" -> \/ already[r] + job[r].amount > Cap
                                     \/ job[r].amount <= 0
                                     \/ KeyTaken(job[r].operation, job[r].refType, job[r].refId)
      [] OTHER -> FALSE

\* An exception that leaves the transaction open.
LockAfterRefusalKept == lock

LockAfterRefusal == NoRequest

\* The exception that rolls the transaction back: nothing was written, the lock is free again.
Refuse(r) ==
    /\ pc[r] = "apply"
    /\ Refused(r)
    /\ lock' = LockAfterRefusal
    /\ Goto(r, "failed")
    /\ UNCHANGED <<walletExists, balance, ledger, announced, now, deletions, local>>

ApplyRow(r, type) ==
    LET row == NewRow(type, job[r].operation, job[r].amount, seen[r], job[r].refType, job[r].refId) IN
    /\ balance' = row.after
    /\ ledger' = Append(ledger, row)
    /\ lock' = NoRequest
    /\ UNCHANGED walletExists

\* spend: wallet update and DEBIT row, committed together.
Spend(r) ==
    /\ pc[r] = "apply"
    /\ job[r].kind = "spend"
    /\ ~Refused(r)
    /\ ApplyRow(r, "DEBIT")
    /\ charge' = [charge EXCEPT ![r] = Len(ledger) + 1]
    /\ Goto(r, "warn")
    /\ UNCHANGED <<announced, now, deletions, job, started, seen, trialDue, already, drift>>

\* appendCredit, for a grant, a refund and an operator grant.
AppendCredit(r) ==
    /\ pc[r] = "apply"
    /\ job[r].kind \in {"grant", "operator"}
    /\ ~Refused(r)
    /\ ApplyRow(r, "CREDIT")
    /\ Goto(r, "done")
    /\ UNCHANGED <<announced, now, deletions, local>>

-------------------------------------------------------------------------------
(* After the commit. *)

\* Every charge that ends below the line, not only the one that crosses it.
CrossingEachTime(row) == IF row.after <= 0 THEN {"exhausted"} ELSE IF row.after <= Threshold THEN {"low"} ELSE {}

\* The crossing a charge is: to zero, or to the warning line while a wallet says where it is.
Crossing(row) ==
    CASE row.after <= 0 -> IF row.before > 0 THEN {"exhausted"} ELSE {}
      [] row.after > 0 /\ walletExists /\ row.after <= Threshold ->
            IF row.before > Threshold THEN {"low"} ELSE {}
      [] OTHER -> {}

\* warnIfBalanceLow: emits credits.low_balance for the charge that crossed the line.
WarnIfBalanceLow(r) ==
    /\ pc[r] = "warn"
    /\ Goto(r, "done")
    /\ \/ \E kind \in Crossing(ledger[charge[r]]) : announced' = Append(announced, <<kind, charge[r]>>)
       \/ Crossing(ledger[charge[r]]) = {} /\ UNCHANGED announced
    /\ UNCHANGED <<wallet, now, deletions, local>>

\* reconcile: the sums, read in a query of their own after the wallet was.
SumLedger(r) ==
    /\ pc[r] = "sum"
    /\ Goto(r, "done")
    /\ drift' = [drift EXCEPT ![r] = seen[r] - LedgerBalance]
    /\ UNCHANGED <<wallet, announced, now, deletions, job, started, seen, trialDue, already, charge>>

-------------------------------------------------------------------------------
(* The process or its connection dies: the open transaction rolls back. *)
Crash(r) ==
    /\ pc[r] \notin {"idle", "done", "failed"}
    /\ Goto(r, "failed")
    /\ lock' = IF lock = r THEN NoRequest ELSE lock
    /\ UNCHANGED <<walletExists, balance, ledger, announced, now, deletions, local>>

(* A wallet deleted by hand, which ensureWallet prepares for; the delete needs the row lock. *)
DeleteWallet ==
    /\ walletExists
    /\ lock = NoRequest
    /\ deletions < MaxDeletions
    /\ walletExists' = FALSE
    /\ balance' = 0
    /\ deletions' = deletions + 1
    /\ UNCHANGED <<lock, ledger, announced, now, pc, local>>

Tick ==
    /\ now < MaxTime
    /\ now' = now + 1
    /\ UNCHANGED <<wallet, announced, deletions, pc, local>>

Step(r) ==
    \/ Begin(r) \/ FindWallet(r) \/ CheckTrial(r) \/ CreateWallet(r)
    \/ LockWallet(r) \/ AggregateOperatorGrants(r) \/ Refuse(r)
    \/ Spend(r) \/ AppendCredit(r) \/ WarnIfBalanceLow(r) \/ SumLedger(r)

Next == (\E r \in Requests : Step(r) \/ Crash(r)) \/ DeleteWallet \/ Tick

Spec == Init /\ [][Next]_vars

(* The database answers and a process runs its next statement; that a request *)
(* is made, that it dies, or that anyone deletes the wallet is not assumed.   *)
LiveSpec == Spec /\ \A r \in Requests : WF_vars(pc[r] # "idle" /\ Step(r))

-------------------------------------------------------------------------------
Steps == {"idle", "find", "refind", "trial", "create", "lock", "aggregate", "apply",
          "warn", "sum", "done", "failed"}

WalletTypeOK ==
    /\ walletExists \in BOOLEAN
    /\ balance \in Nat
    /\ lock \in Requests \union {NoRequest}
    /\ ledger \in Seq(Row)
    /\ announced \in Seq(Announcement)
    /\ now \in Nat
    /\ deletions \in Nat

RequestTypeOK ==
    /\ pc \in [Requests -> Steps]
    /\ job \in [Requests -> Jobs]
    /\ started \in [Requests -> Nat]
    /\ seen \in [Requests -> Nat]
    /\ trialDue \in [Requests -> BOOLEAN]
    /\ charge \in [Requests -> Nat]
    /\ DOMAIN already = Requests
    /\ DOMAIN drift = Requests

\* The values each variable takes; in particular no balance is ever negative.
TypeOK == WalletTypeOK /\ RequestTypeOK

(* No spend takes the wallet below zero, however many read the balance at once. *)
NoOverdraft == balance >= 0 /\ \A i \in DOMAIN ledger : ledger[i].after >= 0

(* "The wallet balance is a cache, the ledger is the truth", row by row:     *)
(* each row starts from the balance the row before it left, and the last     *)
(* one left the balance the wallet has, wherever requests stop and unless    *)
(* somebody took the wallet away by hand.                                    *)
LedgerChain ==
    /\ \A i \in DOMAIN ledger :
          ledger[i].after = IF ledger[i].type = "CREDIT" THEN ledger[i].before + ledger[i].amount
                                                         ELSE ledger[i].before - ledger[i].amount
    /\ deletions = 0 =>
          /\ \A i \in 2 .. Len(ledger) : ledger[i].before = ledger[i - 1].after
          /\ ledger # <<>> => ledger[1].before = 0
          /\ balance = IF ledger = <<>> THEN 0 ELSE ledger[Len(ledger)].after

(* The lock: the request that holds it sees the balance that is committed.   *)
LockedReadIsCurrent ==
    \A r \in Requests : pc[r] \in {"aggregate", "apply"} => lock = r /\ walletExists /\ seen[r] = balance

(* No reference is credited twice by a purchase, a plan grant or a manual    *)
(* adjustment, however the requests that carry it race; the trial grant is   *)
(* one of them, even after the wallet was deleted and made again.            *)
GrantOncePerReference ==
    \A i, k \in DOMAIN ledger :
       /\ i # k
       /\ Indexed(ledger[i].type, ledger[i].operation, ledger[i].refType, ledger[i].refId)
       /\ Indexed(ledger[k].type, ledger[k].operation, ledger[k].refType, ledger[k].refId)
       => <<ledger[i].refType, ledger[i].refId>> # <<ledger[k].refType, ledger[k].refId>>

(* Operators never grant more than the cap in any 24 hours, not just the 24  *)
(* hours before the request that asks, and however late its lock is granted. *)
OperatorCapHolds ==
    \A t \in 0 .. now : SumOver({i \in OperatorRows : ledger[i].at \in t .. t + Window}) <= Cap

(* "Integrations hear about the crossing, not every charge after it": two    *)
(* exhaustion events are about charges with a credit somewhere between, and  *)
(* so are two low-balance events.                                            *)
CrossingsAnnouncedOnce ==
    \A i, k \in DOMAIN announced :
       i # k /\ announced[i][1] = announced[k][1] =>
          \E c \in DOMAIN ledger :
             /\ ledger[c].type = "CREDIT"
             /\ \/ announced[i][2] < c /\ c < announced[k][2]
                \/ announced[k][2] < c /\ c < announced[i][2]

(* A request that began ends: no transaction waits for the lock for ever.    *)
RequestsEnd == \A r \in Requests : pc[r] = "find" ~> pc[r] \in {"done", "failed"}

-------------------------------------------------------------------------------
(* What Begin has checked holds of every request past it, and a workspace    *)
(* whose wallet was never there has no ledger.  Together with TypeOK and     *)
(* LockedReadIsCurrent these carry the proofs.                               *)
Validated == \A r \in Requests : pc[r] \notin {"idle", "failed"} => ~RefusedAtOnce(job[r])

NoWalletNoRows == ~walletExists => balance = 0 /\ (deletions = 0 => ledger = <<>>)

LockInv == TypeOK /\ Validated /\ LockedReadIsCurrent /\ NoWalletNoRows

-------------------------------------------------------------------------------
(* The account the requests, taken together, implement. *)
Account == INSTANCE CreditAccount WITH
    Keys <- (ReferenceTypes \ {"none"}) \X Ids,
    open <- walletExists,
    applied <- {<<ledger[i].refType, ledger[i].refId>> : i \in
                  {k \in DOMAIN ledger : /\ ledger[k].refType # "trial"
                                         /\ Indexed(ledger[k].type, ledger[k].operation,
                                                    ledger[k].refType, ledger[k].refId)}},
    trialGiven <- \E i \in DOMAIN ledger : ledger[i].refType = "trial"

ImplementsAccount == Account!AccountSpec
===============================================================================
