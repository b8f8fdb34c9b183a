-------------------------- MODULE CreditLedgerProofs --------------------------
(***************************************************************************)
(* The wallet's safety for any number of requests, any jobs, any trial     *)
(* grant, cap and window.  The inductive invariant is LockInv: types, what *)
(* Begin validated, and that the balance a lock holder read is the one     *)
(* that is committed.  Without the last, a debit of what was read could    *)
(* leave the wallet anywhere.  The operator cap needs CapInv besides: what *)
(* the lock holder added up is what the ledger still holds.                *)
(***************************************************************************)
EXTENDS CreditLedger, FiniteSetTheorems, TLAPS

USE LedgerAssumption DEF LedgerAssumption

\* A row built from naturals that does not take more than there is is a row of the table.
LEMMA NewRowIsRow ==
    ASSUME now \in Nat,
           NEW type \in {"CREDIT", "DEBIT"}, NEW operation \in Operations, NEW amount \in Nat,
           NEW before \in Nat, NEW refType \in ReferenceTypes,
           NEW refId \in Ids \union {NoId, TenantId},
           type = "DEBIT" => amount <= before
    PROVE  NewRow(type, operation, amount, before, refType, refId) \in Row
BY DEF NewRow, Row

\* What ApplyRow does when its row is well formed: the balance and the ledger keep their types.
LEMMA ApplyRowTyped ==
    ASSUME LockInv, NEW r \in Requests, NEW type \in {"CREDIT", "DEBIT"},
           pc[r] = "apply", ApplyRow(r, type), job[r].amount \in Nat,
           type = "DEBIT" => job[r].amount <= seen[r]
    PROVE  /\ balance' \in Nat
           /\ ledger' \in Seq(Row)
           /\ lock' = NoRequest
           /\ walletExists' = walletExists
           /\ walletExists
<1> DEFINE row == NewRow(type, job[r].operation, job[r].amount, seen[r], job[r].refType, job[r].refId)
<1>1. job[r] \in Job
  BY DEF LockInv, TypeOK, WalletTypeOK, RequestTypeOK
<1>2. row \in Row
  <2>1. /\ job[r].operation \in Operations
        /\ job[r].refType \in ReferenceTypes
        /\ job[r].refId \in Ids \union {NoId, TenantId}
    BY <1>1 DEF Job
  <2>2. seen[r] \in Nat /\ now \in Nat
    BY DEF LockInv, TypeOK, WalletTypeOK, RequestTypeOK
  <2> QED BY <2>1, <2>2, NewRowIsRow
<1>3. row.after \in Nat
  BY <1>2 DEF Row
<1>4. balance' = row.after /\ ledger' = Append(ledger, row)
  BY DEF ApplyRow
<1>5. ledger \in Seq(Row)
  BY DEF LockInv, TypeOK, WalletTypeOK, RequestTypeOK
<1>6. walletExists
  BY DEF LockInv, LockedReadIsCurrent
<1> HIDE DEF row
<1> QED BY <1>2, <1>3, <1>4, <1>5, <1>6 DEF ApplyRow

LEMMA LockInvInit == Init => LockInv
<1> SUFFICES ASSUME Init PROVE LockInv
  OBVIOUS
<1>1. WalletTypeOK
  <2>1. <<>> \in Seq(Row) /\ <<>> \in Seq(Announcement)
    OBVIOUS
  <2> QED BY <2>1 DEF Init, WalletTypeOK
<1>2. RequestTypeOK
  BY DEF Init, RequestTypeOK, Steps
<1> QED BY <1>1, <1>2 DEF TypeOK, Init, LockInv, Validated, LockedReadIsCurrent, NoWalletNoRows

LEMMA LockInvNext == LockInv /\ [Next]_vars => LockInv'
<1> SUFFICES ASSUME LockInv, [Next]_vars PROVE LockInv'
  OBVIOUS
<1> USE DEF LockInv
<1>1. CASE UNCHANGED vars
  BY <1>1 DEF vars, wallet, local, TypeOK, WalletTypeOK, RequestTypeOK, Validated, LockedReadIsCurrent, NoWalletNoRows
<1>2. ASSUME NEW r \in Requests, Begin(r) PROVE LockInv'
  BY <1>2 DEF Begin, Goto, wallet, TypeOK, WalletTypeOK, RequestTypeOK, Steps, Validated, RefusedAtOnce, LockedReadIsCurrent, NoWalletNoRows
<1>3. ASSUME NEW r \in Requests, FindWallet(r) PROVE LockInv'
  <2>1. UNCHANGED <<wallet, announced, now, deletions, job, started, trialDue, already, charge, drift>>
    BY <1>3 DEF FindWallet
  <2>2. CASE walletExists
    <3>1. Goto(r, AfterEnsure(r)) /\ seen' = [seen EXCEPT ![r] = balance] /\ pc[r] \in {"find", "refind"}
      BY <1>3, <2>2 DEF FindWallet
    <3> QED BY <2>1, <2>2, <3>1
            DEF AfterEnsure, Goto, wallet, TypeOK, WalletTypeOK, RequestTypeOK, Steps,
                Validated, RefusedAtOnce, LockedReadIsCurrent, NoWalletNoRows
  <2>3. CASE ~walletExists
    <3>1. /\ Goto(r, "trial") \/ Goto(r, "failed")
          /\ UNCHANGED seen /\ pc[r] \in {"find", "refind"}
      BY <1>3, <2>3 DEF FindWallet
    <3> QED BY <2>1, <2>3, <3>1
            DEF Goto, wallet, TypeOK, WalletTypeOK, RequestTypeOK, Steps,
                Validated, RefusedAtOnce, LockedReadIsCurrent, NoWalletNoRows
  <2> QED BY <2>2, <2>3
<1>4. ASSUME NEW r \in Requests, CheckTrial(r) PROVE LockInv'
  BY <1>4 DEF CheckTrial, Goto, wallet, TypeOK, WalletTypeOK, RequestTypeOK, Steps, Validated, RefusedAtOnce, LockedReadIsCurrent, NoWalletNoRows
<1>5. ASSUME NEW r \in Requests, CreateWallet(r) PROVE LockInv'
  <2>1. CASE walletExists \/ (trialDue[r] /\ KeyTaken("PLAN_GRANT", "trial", TenantId))
    BY <1>5, <2>1 DEF CreateWallet, Goto, wallet, TypeOK, WalletTypeOK, RequestTypeOK, Steps, Validated, RefusedAtOnce, LockedReadIsCurrent, NoWalletNoRows
  <2>2. CASE ~(walletExists \/ (trialDue[r] /\ KeyTaken("PLAN_GRANT", "trial", TenantId)))
    <3>1. Goto(r, AfterEnsure(r)) /\ InsertWallet(r) /\ UNCHANGED lock /\ pc[r] = "create"
      BY <1>5, <2>2 DEF CreateWallet
    <3>2. ledger' \in Seq(Row)
      <4>1. NewRow("CREDIT", "PLAN_GRANT", TrialCredits, 0, "trial", TenantId) \in Row
        BY NewRowIsRow DEF TypeOK, WalletTypeOK, RequestTypeOK, Operations, ReferenceTypes
      <4> QED BY <3>1, <4>1 DEF InsertWallet, LedgerWithTrialRow, TypeOK, WalletTypeOK, RequestTypeOK
    <3>3. UNCHANGED <<announced, now, deletions, job, started, trialDue, already, charge, drift>>
      BY <1>5 DEF CreateWallet
    <3>4. TypeOK'
      BY <3>1, <3>2, <3>3 DEF InsertWallet, AfterEnsure, Goto, TypeOK, WalletTypeOK, RequestTypeOK, Steps
    <3> QED BY <2>2, <3>1, <3>3, <3>4 DEF InsertWallet, AfterEnsure, Goto, TypeOK, WalletTypeOK, RequestTypeOK, Validated, RefusedAtOnce, LockedReadIsCurrent, NoWalletNoRows
  <2> QED BY <2>1, <2>2
<1>6. ASSUME NEW r \in Requests, LockWallet(r) PROVE LockInv'
  <2>1. /\ UNCHANGED <<walletExists, balance, ledger, announced, now, deletions,
                        job, started, trialDue, already, charge, drift>>
        /\ pc[r] = "lock" /\ lock = NoRequest
    BY <1>6 DEF LockWallet, RowIsFree
  <2>2. CASE walletExists
    <3>1. /\ Goto(r, "aggregate") \/ Goto(r, "apply")
          /\ lock' = r /\ seen' = [seen EXCEPT ![r] = balance]
      BY <1>6, <2>2 DEF LockWallet
    <3> QED BY <2>1, <2>2, <3>1
            DEF Goto, TypeOK, WalletTypeOK, RequestTypeOK, Steps,
                Validated, RefusedAtOnce, LockedReadIsCurrent, NoWalletNoRows
  <2>3. CASE ~walletExists
    <3>1. Goto(r, "failed") /\ UNCHANGED <<lock, seen>>
      BY <1>6, <2>3 DEF LockWallet
    <3> QED BY <2>1, <2>3, <3>1
            DEF Goto, TypeOK, WalletTypeOK, RequestTypeOK, Steps,
                Validated, RefusedAtOnce, LockedReadIsCurrent, NoWalletNoRows
  <2> QED BY <2>2, <2>3
<1>7. ASSUME NEW r \in Requests, AggregateOperatorGrants(r) PROVE LockInv'
  BY <1>7 DEF AggregateOperatorGrants, Goto, wallet, TypeOK, WalletTypeOK, RequestTypeOK, Steps, Validated, RefusedAtOnce, LockedReadIsCurrent, NoWalletNoRows
<1>8. ASSUME NEW r \in Requests, Refuse(r) PROVE LockInv'
  BY <1>8 DEF Refuse, LockAfterRefusal, Goto, local, TypeOK, WalletTypeOK, RequestTypeOK, Steps, Validated, RefusedAtOnce, LockedReadIsCurrent, NoWalletNoRows
<1>9. ASSUME NEW r \in Requests, Spend(r) PROVE LockInv'
  <2>1. job[r].amount \in Nat /\ job[r].amount <= seen[r]
    <3>1. job[r].amount \in Int /\ seen[r] \in Nat
      BY DEF TypeOK, WalletTypeOK, RequestTypeOK, Job
    <3>2. ~RefusedAtOnce(job[r])
      BY <1>9 DEF Spend, Validated
    <3>3. seen[r] >= job[r].amount
      BY <1>9 DEF Spend, Refused, Affordable
    <3> QED BY <1>9, <3>1, <3>2, <3>3 DEF RefusedAtOnce, Spend
  <2>2. /\ balance' \in Nat /\ ledger' \in Seq(Row) /\ lock' = NoRequest
        /\ walletExists' = walletExists /\ walletExists
    BY <1>9, <2>1, ApplyRowTyped DEF Spend
  <2>3. TypeOK'
    BY <1>9, <2>2 DEF Spend, Goto, TypeOK, WalletTypeOK, RequestTypeOK, Steps
  <2> QED BY <1>9, <2>2, <2>3 DEF Spend, Goto, TypeOK, WalletTypeOK, RequestTypeOK, Validated, RefusedAtOnce, LockedReadIsCurrent, NoWalletNoRows
<1>10. ASSUME NEW r \in Requests, AppendCredit(r) PROVE LockInv'
  <2>1. job[r].amount \in Nat
    <3>1. job[r].amount \in Int
      BY DEF TypeOK, WalletTypeOK, RequestTypeOK, Job
    <3>2. ~RefusedAtOnce(job[r])
      BY <1>10 DEF AppendCredit, Validated
    <3>3. CASE job[r].kind = "grant"
      BY <3>1, <3>2, <3>3 DEF RefusedAtOnce
    <3>4. CASE job[r].kind = "operator"
      BY <1>10, <3>1, <3>4 DEF AppendCredit, Refused
    <3> QED BY <1>10, <3>3, <3>4 DEF AppendCredit
  <2>2. /\ balance' \in Nat /\ ledger' \in Seq(Row) /\ lock' = NoRequest
        /\ walletExists' = walletExists /\ walletExists
    BY <1>10, <2>1, ApplyRowTyped DEF AppendCredit
  <2>3. TypeOK'
    BY <1>10, <2>2 DEF AppendCredit, Goto, local, TypeOK, WalletTypeOK, RequestTypeOK, Steps
  <2> QED BY <1>10, <2>2, <2>3 DEF AppendCredit, Goto, local, TypeOK, WalletTypeOK, RequestTypeOK, Validated, RefusedAtOnce, LockedReadIsCurrent, NoWalletNoRows
<1>11. ASSUME NEW r \in Requests, WarnIfBalanceLow(r) PROVE LockInv'
  <2>1. announced' \in Seq(Announcement)
    <3>1. announced \in Seq(Announcement) /\ charge[r] \in Nat
      BY DEF TypeOK, WalletTypeOK, RequestTypeOK
    <3>2. \A row : Crossing(row) \subseteq {"low", "exhausted"}
      BY DEF Crossing
    <3>3. ASSUME NEW kind \in {"low", "exhausted"}
          PROVE  Append(announced, <<kind, charge[r]>>) \in Seq(Announcement)
      BY <3>1 DEF Announcement
    <3> QED BY <1>11, <3>1, <3>2, <3>3 DEF WarnIfBalanceLow
  <2> QED BY <1>11, <2>1 DEF WarnIfBalanceLow, Goto, wallet, local, TypeOK, WalletTypeOK, RequestTypeOK, Steps, Validated, RefusedAtOnce, LockedReadIsCurrent, NoWalletNoRows
<1>12. ASSUME NEW r \in Requests, SumLedger(r) PROVE LockInv'
  BY <1>12 DEF SumLedger, Goto, wallet, TypeOK, WalletTypeOK, RequestTypeOK, Steps, Validated, RefusedAtOnce, LockedReadIsCurrent, NoWalletNoRows
<1>13. ASSUME NEW r \in Requests, Crash(r) PROVE LockInv'
  BY <1>13 DEF Crash, Goto, local, TypeOK, WalletTypeOK, RequestTypeOK, Steps, Validated, RefusedAtOnce, LockedReadIsCurrent, NoWalletNoRows
<1>14. CASE DeleteWallet
  <2>1. TypeOK'
    <3>1. WalletTypeOK'
      <4>1. /\ walletExists' = FALSE /\ balance' = 0 /\ deletions' = deletions + 1
            /\ UNCHANGED <<lock, ledger, announced, now>>
        BY <1>14 DEF DeleteWallet
      <4>2. walletExists' \in BOOLEAN
        BY <4>1
      <4>3. balance' \in Nat /\ deletions' \in Nat
        BY <4>1 DEF TypeOK, WalletTypeOK
      <4>4. UNCHANGED <<lock, ledger, announced, now>> /\ WalletTypeOK
        BY <4>1 DEF TypeOK
      <4> QED BY <4>2, <4>3, <4>4 DEF WalletTypeOK
    <3>2. RequestTypeOK'
      BY <1>14 DEF DeleteWallet, local, TypeOK, RequestTypeOK
    <3> QED BY <3>1, <3>2 DEF TypeOK
  <2>2. Validated'
    BY <1>14 DEF DeleteWallet, local, Validated, RefusedAtOnce
  <2>3. LockedReadIsCurrent'
    BY <1>14 DEF DeleteWallet, local, LockedReadIsCurrent
  <2>4. NoWalletNoRows'
    BY <1>14 DEF DeleteWallet, NoWalletNoRows, TypeOK, WalletTypeOK, RequestTypeOK
  <2> QED BY <2>1, <2>2, <2>3, <2>4
<1>15. CASE Tick
  BY <1>15 DEF Tick, wallet, local, TypeOK, WalletTypeOK, RequestTypeOK, Steps, Validated, RefusedAtOnce, LockedReadIsCurrent, NoWalletNoRows
<1> QED BY <1>1, <1>2, <1>3, <1>4, <1>5, <1>6, <1>7, <1>8, <1>9, <1>10, <1>11, <1>12, <1>13, <1>14, <1>15
        DEF Next, Step

LEMMA LockInvAlways == Spec => []LockInv
BY LockInvInit, LockInvNext, PTL DEF Spec

(* Every variable keeps its type: in particular no balance and no ledger row *)
(* ever goes below zero, which is spend's promise.                           *)
THEOREM TypesHold == Spec => []TypeOK
<1>1. LockInv => TypeOK
  BY DEF LockInv
<1> QED BY <1>1, LockInvAlways, PTL

(* The row lock makes read-decide-write safe: whoever holds it has read the  *)
(* committed balance.                                                        *)
THEOREM LockSerialises == Spec => []LockedReadIsCurrent
<1>1. LockInv => LockedReadIsCurrent
  BY DEF LockInv
<1> QED BY <1>1, LockInvAlways, PTL

(* No interleaving of charges overdraws the wallet. *)
THEOREM NeverOverdrawn == Spec => []NoOverdraft
<1>1. LockInv => NoOverdraft
  <2> SUFFICES ASSUME LockInv PROVE NoOverdraft
    OBVIOUS
  <2>1. balance \in Nat /\ ledger \in Seq(Row)
    BY DEF LockInv, TypeOK, WalletTypeOK, RequestTypeOK
  <2>2. \A i \in DOMAIN ledger : ledger[i].after \in Nat
    <3> SUFFICES ASSUME NEW i \in DOMAIN ledger PROVE ledger[i].after \in Nat
      OBVIOUS
    <3>1. ledger[i] \in Row
      BY <2>1
    <3> QED BY <3>1 DEF Row
  <2> QED BY <2>1, <2>2 DEF NoOverdraft
<1> QED BY <1>1, LockInvAlways, PTL

-------------------------------------------------------------------------------
(* What any step does to the wallet and its ledger: nothing, a hand          *)
(* deletion, or one more row that starts from the committed balance, leaves  *)
(* the new one, and collides with no row of the index.                       *)
Grows ==
    \E type \in {"CREDIT", "DEBIT"}, operation \in Operations, amount \in Nat,
       refType \in ReferenceTypes, refId \in Ids \union {NoId, TenantId} :
       LET row == NewRow(type, operation, amount, balance, refType, refId) IN
       /\ ledger' = Append(ledger, row)
       /\ balance' = row.after
       /\ deletions' = deletions
       /\ Indexed(type, operation, refType, refId) => ~KeyTaken(operation, refType, refId)

Keeps ==
    /\ ledger' = ledger /\ balance' \in {balance, 0}
    /\ deletions' = deletions => balance' = balance
    /\ deletions' >= deletions

LEMMA ApplyGrows ==
    ASSUME LockInv, NEW r \in Requests, NEW type \in {"CREDIT", "DEBIT"}, pc[r] = "apply",
           ApplyRow(r, type), job[r].amount \in Nat, deletions' = deletions,
           Indexed(type, job[r].operation, job[r].refType, job[r].refId)
              => ~KeyTaken(job[r].operation, job[r].refType, job[r].refId)
    PROVE  Grows
<1>1. seen[r] = balance
  BY DEF LockInv, LockedReadIsCurrent
<1>2. /\ job[r].operation \in Operations
      /\ job[r].refType \in ReferenceTypes
      /\ job[r].refId \in Ids \union {NoId, TenantId}
  <2>1. job[r] \in Job
    BY DEF LockInv, TypeOK, RequestTypeOK
  <2> QED BY <2>1 DEF Job
<1>3. LET row == NewRow(type, job[r].operation, job[r].amount, balance, job[r].refType, job[r].refId)
      IN ledger' = Append(ledger, row) /\ balance' = row.after
  BY <1>1 DEF ApplyRow
<1> QED BY <1>2, <1>3 DEF Grows

LEMMA StepOnLedger == LockInv /\ [Next]_vars => Keeps \/ Grows
<1> SUFFICES ASSUME LockInv, [Next]_vars PROVE Keeps \/ Grows
  OBVIOUS
<1> USE DEF Keeps
<1>0. deletions \in Nat
  BY DEF LockInv, TypeOK, WalletTypeOK
<1>1. CASE UNCHANGED vars
  BY <1>0, <1>1 DEF vars, wallet
<1>2. ASSUME NEW r \in Requests, CreateWallet(r) PROVE Keeps \/ Grows
  <2>1. CASE walletExists \/ (trialDue[r] /\ KeyTaken("PLAN_GRANT", "trial", TenantId))
    BY <1>0, <1>2, <2>1 DEF CreateWallet, wallet
  <2>2. CASE ~walletExists /\ ~(trialDue[r] /\ KeyTaken("PLAN_GRANT", "trial", TenantId))
    <3>1. InsertWallet(r) /\ deletions' = deletions /\ balance = 0
      BY <1>2, <2>2 DEF CreateWallet, LockInv, NoWalletNoRows
    <3>2. CASE trialDue[r]
      <4>1. ledger' = Append(ledger, NewRow("CREDIT", "PLAN_GRANT", TrialCredits, balance, "trial", TenantId))
        BY <3>1, <3>2 DEF InsertWallet, LedgerWithTrialRow
      <4>2. balance' = NewRow("CREDIT", "PLAN_GRANT", TrialCredits, balance, "trial", TenantId).after
        BY <3>1, <3>2 DEF InsertWallet, NewRow
      <4>3. "PLAN_GRANT" \in Operations /\ "trial" \in ReferenceTypes
        BY DEF Operations, ReferenceTypes
      <4> QED BY <2>2, <3>1, <3>2, <4>1, <4>2, <4>3 DEF Grows
    <3>3. CASE ~trialDue[r]
      BY <1>0, <3>1, <3>3 DEF InsertWallet, LedgerWithTrialRow
    <3> QED BY <3>2, <3>3
  <2> QED BY <2>1, <2>2
<1>3. ASSUME NEW r \in Requests, Spend(r) PROVE Grows
  <2>1. job[r].amount \in Nat
    <3>1. job[r].amount \in Int
      BY DEF LockInv, TypeOK, RequestTypeOK, Job
    <3> QED BY <1>3, <3>1 DEF LockInv, Validated, RefusedAtOnce, Spend
  <2> QED BY <1>3, <2>1, ApplyGrows DEF Spend, Indexed
<1>4. ASSUME NEW r \in Requests, AppendCredit(r) PROVE Grows
  <2>1. job[r].amount \in Nat /\ ~KeyTaken(job[r].operation, job[r].refType, job[r].refId)
    <3>1. job[r].amount \in Int
      BY DEF LockInv, TypeOK, RequestTypeOK, Job
    <3>2. ~RefusedAtOnce(job[r])
      BY <1>4 DEF AppendCredit, LockInv, Validated
    <3>3. CASE job[r].kind = "grant"
      BY <1>4, <3>1, <3>2, <3>3 DEF RefusedAtOnce, AppendCredit, Refused
    <3>4. CASE job[r].kind = "operator"
      BY <1>4, <3>1, <3>4 DEF AppendCredit, Refused
    <3> QED BY <1>4, <3>3, <3>4 DEF AppendCredit
  <2> QED BY <1>4, <2>1, ApplyGrows DEF AppendCredit
<1>5. CASE DeleteWallet
  BY <1>0, <1>5 DEF DeleteWallet
<1>6. CASE Tick
  BY <1>0, <1>6 DEF Tick, wallet
<1>7. ASSUME NEW r \in Requests,
             \/ Begin(r) \/ FindWallet(r) \/ CheckTrial(r) \/ LockWallet(r) \/ AggregateOperatorGrants(r)
             \/ Refuse(r) \/ WarnIfBalanceLow(r) \/ SumLedger(r) \/ Crash(r)
      PROVE  Keeps
  BY <1>0, <1>7 DEF Begin, FindWallet, CheckTrial, LockWallet, AggregateOperatorGrants, Refuse,
                    WarnIfBalanceLow, SumLedger, Crash, wallet
<1> QED BY <1>1, <1>2, <1>3, <1>4, <1>5, <1>6, <1>7 DEF Next, Step

(* The balance can be rebuilt from the ledger: each row starts where the one *)
(* before it ended, and the wallet holds what the last one left.             *)
THEOREM BalanceIsRebuilt == Spec => []LedgerChain
<1>1. Init => LedgerChain
  BY DEF Init, LedgerChain
<1>2. LockInv /\ LedgerChain /\ [Next]_vars => LedgerChain'
  <2> SUFFICES ASSUME LockInv, LedgerChain, [Next]_vars PROVE LedgerChain'
    OBVIOUS
  <2>0. ledger \in Seq(Row) /\ balance \in Nat /\ deletions \in Nat
    BY DEF LockInv, TypeOK, WalletTypeOK
  <2>1. CASE Keeps
    <3>1. deletions' = 0 => deletions = 0 /\ balance' = balance
      BY <2>0, <2>1 DEF Keeps, LockInv
    <3> QED BY <2>1, <3>1 DEF Keeps, LedgerChain
  <2>2. CASE Grows
    <3>1. PICK type \in {"CREDIT", "DEBIT"}, operation \in Operations, amount \in Nat,
               refType \in ReferenceTypes, refId \in Ids \union {NoId, TenantId} :
             /\ ledger' = Append(ledger, NewRow(type, operation, amount, balance, refType, refId))
             /\ balance' = NewRow(type, operation, amount, balance, refType, refId).after
             /\ deletions' = deletions
      BY <2>2 DEF Grows
    <3> DEFINE row == NewRow(type, operation, amount, balance, refType, refId)
    <3>2. /\ row.before = balance /\ row.type = type /\ row.amount = amount
          /\ row.after = IF row.type = "CREDIT" THEN row.before + row.amount
                                                ELSE row.before - row.amount
      BY DEF NewRow
    <3>3. ledger' = Append(ledger, row) /\ balance' = row.after
      BY <3>1
    <3> HIDE DEF row
    <3>4. /\ DOMAIN ledger' = 1 .. Len(ledger) + 1 /\ Len(ledger') = Len(ledger) + 1
          /\ ledger'[Len(ledger) + 1] = row
          /\ \A i \in 1 .. Len(ledger) : ledger'[i] = ledger[i]
          /\ DOMAIN ledger = 1 .. Len(ledger) /\ Len(ledger) \in Nat
      BY <2>0, <3>3
    <3>5. \A i \in DOMAIN ledger' :
             ledger'[i].after = IF ledger'[i].type = "CREDIT" THEN ledger'[i].before + ledger'[i].amount
                                                             ELSE ledger'[i].before - ledger'[i].amount
      <4> SUFFICES ASSUME NEW i \in DOMAIN ledger'
                   PROVE  ledger'[i].after = IF ledger'[i].type = "CREDIT"
                                               THEN ledger'[i].before + ledger'[i].amount
                                               ELSE ledger'[i].before - ledger'[i].amount
        OBVIOUS
      <4>1. CASE i \in 1 .. Len(ledger)
        BY <3>4, <4>1 DEF LedgerChain
      <4>2. CASE i = Len(ledger) + 1
        BY <3>2, <3>4, <4>2
      <4> QED BY <3>4, <4>1, <4>2
    <3>6. ASSUME deletions = 0
          PROVE  /\ \A i \in 2 .. Len(ledger') : ledger'[i].before = ledger'[i - 1].after
                 /\ ledger' # <<>> /\ ledger'[1].before = 0
                 /\ balance' = ledger'[Len(ledger')].after
      <4>1. ledger = <<>> => balance = 0
        BY <3>6 DEF LedgerChain
      <4>2. ledger # <<>> => balance = ledger[Len(ledger)].after /\ ledger[1].before = 0
        BY <3>6 DEF LedgerChain
      <4>3. \A i \in 2 .. Len(ledger) : ledger[i].before = ledger[i - 1].after
        BY <3>6 DEF LedgerChain
      <4>4. ledger = <<>> <=> Len(ledger) = 0
        BY <2>0
      <4>5. ASSUME NEW i \in 2 .. Len(ledger') PROVE ledger'[i].before = ledger'[i - 1].after
        <5>1. CASE i \in 1 .. Len(ledger)
          BY <3>4, <4>3, <4>5, <5>1
        <5>2. CASE i = Len(ledger) + 1
          <6>1. i - 1 = Len(ledger) /\ i - 1 \in 1 .. Len(ledger)
            BY <3>4, <4>5, <5>2
          <6> QED BY <3>2, <3>4, <4>2, <4>4, <5>2, <6>1
        <5> QED BY <3>4, <4>5, <5>1, <5>2
      <4>6. ledger' # <<>>
        BY <3>4
      <4>7. ledger'[1].before = 0
        BY <3>2, <3>4, <4>1, <4>2, <4>4
      <4> QED BY <3>3, <3>4, <4>5, <4>6, <4>7
    <3> QED BY <3>1, <3>5, <3>6 DEF LedgerChain
  <2> QED BY <2>1, <2>2, StepOnLedger
<1> QED BY <1>1, <1>2, LockInvAlways, PTL DEF Spec

(* A reference is credited once, the trial included, whatever is retried,    *)
(* raced or deleted by hand.                                                 *)
THEOREM ReferenceCreditedOnce == Spec => []GrantOncePerReference
<1>1. Init => GrantOncePerReference
  BY DEF Init, GrantOncePerReference
<1>2. LockInv /\ GrantOncePerReference /\ [Next]_vars => GrantOncePerReference'
  <2> SUFFICES ASSUME LockInv, GrantOncePerReference, [Next]_vars PROVE GrantOncePerReference'
    OBVIOUS
  <2>0. ledger \in Seq(Row)
    BY DEF LockInv, TypeOK, WalletTypeOK
  <2>1. CASE Keeps
    BY <2>1 DEF Keeps, GrantOncePerReference, Indexed
  <2>2. CASE Grows
    <3>1. PICK type \in {"CREDIT", "DEBIT"}, operation \in Operations, amount \in Nat,
               refType \in ReferenceTypes, refId \in Ids \union {NoId, TenantId} :
             /\ ledger' = Append(ledger, NewRow(type, operation, amount, balance, refType, refId))
             /\ Indexed(type, operation, refType, refId) => ~KeyTaken(operation, refType, refId)
      BY <2>2 DEF Grows
    <3> DEFINE row == NewRow(type, operation, amount, balance, refType, refId)
               Covered(x) == Indexed(x.type, x.operation, x.refType, x.refId)
    <3>2. /\ row.type = type /\ row.operation = operation
          /\ row.refType = refType /\ row.refId = refId
      BY DEF NewRow
    <3>3. ledger' = Append(ledger, row)
      BY <3>1
    <3> HIDE DEF row
    <3>4. /\ DOMAIN ledger' = 1 .. Len(ledger) + 1
          /\ ledger'[Len(ledger) + 1] = row
          /\ \A i \in 1 .. Len(ledger) : ledger'[i] = ledger[i]
          /\ DOMAIN ledger = 1 .. Len(ledger) /\ Len(ledger) \in Nat
      BY <2>0, <3>3
    <3>5. ASSUME Covered(row), NEW i \in DOMAIN ledger, Covered(ledger[i])
          PROVE  <<ledger[i].refType, ledger[i].refId>> # <<row.refType, row.refId>>
      <4>1. ~KeyTaken(operation, refType, refId) /\ Indexed("CREDIT", operation, refType, refId)
        BY <3>1, <3>2, <3>5 DEF Indexed
      <4> QED BY <3>2, <3>5, <4>1 DEF KeyTaken
    <3>6. \A i, k \in DOMAIN ledger : i # k /\ Covered(ledger[i]) /\ Covered(ledger[k]) =>
             <<ledger[i].refType, ledger[i].refId>> # <<ledger[k].refType, ledger[k].refId>>
      BY DEF GrantOncePerReference
    <3>7. ASSUME NEW i \in DOMAIN ledger', NEW k \in DOMAIN ledger', i # k,
                 Covered(ledger'[i]), Covered(ledger'[k])
          PROVE  <<ledger'[i].refType, ledger'[i].refId>> # <<ledger'[k].refType, ledger'[k].refId>>
      <4> HIDE DEF Covered
      <4>1. CASE i \in DOMAIN ledger /\ k \in DOMAIN ledger
        BY <3>4, <3>6, <3>7, <4>1
      <4>2. CASE i = Len(ledger) + 1 /\ k \in DOMAIN ledger
        BY <3>4, <3>5, <3>7, <4>2
      <4>3. CASE k = Len(ledger) + 1 /\ i \in DOMAIN ledger
        BY <3>4, <3>5, <3>7, <4>3
      <4> QED BY <3>4, <3>7, <4>1, <4>2, <4>3
    <3> QED BY <3>7 DEF GrantOncePerReference, Indexed
  <2> QED BY <2>1, <2>2, StepOnLedger
<1> QED BY <1>1, <1>2, LockInvAlways, PTL DEF Spec

-------------------------------------------------------------------------------
(* The refinement *)

TrialGiven == \E i \in DOMAIN ledger : ledger[i].refType = "trial"

Counts(row) == row.refType # "trial" /\ Indexed(row.type, row.operation, row.refType, row.refId)

Applied == {<<ledger[i].refType, ledger[i].refId>> : i \in {k \in DOMAIN ledger : Counts(ledger[k])}}

(* Whoever is about to create the wallet and did not find a trial due will   *)
(* not find one given since has gone: a trial row stays, and is covered by   *)
(* the index.                                                                *)
TrialInv ==
    /\ \A i \in DOMAIN ledger : ledger[i].refType = "trial" =>
          ledger[i].refId = TenantId /\ ledger[i].type = "CREDIT" /\ ledger[i].operation = "PLAN_GRANT"
    /\ \A r \in Requests : pc[r] = "create" =>
          IF trialDue[r] THEN TrialCredits > 0 ELSE TrialCredits = 0 \/ TrialGiven

\* Under the invariant the index lets no second trial row in.
LEMMA TrialKey == ASSUME TrialInv PROVE KeyTaken("PLAN_GRANT", "trial", TenantId) <=> TrialGiven
BY DEF TrialInv, TrialGiven, KeyTaken, Indexed, GrantOperations

\* One more row in the ledger.
LEMMA Appended ==
    ASSUME ledger \in Seq(Row), NEW row \in Row, ledger' = Append(ledger, row)
    PROVE  /\ DOMAIN ledger' = DOMAIN ledger \union {Len(ledger) + 1}
           /\ \A i \in DOMAIN ledger : ledger'[i] = ledger[i]
           /\ ledger'[Len(ledger) + 1] = row
BY SMT

\* What it does to the account.
LEMMA AppendedAccount ==
    ASSUME ledger \in Seq(Row), NEW row \in Row, ledger' = Append(ledger, row)
    PROVE  /\ TrialGiven' <=> (TrialGiven \/ row.refType = "trial")
           /\ ~Counts(row) => Applied' = Applied
           /\ Counts(row) => Applied' = Applied \union {<<row.refType, row.refId>>}
<1>1. TrialGiven' <=> (TrialGiven \/ row.refType = "trial")
  BY Appended DEF TrialGiven
<1> DEFINE last == Len(ledger) + 1
<1>2. /\ DOMAIN ledger' = DOMAIN ledger \union {last}
      /\ \A i \in DOMAIN ledger : ledger'[i] = ledger[i]
      /\ ledger'[last] = row
  BY Appended
<1> HIDE DEF last
<1>3. Applied' = {<<ledger'[i].refType, ledger'[i].refId>> : i \in {k \in DOMAIN ledger' : Counts(ledger'[k])}}
  BY DEF Applied, Counts, Indexed
<1>4. ASSUME NEW key PROVE key \in Applied' <=> key \in Applied \/ (Counts(row) /\ key = <<row.refType, row.refId>>)
  BY <1>2, <1>3 DEF Applied
<1> QED
  BY <1>1, <1>4

LEMMA TrialInit == Init => TrialInv
BY DEF Init, TrialInv

TrialRows == \A i \in DOMAIN ledger : ledger[i].refType = "trial" =>
    ledger[i].refId = TenantId /\ ledger[i].type = "CREDIT" /\ ledger[i].operation = "PLAN_GRANT"

\* A charge or a credit, as the account sees it.
LEMMA AppliedAccount ==
    ASSUME LockInv, TrialInv, NEW r \in Requests, NEW type \in {"CREDIT", "DEBIT"}, pc[r] = "apply", ApplyRow(r, type),
           job[r].amount \in Nat \ {0}, type = "DEBIT" => job[r].amount <= seen[r]
    PROVE  LET covered == Indexed(type, job[r].operation, job[r].refType, job[r].refId) IN
           /\ walletExists /\ walletExists'
           /\ TrialGiven' <=> TrialGiven
           /\ TrialRows'
           /\ balance' = IF type = "CREDIT" THEN balance + job[r].amount ELSE balance - job[r].amount
           /\ job[r].amount \in Nat \ {0} /\ (type = "DEBIT" => job[r].amount <= balance)
           /\ ~covered => Applied' = Applied
           /\ covered => Applied' = Applied \union {<<job[r].refType, job[r].refId>>}
<1> DEFINE row == NewRow(type, job[r].operation, job[r].amount, seen[r], job[r].refType, job[r].refId)
<1>1. job[r] \in Job /\ seen[r] \in Nat /\ now \in Nat /\ ledger \in Seq(Row)
  BY DEF LockInv, TypeOK, WalletTypeOK, RequestTypeOK
<1>2. /\ job[r].operation \in Operations /\ job[r].refType \in ReferenceTypes /\ job[r].refType # "trial"
      /\ job[r].refId \in Ids \union {NoId, TenantId}
  BY <1>1 DEF Job
<1>3. row \in Row
  BY <1>1, <1>2, NewRowIsRow
<1>4. /\ row.type = type /\ row.operation = job[r].operation /\ row.refType = job[r].refType /\ row.refId = job[r].refId
      /\ row.after = IF type = "CREDIT" THEN seen[r] + job[r].amount ELSE seen[r] - job[r].amount
  BY DEF NewRow
<1>5. ledger' = Append(ledger, row) /\ balance' = row.after /\ walletExists' = walletExists
  BY DEF ApplyRow
<1>6. walletExists /\ seen[r] = balance
  BY DEF LockInv, LockedReadIsCurrent
<1> HIDE DEF row
<1>7. Counts(row) <=> Indexed(type, job[r].operation, job[r].refType, job[r].refId)
  BY <1>2, <1>4 DEF Counts
<1>8. TrialRows'
  BY <1>1, <1>2, <1>3, <1>4, <1>5, Appended DEF TrialRows, TrialInv
<1>9. /\ TrialGiven' <=> TrialGiven
      /\ ~Counts(row) => Applied' = Applied
      /\ Counts(row) => Applied' = Applied \union {<<job[r].refType, job[r].refId>>}
  BY <1>1, <1>2, <1>3, <1>4, <1>5, AppendedAccount
<1> QED
  BY <1>4, <1>5, <1>6, <1>7, <1>8, <1>9

\* What a request that spends or credits has been checked for.
LEMMA SpendsWhatThereIs ==
    ASSUME LockInv, NEW r \in Requests, Spend(r)
    PROVE  job[r].amount \in Nat \ {0} /\ job[r].amount <= seen[r]
<1>1. job[r].amount \in Int /\ seen[r] \in Nat
  BY DEF LockInv, TypeOK, RequestTypeOK, Job
<1>2. ~RefusedAtOnce(job[r]) /\ job[r].kind = "spend"
  BY DEF Spend, LockInv, Validated
<1>3. seen[r] >= job[r].amount
  BY DEF Spend, Refused, Affordable
<1> QED
  BY <1>1, <1>2, <1>3 DEF RefusedAtOnce

LEMMA CreditsSomethingNew ==
    ASSUME LockInv, NEW r \in Requests, AppendCredit(r)
    PROVE  job[r].amount \in Nat \ {0} /\ ~KeyTaken(job[r].operation, job[r].refType, job[r].refId)
<1>1. job[r].amount \in Int
  BY DEF LockInv, TypeOK, RequestTypeOK, Job
<1>2. CASE job[r].kind = "grant"
  BY <1>1, <1>2 DEF AppendCredit, LockInv, Validated, RefusedAtOnce, Refused
<1>3. CASE job[r].kind = "operator"
  BY <1>1, <1>3 DEF AppendCredit, Refused
<1> QED
  BY <1>2, <1>3 DEF AppendCredit

\* Creating the wallet, as the account sees it.
LEMMA CreatedAccount ==
    ASSUME LockInv, TrialInv, NEW r \in Requests, CreateWallet(r), walletExists' # walletExists
    PROVE  /\ ~walletExists /\ walletExists'
           /\ balance' = IF TrialGiven THEN 0 ELSE TrialCredits
           /\ TrialGiven' <=> (TrialGiven \/ TrialCredits > 0)
           /\ Applied' = Applied
           /\ TrialRows'
<1>1. /\ ~walletExists /\ InsertWallet(r) /\ pc[r] = "create"
      /\ ~(trialDue[r] /\ KeyTaken("PLAN_GRANT", "trial", TenantId))
  BY DEF CreateWallet, wallet
<1>2. trialDue[r] \in BOOLEAN /\ ledger \in Seq(Row) /\ now \in Nat
  BY DEF LockInv, TypeOK, WalletTypeOK, RequestTypeOK
<1>3. CASE trialDue[r]
  <2> DEFINE row == NewRow("CREDIT", "PLAN_GRANT", TrialCredits, 0, "trial", TenantId)
  <2>1. ~TrialGiven /\ TrialCredits > 0
    BY <1>1, <1>3, TrialKey DEF TrialInv
  <2>2. row \in Row
    BY <1>2, NewRowIsRow DEF Operations, ReferenceTypes
  <2>3. row.refType = "trial" /\ row.refId = TenantId /\ row.type = "CREDIT" /\ row.operation = "PLAN_GRANT"
    BY DEF NewRow
  <2>4. ledger' = Append(ledger, row) /\ balance' = TrialCredits /\ walletExists'
    BY <1>1, <1>3 DEF InsertWallet, LedgerWithTrialRow
  <2> HIDE DEF row
  <2>5. TrialRows'
    BY <1>2, <2>2, <2>3, <2>4, Appended DEF TrialRows, TrialInv
  <2>6. TrialGiven' /\ Applied' = Applied
    BY <1>2, <2>2, <2>3, <2>4, AppendedAccount DEF Counts
  <2> QED
    BY <1>1, <2>1, <2>4, <2>5, <2>6
<1>4. CASE ~trialDue[r]
  <2>1. ledger' = ledger /\ balance' = 0 /\ walletExists'
    BY <1>1, <1>4 DEF InsertWallet, LedgerWithTrialRow
  <2>2. TrialCredits = 0 \/ TrialGiven
    BY <1>1, <1>4 DEF TrialInv
  <2> QED
    BY <1>1, <2>1, <2>2 DEF TrialGiven, Applied, Counts, Indexed, TrialRows, TrialInv
<1> QED
  BY <1>2, <1>3, <1>4

\* Steps that take nobody to the creation.
LEMMA TrialFrame ==
    ASSUME LockInv, TrialInv, TrialRows', TrialGiven => TrialGiven', trialDue' = trialDue,
           \A q \in Requests : pc'[q] = "create" => pc[q] = "create"
    PROVE  TrialInv'
BY DEF TrialInv, TrialRows

LEMMA TrialStep == LockInv /\ TrialInv /\ [Next]_vars => TrialInv'
<1> SUFFICES ASSUME LockInv, TrialInv, [Next]_vars PROVE TrialInv'
  OBVIOUS
<1>1. pc \in [Requests -> Steps]
  BY DEF LockInv, TypeOK, RequestTypeOK
<1>2. ledger' = ledger => TrialRows' /\ (TrialGiven <=> TrialGiven')
  BY DEF TrialInv, TrialRows, TrialGiven
<1>3. CASE UNCHANGED vars
  BY <1>2, <1>3, TrialFrame DEF vars, wallet, local
<1>4. ASSUME NEW r \in Requests,
             \/ Begin(r) \/ FindWallet(r) \/ LockWallet(r) \/ AggregateOperatorGrants(r)
             \/ Refuse(r) \/ WarnIfBalanceLow(r) \/ SumLedger(r) \/ Crash(r)
      PROVE  TrialInv'
  <2>1. ledger' = ledger /\ trialDue' = trialDue
    BY <1>4 DEF Begin, FindWallet, LockWallet, AggregateOperatorGrants, Refuse, WarnIfBalanceLow, SumLedger, Crash, wallet, local
  <2>2. \A q \in Requests : pc'[q] = "create" => pc[q] = "create"
    BY <1>1, <1>4 DEF Begin, FindWallet, LockWallet, AggregateOperatorGrants, Refuse, WarnIfBalanceLow, SumLedger, Crash,
                      Goto, AfterEnsure
  <2> QED
    BY <1>2, <2>1, <2>2, TrialFrame
<1>5. ASSUME NEW r \in Requests, CheckTrial(r) PROVE TrialInv'
  <2>1. /\ ledger' = ledger
        /\ trialDue' = [trialDue EXCEPT ![r] = TrialCredits > 0 /\ ~TrialGiven]
        /\ pc' = [pc EXCEPT ![r] = "create"]
    BY <1>5 DEF CheckTrial, Goto, wallet, TrialGiven
  <2>2. TrialCredits > 0 \/ TrialCredits = 0
    OBVIOUS
  <2>3. trialDue \in [Requests -> BOOLEAN]
    BY DEF LockInv, TypeOK, RequestTypeOK
  <2>4. ASSUME NEW q \in Requests, pc'[q] = "create"
        PROVE  IF trialDue'[q] THEN TrialCredits > 0 ELSE TrialCredits = 0 \/ TrialGiven
    BY <1>1, <2>1, <2>2, <2>3, <2>4 DEF TrialInv
  <2> QED
    BY <1>2, <2>1, <2>4 DEF TrialInv, TrialRows
<1>6. ASSUME NEW r \in Requests, CreateWallet(r) PROVE TrialInv'
  <2>1. trialDue' = trialDue /\ \A q \in Requests : pc'[q] = "create" => pc[q] = "create"
    BY <1>1, <1>6 DEF CreateWallet, Goto, AfterEnsure
  <2>2. CASE walletExists' = walletExists
    <3>1. ledger' = ledger
      BY <1>6, <2>2 DEF CreateWallet, InsertWallet, wallet
    <3> QED
      BY <1>2, <2>1, <3>1, TrialFrame
  <2>3. CASE walletExists' # walletExists
    BY <1>6, <2>1, <2>3, CreatedAccount, TrialFrame
  <2> QED
    BY <2>2, <2>3
<1>7. ASSUME NEW r \in Requests, Spend(r) PROVE TrialInv'
  <2>1. trialDue' = trialDue /\ \A q \in Requests : pc'[q] = "create" => pc[q] = "create"
    BY <1>1, <1>7 DEF Spend, Goto
  <2>2. TrialRows' /\ (TrialGiven' <=> TrialGiven)
    BY <1>7, SpendsWhatThereIs, AppliedAccount DEF Spend
  <2> QED
    BY <2>1, <2>2, TrialFrame
<1>8. ASSUME NEW r \in Requests, AppendCredit(r) PROVE TrialInv'
  <2>1. trialDue' = trialDue /\ \A q \in Requests : pc'[q] = "create" => pc[q] = "create"
    BY <1>1, <1>8 DEF AppendCredit, Goto, local
  <2>2. TrialRows' /\ (TrialGiven' <=> TrialGiven)
    BY <1>8, CreditsSomethingNew, AppliedAccount DEF AppendCredit
  <2> QED
    BY <2>1, <2>2, TrialFrame
<1>9. CASE DeleteWallet \/ Tick
  BY <1>2, <1>9, TrialFrame DEF DeleteWallet, Tick, wallet, local
<1> QED
  BY <1>3, <1>4, <1>5, <1>6, <1>7, <1>8, <1>9 DEF Next, Step

\* A step that leaves the wallet and the ledger alone leaves the account alone.
LEMMA AccountUnmoved ==
    ASSUME UNCHANGED <<walletExists, balance, ledger>>
    PROVE  UNCHANGED Account!accountVars
BY DEF Account!accountVars, Indexed

LEMMA AccountBegins == Init => Account!AccountInit
BY DEF Init, Account!AccountInit

LEMMA CreditIsAStep ==
    ASSUME NEW key \in (ReferenceTypes \ {"none"}) \X Ids, Account!CreditOnce(key)
    PROVE  Account!AccountNext
BY Zenon DEF Account!AccountNext

LEMMA AccountMoves == LockInv /\ TrialInv /\ [Next]_vars => [Account!AccountNext]_(Account!accountVars)
<1> SUFFICES ASSUME LockInv, TrialInv, [Next]_vars PROVE Account!AccountNext \/ UNCHANGED Account!accountVars
  OBVIOUS
<1> DEFINE keys == (ReferenceTypes \ {"none"}) \X Ids
<1>1. balance \in Nat /\ walletExists \in BOOLEAN
  BY DEF LockInv, TypeOK, WalletTypeOK
<1>2. CASE UNCHANGED <<walletExists, balance, ledger>>
  BY <1>2, AccountUnmoved
<1>3. ASSUME NEW r \in Requests, CreateWallet(r), walletExists' # walletExists PROVE Account!Open
  BY <1>3, CreatedAccount DEF Account!Open, TrialGiven, Applied, Counts
<1>4. ASSUME NEW r \in Requests, Spend(r) PROVE Account!Debit
  <2>1. ~Indexed("DEBIT", job[r].operation, job[r].refType, job[r].refId)
    BY DEF Indexed
  <2>2. /\ walletExists /\ walletExists' /\ (TrialGiven' <=> TrialGiven) /\ Applied' = Applied
        /\ balance' = balance - job[r].amount /\ job[r].amount \in 1 .. balance
    <3>1. pc[r] = "apply" /\ ApplyRow(r, "DEBIT")
      BY <1>4 DEF Spend
    <3>2. job[r].amount \in Nat \ {0} /\ job[r].amount <= seen[r]
      BY <1>4, SpendsWhatThereIs
    <3>3. /\ walletExists /\ walletExists' /\ (TrialGiven' <=> TrialGiven) /\ Applied' = Applied
          /\ balance' = balance - job[r].amount /\ job[r].amount <= balance
      BY <2>1, <3>1, <3>2, AppliedAccount
    <3> QED
      BY <1>1, <3>2, <3>3
  <2> QED
    BY <2>2 DEF Account!Debit, TrialGiven, Applied, Counts
<1>5. ASSUME NEW r \in Requests, AppendCredit(r) PROVE Account!AccountNext
  <2>0. PICK key : key = <<job[r].refType, job[r].refId>>
    OBVIOUS
  <2> DEFINE covered == Indexed("CREDIT", job[r].operation, job[r].refType, job[r].refId)
  <2>1. /\ walletExists /\ walletExists' /\ (TrialGiven' <=> TrialGiven)
        /\ balance' = balance + job[r].amount /\ job[r].amount \in Nat \ {0}
        /\ ~covered => Applied' = Applied
        /\ covered => Applied' = Applied \union {key}
    BY <1>5, <2>0, CreditsSomethingNew, AppliedAccount DEF AppendCredit
  <2>2. balance' \in Nat /\ balance' > balance
    BY <1>1, <2>1
  <2>3. CASE ~covered
    BY <2>1, <2>2, <2>3 DEF Account!AccountNext, Account!CreditFreely, TrialGiven, Applied, Counts
  <2>4. CASE covered
    <3>1. key \in keys
      <4>1. job[r] \in Job
        BY DEF LockInv, TypeOK, RequestTypeOK
      <4> QED
        BY <2>0, <2>4, <4>1 DEF Job, Indexed
    <3>2. key \notin Applied
      BY <1>5, <2>0, <2>4, CreditsSomethingNew DEF KeyTaken, Indexed, Applied, Counts
    <3>3. Account!CreditOnce(key)
      BY <2>1, <2>2, <2>4, <3>2 DEF Account!CreditOnce, TrialGiven, Applied, Counts
    <3> QED
      BY <3>1, <3>3, CreditIsAStep
  <2> QED
    BY <2>3, <2>4
<1>6. CASE DeleteWallet
  BY <1>6 DEF DeleteWallet, Account!Close, Account!AccountNext, Indexed
<1>7. ASSUME NEW r \in Requests, CreateWallet(r), walletExists' = walletExists PROVE UNCHANGED <<walletExists, balance, ledger>>
  BY <1>7 DEF CreateWallet, InsertWallet, wallet
<1>8. ASSUME NEW r \in Requests,
             \/ Begin(r) \/ FindWallet(r) \/ CheckTrial(r) \/ LockWallet(r) \/ AggregateOperatorGrants(r)
             \/ Refuse(r) \/ WarnIfBalanceLow(r) \/ SumLedger(r) \/ Crash(r)
      PROVE  UNCHANGED <<walletExists, balance, ledger>>
  BY <1>8 DEF Begin, FindWallet, CheckTrial, LockWallet, AggregateOperatorGrants, Refuse,
              WarnIfBalanceLow, SumLedger, Crash, wallet
<1>9. CASE Tick \/ UNCHANGED vars
  BY <1>2, <1>9 DEF Tick, vars, wallet
<1> QED
  BY <1>2, <1>3, <1>4, <1>5, <1>6, <1>7, <1>8, <1>9 DEF Next, Step, Account!AccountNext

(* Every behaviour of the ledger is one of the abstract account: charges     *)
(* come out of what there is, a reference and the trial count once, and      *)
(* nothing else moves the balance, for any requests and any crashes.         *)
THEOREM LedgerImplementsAccount == Spec => ImplementsAccount
<1>1. Spec => []TrialInv
  BY TrialInit, TrialStep, LockInvAlways, PTL DEF Spec
<1> QED
  BY <1>1, AccountBegins, AccountMoves, LockInvAlways, PTL DEF Spec, ImplementsAccount, Account!AccountSpec

-------------------------------------------------------------------------------
(* Announcements *)

OnlyDebits(first, last) == \A c \in DOMAIN ledger : first < c /\ c < last => ledger[c].type = "DEBIT"

(* Without a credit the balance only falls, also when the wallet is taken    *)
(* away by hand.                                                             *)
Falls ==
    /\ \A i, k \in DOMAIN ledger : i < k /\ OnlyDebits(i, k) => ledger[k].before <= ledger[i].after
    /\ \A i \in DOMAIN ledger : OnlyDebits(i, Len(ledger) + 1) => balance <= ledger[i].after

Crosses(kind, row) ==
    IF kind = "exhausted" THEN row.after <= 0 /\ row.before > 0 ELSE row.after <= Threshold /\ row.before > Threshold

(* Each charge is announced by the request that made it, once.               *)
Announces ==
    /\ \A r \in Requests : pc[r] = "warn" =>
          /\ charge[r] \in DOMAIN ledger
          /\ \A q \in Requests : pc[q] = "warn" /\ charge[q] = charge[r] => q = r
          /\ \A i \in DOMAIN announced : announced[i][2] # charge[r]
    /\ \A i \in DOMAIN announced :
          /\ announced[i][2] \in DOMAIN ledger
          /\ Crosses(announced[i][1], ledger[announced[i][2]])
          /\ \A k \in DOMAIN announced : k # i => announced[k][2] # announced[i][2]

LEMMA RowsInRange ==
    ASSUME ledger \in Seq(Row), NEW i \in DOMAIN ledger
    PROVE  ledger[i].before \in Nat /\ ledger[i].after \in Nat /\ ledger[i].type \in {"CREDIT", "DEBIT"}
<1>1. ledger[i] \in Row
  OBVIOUS
<1> QED
  BY <1>1 DEF Row

LEMMA FallsInit == Init => Falls
BY DEF Init, Falls

LEMMA FallsStep == LockInv /\ Falls /\ [Next]_vars => Falls'
<1> SUFFICES ASSUME LockInv, Falls, [Next]_vars PROVE Falls'
  OBVIOUS
<1>0. ledger \in Seq(Row) /\ balance \in Nat
  BY DEF LockInv, TypeOK, WalletTypeOK
<1>1. CASE Keeps
  <2>1. \A i \in DOMAIN ledger : ledger[i].after \in Nat
    BY <1>0, RowsInRange
  <2> QED
    BY <1>0, <1>1, <2>1 DEF Keeps, Falls, OnlyDebits
<1>2. CASE Grows
  <2>1. PICK type \in {"CREDIT", "DEBIT"}, operation \in Operations, amount \in Nat,
             refType \in ReferenceTypes, refId \in Ids \union {NoId, TenantId} :
           /\ ledger' = Append(ledger, NewRow(type, operation, amount, balance, refType, refId))
           /\ balance' = NewRow(type, operation, amount, balance, refType, refId).after
    BY <1>2 DEF Grows
  <2>0. PICK last \in Nat : last = Len(ledger) + 1
    BY <1>0
  <2> DEFINE row == NewRow(type, operation, amount, balance, refType, refId)
  <2>2. /\ row.before = balance /\ row.type = type /\ row.after = IF type = "CREDIT" THEN balance + amount ELSE balance - amount
    BY DEF NewRow
  <2>3. ledger' = Append(ledger, row) /\ balance' = row.after
    BY <2>1
  <2> HIDE DEF row
  <2>4. /\ DOMAIN ledger' = 1 .. last /\ Len(ledger') = last
        /\ ledger'[last] = row
        /\ \A i \in 1 .. Len(ledger) : ledger'[i] = ledger[i]
        /\ DOMAIN ledger = 1 .. Len(ledger) /\ Len(ledger) \in Nat
    BY <1>0, <2>0, <2>3
  <2>5. ASSUME NEW i \in DOMAIN ledger, NEW k \in DOMAIN ledger, i < k, OnlyDebits(i, k)'
        PROVE  ledger'[k].before <= ledger'[i].after
    <3>1. OnlyDebits(i, k)
      BY <2>0, <2>4, <2>5 DEF OnlyDebits
    <3> QED
      BY <2>4, <2>5, <3>1 DEF Falls
  <2>6. ASSUME NEW i \in DOMAIN ledger, OnlyDebits(i, last)'
        PROVE  balance <= ledger[i].after /\ ledger'[i].after = ledger[i].after
    <3>1. OnlyDebits(i, last)
      BY <2>0, <2>4, <2>6 DEF OnlyDebits
    <3> QED
      BY <2>0, <2>4, <2>6, <3>1 DEF Falls
  <2>7. ASSUME NEW i \in DOMAIN ledger', OnlyDebits(i, last + 1)' PROVE balance' <= ledger'[i].after
    <3>1. CASE i = last
      <4>1. balance' \in Int
        BY <1>0, <2>2, <2>3
      <4> QED
        BY <2>3, <2>4, <3>1, <4>1
    <3>2. CASE i \in DOMAIN ledger
      <4>1. OnlyDebits(i, last)' /\ row.type = "DEBIT"
        BY <2>0, <2>4, <2>7, <3>2 DEF OnlyDebits
      <4>2. balance <= ledger[i].after /\ ledger'[i].after = ledger[i].after
        BY <2>6, <3>2, <4>1
      <4>3. balance' <= balance /\ balance' \in Int /\ ledger[i].after \in Int
        <5>1. ledger[i].after \in Nat
          BY <1>0, <3>2, RowsInRange
        <5>2. balance' = balance - amount
          BY <2>2, <2>3, <4>1
        <5> QED
          BY <1>0, <5>1, <5>2
      <4>4. \A x, y, z \in Int : x <= y /\ y <= z => x <= z
        OBVIOUS
      <4> QED
        BY <1>0, <4>2, <4>3, <4>4
    <3> QED
      BY <2>0, <2>4, <2>7, <3>1, <3>2
  <2>8. ASSUME NEW i \in DOMAIN ledger', NEW k \in DOMAIN ledger', i < k, OnlyDebits(i, k)'
        PROVE  ledger'[k].before <= ledger'[i].after
    <3>1. CASE k = last
      <4>1. i \in DOMAIN ledger
        BY <2>0, <2>4, <2>8, <3>1
      <4> QED
        BY <2>2, <2>4, <2>6, <2>8, <3>1, <4>1
    <3>2. CASE k \in DOMAIN ledger
      BY <2>4, <2>5, <2>8, <3>2
    <3> QED
      BY <2>0, <2>4, <2>8, <3>1, <3>2
  <2>9. ASSUME NEW i \in DOMAIN ledger', OnlyDebits(i, Len(ledger) + 1)' PROVE balance' <= ledger'[i].after
    BY <2>4, <2>7, <2>9 DEF OnlyDebits
  <2> QED
    BY <2>8, <2>9 DEF Falls, OnlyDebits
<1> QED
  BY <1>1, <1>2, StepOnLedger

LEMMA AnnouncesInit == Init => Announces
BY DEF Init, Announces

\* Steps that neither charge nor announce: rows stay, and nobody comes to announce.
LEMMA AnnouncesFrame ==
    ASSUME Announces, announced' = announced, charge' = charge, Keeps \/ Grows, ledger \in Seq(Row),
           \A q \in Requests : pc'[q] = "warn" => pc[q] = "warn"
    PROVE  Announces'
<1>1. DOMAIN ledger \subseteq DOMAIN ledger' /\ \A i \in DOMAIN ledger : ledger'[i] = ledger[i]
  <2>1. CASE Keeps
    BY <2>1 DEF Keeps
  <2>2. CASE Grows
    <3>1. PICK row : ledger' = Append(ledger, row)
      BY <2>2 DEF Grows
    <3> QED
      BY <3>1
  <2> QED
    BY <2>1, <2>2
<1> QED
  BY <1>1 DEF Announces, Crosses

LEMMA AnnouncesStep == LockInv /\ Announces /\ [Next]_vars => Announces'
<1> SUFFICES ASSUME LockInv, Announces, [Next]_vars PROVE Announces'
  OBVIOUS
<1>0. /\ ledger \in Seq(Row) /\ announced \in Seq(Announcement)
      /\ pc \in [Requests -> Steps] /\ charge \in [Requests -> Nat]
  BY DEF LockInv, TypeOK, WalletTypeOK, RequestTypeOK
<1>1. Keeps \/ Grows
  BY StepOnLedger
<1>2. ASSUME NEW r \in Requests, Spend(r) PROVE Announces'
  <2>1. PICK row : ledger' = Append(ledger, row)
    BY <1>2 DEF Spend, ApplyRow
  <2> DEFINE last == Len(ledger) + 1
  <2>2. /\ DOMAIN ledger' = DOMAIN ledger \union {last} /\ last \notin DOMAIN ledger
        /\ \A i \in DOMAIN ledger : ledger'[i] = ledger[i]
    BY <1>0, <2>1
  <2>3. /\ announced' = announced /\ charge' = [charge EXCEPT ![r] = last] /\ pc' = [pc EXCEPT ![r] = "warn"] /\ pc[r] = "apply"
    BY <1>2 DEF Spend, Goto
  <2> HIDE DEF last
  <2>4. ASSUME NEW q \in Requests, pc'[q] = "warn"
        PROVE  /\ charge'[q] \in DOMAIN ledger'
               /\ \A p \in Requests : pc'[p] = "warn" /\ charge'[p] = charge'[q] => p = q
               /\ \A i \in DOMAIN announced' : announced'[i][2] # charge'[q]
    BY <1>0, <2>2, <2>3, <2>4 DEF Announces
  <2>5. ASSUME NEW i \in DOMAIN announced'
        PROVE  /\ announced'[i][2] \in DOMAIN ledger'
               /\ Crosses(announced'[i][1], ledger'[announced'[i][2]])
               /\ \A k \in DOMAIN announced' : k # i => announced'[k][2] # announced'[i][2]
    BY <2>2, <2>3, <2>5 DEF Announces
  <2> QED
    BY <2>4, <2>5 DEF Announces, Crosses
<1>3. ASSUME NEW r \in Requests, WarnIfBalanceLow(r) PROVE Announces'
  <2>1. /\ ledger' = ledger /\ charge' = charge /\ pc' = [pc EXCEPT ![r] = "done"] /\ pc[r] = "warn"
    BY <1>3 DEF WarnIfBalanceLow, Goto, wallet, local
  <2>2. \A q \in Requests : pc'[q] = "warn" => q # r /\ pc[q] = "warn"
    BY <1>0, <2>1
  <2>3. CASE announced' = announced
    BY <1>0, <1>1, <2>1, <2>2, <2>3, AnnouncesFrame
  <2>4. ASSUME NEW kind \in Crossing(ledger[charge[r]]), announced' = Append(announced, <<kind, charge[r]>>) PROVE Announces'
    <3> DEFINE last == Len(announced) + 1
    <3>1. /\ DOMAIN announced' = DOMAIN announced \union {last} /\ last \notin DOMAIN announced
          /\ \A i \in DOMAIN announced : announced'[i] = announced[i]
          /\ announced'[last] = <<kind, charge[r]>>
      BY <1>0, <2>4
    <3> HIDE DEF last
    <3>2. charge[r] \in DOMAIN ledger /\ \A i \in DOMAIN announced : announced[i][2] # charge[r]
      BY <2>1 DEF Announces
    <3>3. Crosses(kind, ledger[charge[r]])
      BY <2>4 DEF Crossing, Crosses
    <3>4. announced'[last][1] = kind /\ announced'[last][2] = charge[r]
      BY <3>1
    <3>5. ASSUME NEW i \in DOMAIN announced'
          PROVE  /\ announced'[i][2] \in DOMAIN ledger'
                 /\ Crosses(announced'[i][1], ledger'[announced'[i][2]])
                 /\ \A k \in DOMAIN announced' : k # i => announced'[k][2] # announced'[i][2]
      <4>1. CASE i = last
        BY <2>1, <3>1, <3>2, <3>3, <3>4, <4>1
      <4>2. CASE i # last
        BY <2>1, <3>1, <3>2, <3>4, <3>5, <4>2 DEF Announces
      <4> QED
        BY <4>1, <4>2
    <3>6. ASSUME NEW q \in Requests, pc'[q] = "warn"
          PROVE  /\ charge'[q] \in DOMAIN ledger'
                 /\ \A p \in Requests : pc'[p] = "warn" /\ charge'[p] = charge'[q] => p = q
                 /\ \A i \in DOMAIN announced' : announced'[i][2] # charge'[q]
      BY <2>1, <2>2, <3>1, <3>4, <3>6 DEF Announces
    <3> QED
      BY <3>5, <3>6 DEF Announces, Crosses
  <2> QED
    BY <1>3, <2>3, <2>4 DEF WarnIfBalanceLow
<1>4. ASSUME NEW r \in Requests,
             \/ Begin(r) \/ FindWallet(r) \/ CheckTrial(r) \/ CreateWallet(r) \/ LockWallet(r) \/ AggregateOperatorGrants(r)
             \/ Refuse(r) \/ AppendCredit(r) \/ SumLedger(r) \/ Crash(r)
      PROVE  Announces'
  <2>1. announced' = announced /\ charge' = charge
    BY <1>4 DEF Begin, FindWallet, CheckTrial, CreateWallet, LockWallet, AggregateOperatorGrants, Refuse, AppendCredit,
                SumLedger, Crash, local
  <2>2. \A q \in Requests : pc'[q] = "warn" => pc[q] = "warn"
    BY <1>0, <1>4 DEF Begin, FindWallet, CheckTrial, CreateWallet, LockWallet, AggregateOperatorGrants, Refuse, AppendCredit,
                      SumLedger, Crash, Goto, AfterEnsure
  <2> QED
    BY <1>0, <1>1, <2>1, <2>2, AnnouncesFrame
<1>5. CASE DeleteWallet \/ Tick \/ UNCHANGED vars
  BY <1>0, <1>1, <1>5, AnnouncesFrame DEF DeleteWallet, Tick, vars, local
<1> QED
  BY <1>2, <1>3, <1>4, <1>5 DEF Next, Step

(* "Integrations hear about the crossing, not every charge after it", for    *)
(* any number of charges announced in any order.                             *)
THEOREM CrossingsAreAnnouncedOnce == Spec => []CrossingsAnnouncedOnce
<1>1. LockInv /\ Falls /\ Announces => CrossingsAnnouncedOnce
  <2> SUFFICES ASSUME LockInv, Falls, Announces PROVE CrossingsAnnouncedOnce
    OBVIOUS
  <2>1. ledger \in Seq(Row)
    BY DEF LockInv, TypeOK, WalletTypeOK
  <2>2. ASSUME NEW kind, NEW a \in DOMAIN ledger, NEW b \in DOMAIN ledger, a < b,
               Crosses(kind, ledger[a]), Crosses(kind, ledger[b])
        PROVE  \E c \in DOMAIN ledger : ledger[c].type = "CREDIT" /\ a < c /\ c < b
    <3>1. ledger[b].before > ledger[a].after
      <4>1. ledger[a].after \in Nat /\ ledger[b].before \in Nat
        BY <2>1, RowsInRange
      <4> QED
        BY <2>2, <4>1 DEF Crosses
    <3>2. ~OnlyDebits(a, b)
      <4>1. ledger[a].after \in Nat /\ ledger[b].before \in Nat
        BY <2>1, RowsInRange
      <4> QED
        BY <2>2, <3>1, <4>1 DEF Falls
    <3> QED
      BY <2>1, <3>2, RowsInRange DEF OnlyDebits
  <2>3. ASSUME NEW i \in DOMAIN announced, NEW k \in DOMAIN announced, i # k, announced[i][1] = announced[k][1]
        PROVE  \E c \in DOMAIN ledger :
                  /\ ledger[c].type = "CREDIT"
                  /\ \/ announced[i][2] < c /\ c < announced[k][2]
                     \/ announced[k][2] < c /\ c < announced[i][2]
    <3> DEFINE a == announced[i][2]
               b == announced[k][2]
    <3>1. /\ a \in DOMAIN ledger /\ b \in DOMAIN ledger /\ a # b
          /\ Crosses(announced[i][1], ledger[a]) /\ Crosses(announced[i][1], ledger[b])
      BY <2>3 DEF Announces
    <3>2. a < b \/ b < a
      BY <2>1, <3>1
    <3> HIDE DEF a, b
    <3>3. \E c \in DOMAIN ledger : ledger[c].type = "CREDIT" /\ ((a < c /\ c < b) \/ (b < c /\ c < a))
      BY <2>2, <3>1, <3>2
    <3> QED
      BY <3>3 DEF a, b
  <2> QED
    BY <2>3 DEF CrossingsAnnouncedOnce
<1> QED
  BY <1>1, FallsInit, FallsStep, AnnouncesInit, AnnouncesStep, LockInvAlways, PTL DEF Spec

-------------------------------------------------------------------------------
(* What a sum over rows is.  SumOver folds over a set, one row that CHOOSE   *)
(* picks after the other; the lemmas say that a fold adds up, that the order *)
(* of the rows makes no difference, and what one more row or fewer rows do.  *)
(* Each argues from a smallest set of rows for which it would fail.          *)
Pick(s) == CHOOSE x \in s : TRUE

\* F adds up the amounts a over the subsets of S.
AddsUp(F, a, S) ==
    /\ F = [s \in SUBSET S |-> F[s]]
    /\ \A s \in SUBSET S : F[s] = IF s = {} THEN 0 ELSE a[Pick(s)] + F[s \ {Pick(s)}]

RowSum(rows, S) == MapThenSumSet(LAMBDA i : rows[i].amount, S)

LEMMA PickIs == ASSUME NEW s, s # {} PROVE Pick(s) \in s
BY DEF Pick

\* Of the subsets of a finite set that are in T there is one without a smaller one.
LEMMA Smallest ==
    ASSUME NEW S, IsFiniteSet(S), NEW T, T \subseteq SUBSET S, T # {}
    PROVE  \E t \in T : \A u \in T : u \subseteq t => u = t
<1>1. FiniteSubsetsOf(S) = SUBSET S
  BY FS_Subset DEF FiniteSubsetsOf
<1>2. IsWellFoundedOn(StrictSubsetOrdering(S), FiniteSubsetsOf(S))
  BY FS_StrictSubsetOrderingWellFounded
<1>3. \E t \in T : \A u \in T : ~ (<<u, t>> \in StrictSubsetOrdering(S))
  BY <1>1, <1>2, WFMin
<1> QED
  BY <1>3 DEF StrictSubsetOrdering

\* There is one way to add up.
LEMMA OneSum ==
    ASSUME NEW S, IsFiniteSet(S), NEW R, NEW a, NEW b, NEW F, NEW G, AddsUp(F, a, S), AddsUp(G, b, R),
           \A i \in S \intersect R : a[i] = b[i],
           NEW s, s \subseteq S, s \subseteq R
    PROVE  F[s] = G[s]
<1> DEFINE T == {t \in SUBSET S : t \subseteq R /\ F[t] # G[t]}
<1> SUFFICES ASSUME s \in T PROVE FALSE
  OBVIOUS
<1>1. PICK t \in T : \A u \in T : u \subseteq t => u = t
  <2> HIDE DEF T
  <2>1. T \subseteq SUBSET S
    BY DEF T
  <2> QED
    BY <2>1, Smallest
<1>2. CASE t = {}
  BY <1>2 DEF AddsUp
<1>3. CASE t # {}
  <2> DEFINE x == Pick(t)
  <2> DEFINE u == t \ {x}
  <2>1. x \in t
    BY <1>3, PickIs
  <2>2. u \subseteq t /\ u # t /\ u \in SUBSET S /\ u \subseteq R
    BY <2>1
  <2>3. F[u] = G[u]
    BY <1>1, <2>2
  <2>4. F[t] = a[x] + F[u] /\ G[t] = b[x] + G[u]
    BY <1>3 DEF AddsUp
  <2>5. a[x] = b[x]
    BY <2>1
  <2> QED
    BY <2>3, <2>4, <2>5
<1> QED
  BY <1>2, <1>3

\* And there is a way.
LEMMA SumExists ==
    ASSUME NEW S, IsFiniteSet(S), NEW a
    PROVE  \E F : AddsUp(F, a, S)
<1> DEFINE T == {t \in SUBSET S : ~\E F : AddsUp(F, a, t)}
<1> SUFFICES ASSUME S \in T PROVE FALSE
  OBVIOUS
<1>1. PICK t \in T : \A u \in T : u \subseteq t => u = t
  <2> HIDE DEF T
  <2>1. T \subseteq SUBSET S
    BY DEF T
  <2> QED
    BY <2>1, Smallest
<1>2. \A u \in SUBSET t : u # t => \E F : AddsUp(F, a, u)
  BY <1>1
<1> DEFINE Sum(u) == CHOOSE F : AddsUp(F, a, u)
<1>3. \A u \in SUBSET t : u # t => AddsUp(Sum(u), a, u)
  BY <1>2
<1> HIDE DEF Sum
<1> DEFINE below(s) == Sum(s \ {Pick(s)})[s \ {Pick(s)}]
<1> DEFINE H == [s \in SUBSET t |-> IF s = {} THEN 0 ELSE a[Pick(s)] + below(s)]
<1>4. ASSUME NEW u \in SUBSET t, u # t PROVE H[u] = Sum(u)[u]
  <2>1. AddsUp(Sum(u), a, u)
    BY <1>3, <1>4
  <2>2. CASE u = {}
    BY <2>1, <2>2 DEF AddsUp
  <2>3. CASE u # {}
    <3> DEFINE v == u \ {Pick(u)}
    <3>1. v \in SUBSET u /\ v \in SUBSET t /\ v # t
      BY <2>3, PickIs
    <3>2. AddsUp(Sum(v), a, v) /\ IsFiniteSet(v)
      BY <1>1, <1>3, <3>1, FS_Subset
    <3>3. Sum(v)[v] = Sum(u)[v]
      <4> HIDE DEF v
      <4> QED
        BY <2>1, <3>1, <3>2, OneSum
    <3>4. Sum(u)[u] = a[Pick(u)] + Sum(u)[v]
      BY <2>1, <2>3 DEF AddsUp
    <3> QED
      BY <2>3, <3>3, <3>4
  <2> QED
    BY <2>2, <2>3
<1>5. AddsUp(H, a, t)
  <2>1. \A s \in SUBSET t : H[s] = IF s = {} THEN 0 ELSE a[Pick(s)] + H[s \ {Pick(s)}]
    <3> TAKE s \in SUBSET t
    <3>1. CASE s = {}
      BY <3>1
    <3>2. CASE s # {}
      <4>1. s \ {Pick(s)} \in SUBSET t /\ s \ {Pick(s)} # t
        BY <3>2, PickIs
      <4>2. H[s \ {Pick(s)}] = below(s)
        BY <1>4, <4>1
      <4>3. H[s] = a[Pick(s)] + below(s)
        BY <3>2
      <4> QED
        BY <3>2, <4>2, <4>3
    <3> QED
      BY <3>1, <3>2
  <2>2. H = [s \in SUBSET t |-> H[s]]
    OBVIOUS
  <2> HIDE DEF H
  <2> QED
    BY <2>1, <2>2 DEF AddsUp
<1> QED
  BY <1>1, <1>5

\* The fold over a set of rows adds up their amounts.
LEMMA FoldAddsUp ==
    ASSUME NEW rows, NEW S, IsFiniteSet(S)
    PROVE  \E F : AddsUp(F, [i \in S |-> rows[i].amount], S) /\ RowSum(rows, S) = F[S]
<1> DEFINE a == [i \in S |-> rows[i].amount]
<1> DEFINE iter == CHOOSE iter : iter = [s \in SUBSET S |-> IF s = {} THEN 0
                                           ELSE rows[CHOOSE x \in s : TRUE].amount + iter[s \ {CHOOSE x \in s : TRUE}]]
<1>1. RowSum(rows, S) = iter[S]
  BY DEF RowSum, MapThenSumSet, MapThenFoldSet
<1>2. PICK F : AddsUp(F, a, S)
  BY SumExists
<1>3. F = [s \in SUBSET S |-> IF s = {} THEN 0 ELSE rows[CHOOSE x \in s : TRUE].amount + F[s \ {CHOOSE x \in s : TRUE}]]
  <2>1. ASSUME NEW s \in SUBSET S, s # {}
        PROVE  F[s] = rows[CHOOSE x \in s : TRUE].amount + F[s \ {CHOOSE x \in s : TRUE}]
    <3>1. Pick(s) \in S
      BY <2>1, PickIs
    <3> QED
      BY <1>2, <2>1, <3>1 DEF AddsUp, Pick
  <2> QED
    BY <1>2, <2>1 DEF AddsUp
<1>4. iter = [s \in SUBSET S |-> IF s = {} THEN 0
                ELSE rows[CHOOSE x \in s : TRUE].amount + iter[s \ {CHOOSE x \in s : TRUE}]]
  BY ONLY <1>3 DEF iter
<1> HIDE DEF iter
<1>5. AddsUp(iter, a, S)
  <2>1. ASSUME NEW s \in SUBSET S, s # {} PROVE iter[s] = a[Pick(s)] + iter[s \ {Pick(s)}]
    <3>1. Pick(s) \in S
      BY <2>1, PickIs
    <3>2. iter[s] = rows[CHOOSE x \in s : TRUE].amount + iter[s \ {CHOOSE x \in s : TRUE}]
      BY <1>4, <2>1
    <3> QED
      BY <3>1, <3>2 DEF Pick
  <2>2. iter = [s \in SUBSET S |-> iter[s]]
    BY <1>4
  <2>3. iter[{}] = 0
    BY <1>4
  <2> HIDE DEF a
  <2> QED
    BY <2>1, <2>2, <2>3 DEF AddsUp
<1> QED
  BY <1>1, <1>5

\* Sums of the same amounts are the same.
LEMMA SameSum ==
    ASSUME NEW S, IsFiniteSet(S), NEW rows, NEW others, \A i \in S : rows[i].amount = others[i].amount
    PROVE  RowSum(rows, S) = RowSum(others, S)
<1>1. PICK F : AddsUp(F, [i \in S |-> rows[i].amount], S) /\ RowSum(rows, S) = F[S]
  BY FoldAddsUp
<1>2. PICK G : AddsUp(G, [i \in S |-> others[i].amount], S) /\ RowSum(others, S) = G[S]
  BY FoldAddsUp
<1>3. F[S] = G[S]
  <2> DEFINE a == [i \in S |-> rows[i].amount]
  <2> DEFINE b == [i \in S |-> others[i].amount]
  <2>1. \A i \in S \intersect S : a[i] = b[i]
    OBVIOUS
  <2> HIDE DEF a, b
  <2>2. AddsUp(F, a, S) /\ AddsUp(G, b, S)
    BY <1>1, <1>2 DEF a, b
  <2> QED
    BY <2>1, <2>2, OneSum
<1> QED
  BY <1>1, <1>2, <1>3

LEMMA EmptySum == ASSUME NEW rows PROVE RowSum(rows, {}) = 0
<1>1. PICK F : AddsUp(F, [i \in {} |-> rows[i].amount], {}) /\ RowSum(rows, {}) = F[{}]
  BY FoldAddsUp, FS_EmptySet
<1> QED
  BY <1>1 DEF AddsUp

\* A sum over part of the rows is the value there of the function that adds up over all.
LEMMA PartSum ==
    ASSUME NEW S, IsFiniteSet(S), NEW rows, NEW F, AddsUp(F, [i \in S |-> rows[i].amount], S), NEW s \in SUBSET S
    PROVE  RowSum(rows, s) = F[s]
<1> DEFINE a == [i \in S |-> rows[i].amount]
<1> DEFINE b == [i \in s |-> rows[i].amount]
<1>1. IsFiniteSet(s)
  BY FS_Subset
<1>2. PICK G : AddsUp(G, b, s) /\ RowSum(rows, s) = G[s]
  BY <1>1, FoldAddsUp
<1>3. \A i \in s \intersect S : b[i] = a[i]
  OBVIOUS
<1>4. AddsUp(F, a, S)
  OBVIOUS
<1> HIDE DEF a, b
<1>5. G[s] = F[s]
  BY <1>1, <1>2, <1>3, <1>4, OneSum
<1> QED
  BY <1>2, <1>5

\* The order in which amounts are added makes no difference.
LEMMA AddedLast ==
    ASSUME NEW S, IsFiniteSet(S), NEW a, \A i \in S : a[i] \in Nat, NEW F, AddsUp(F, a, S)
    PROVE  /\ \A s \in SUBSET S : F[s] \in Nat
           /\ \A s \in SUBSET S : \A x \in s : F[s] = F[s \ {x}] + a[x]
<1>1. \A s \in SUBSET S : F[s] \in Nat
  <2> DEFINE T == {t \in SUBSET S : F[t] \notin Nat}
  <2> SUFFICES ASSUME T # {} PROVE FALSE
    OBVIOUS
  <2>1. PICK t \in T : \A u \in T : u \subseteq t => u = t
    <3>1. T \subseteq SUBSET S
      OBVIOUS
    <3> HIDE DEF T
    <3> QED
      BY <3>1, Smallest
  <2>2. CASE t = {}
    <3>1. F[{}] = 0
      BY DEF AddsUp
    <3>2. F[t] \notin Nat
      BY <2>1
    <3> QED
      BY <2>2, <3>1, <3>2
  <2>3. CASE t # {}
    <3>1. Pick(t) \in t
      BY <2>3, PickIs
    <3>2. F[t \ {Pick(t)}] \in Nat
      BY <2>1, <3>1
    <3>3. F[t] = a[Pick(t)] + F[t \ {Pick(t)}]
      BY <2>3 DEF AddsUp
    <3> QED
      BY <3>1, <3>2, <3>3
  <2> QED
    BY <2>2, <2>3
<1>2. \A s \in SUBSET S : \A x \in s : F[s] = F[s \ {x}] + a[x]
  <2> DEFINE T == {t \in SUBSET S : ~\A x \in t : F[t] = F[t \ {x}] + a[x]}
  <2> SUFFICES ASSUME T # {} PROVE FALSE
    OBVIOUS
  <2>1. PICK t \in T : \A u \in T : u \subseteq t => u = t
    <3>1. T \subseteq SUBSET S
      OBVIOUS
    <3> HIDE DEF T
    <3> QED
      BY <3>1, Smallest
  <2>2. PICK x \in t : F[t] # F[t \ {x}] + a[x]
    OBVIOUS
  <2> DEFINE y == Pick(t)
  <2>3. y \in t
    BY <2>2, PickIs
  <2>4. F[t] = a[y] + F[t \ {y}]
    BY <2>3 DEF AddsUp
  <2>n. /\ a[x] \in Nat /\ a[y] \in Nat /\ F[t] \in Nat /\ F[t \ {x}] \in Nat /\ F[t \ {y}] \in Nat
        /\ F[(t \ {x}) \ {y}] \in Nat
    BY <1>1, <2>3
  <2> HIDE DEF y
  <2>5. CASE x = y
    BY <2>2, <2>4, <2>5, <2>n
  <2>6. CASE x # y
    <3> DEFINE tx == t \ {x}
    <3> DEFINE ty == t \ {y}
    <3>1. tx \notin T /\ ty \notin T /\ tx \in SUBSET S /\ ty \in SUBSET S
      BY <2>1, <2>3
    <3>2. F[ty] = F[ty \ {x}] + a[x] /\ F[tx] = F[tx \ {y}] + a[y]
      BY <2>3, <2>6, <3>1
    <3>3. ty \ {x} = tx \ {y}
      OBVIOUS
    <3>4. F[ty \ {x}] = F[tx \ {y}]
      BY <3>3
    <3> QED
      BY <2>2, <2>4, <2>n, <3>2, <3>4
  <2> QED
    BY <2>5, <2>6
<1> QED
  BY <1>1, <1>2

\* What a sum over rows is without one of them, and of part of them.
LEMMA SumFacts ==
    ASSUME NEW S, IsFiniteSet(S), NEW rows, \A i \in S : rows[i].amount \in Nat
    PROVE  /\ RowSum(rows, S) \in Nat
           /\ \A x \in S : RowSum(rows, S) = RowSum(rows, S \ {x}) + rows[x].amount
           /\ \A s \in SUBSET S : RowSum(rows, s) <= RowSum(rows, S)
<1> DEFINE a == [i \in S |-> rows[i].amount]
<1>1. PICK F : AddsUp(F, a, S)
  BY SumExists
<1>2. \A s \in SUBSET S : RowSum(rows, s) = F[s]
  BY <1>1, PartSum
<1>3. /\ \A s \in SUBSET S : F[s] \in Nat
      /\ \A s \in SUBSET S : \A x \in s : F[s] = F[s \ {x}] + a[x]
  <2>1. \A i \in S : a[i] \in Nat
    OBVIOUS
  <2> HIDE DEF a
  <2> QED
    BY <1>1, <2>1, AddedLast
<1>4. \A s \in SUBSET S : F[s] <= F[S]
  <2> SUFFICES ASSUME NEW s \in SUBSET S, ~(F[s] <= F[S]) PROVE FALSE
    OBVIOUS
  <2> DEFINE T == {t \in SUBSET S : s \subseteq t /\ ~(F[s] <= F[t])}
  <2>1. T \subseteq SUBSET S /\ T # {}
    OBVIOUS
  <2>2. PICK t \in T : \A u \in T : u \subseteq t => u = t
    <3> HIDE DEF T
    <3> QED
      BY <2>1, Smallest
  <2>3. t # s
    BY <1>3
  <2>4. PICK x \in t : x \notin s
    BY <2>3
  <2>5. F[t] = F[t \ {x}] + a[x] /\ a[x] \in Nat /\ F[t \ {x}] \in Nat /\ F[s] \in Nat
    BY <1>3, <2>4
  <2>6. F[s] <= F[t \ {x}]
    BY <2>2, <2>4
  <2>7. ~(F[s] <= F[t]) /\ F[t] \in Nat
    BY <1>3
  <2> QED
    BY <2>5, <2>6, <2>7
<1>5. \A x \in S : S \ {x} \in SUBSET S /\ S \in SUBSET S /\ a[x] = rows[x].amount
  OBVIOUS
<1> HIDE DEF a
<1> QED
  BY <1>2, <1>3, <1>4, <1>5

-------------------------------------------------------------------------------
(* The operator cap.  A request holds the lock from the moment it adds up    *)
(* the grants of the last Window ticks to the moment it appends its own, so  *)
(* what it added up still stands when it decides; and a span that the new    *)
(* row falls into began after its `since`, so all of the span was added up.  *)
OperatorRowsOf(rows) == {i \in DOMAIN rows : rows[i].type = "CREDIT" /\ rows[i].refType = "operator"}

GrantedIn(rows, t) == {i \in OperatorRowsOf(rows) : rows[i].at \in t .. t + Window}

GrantedSince(rows, since) == {i \in OperatorRowsOf(rows) : rows[i].at >= since}

NothingFromTheFuture ==
    /\ \A i \in DOMAIN ledger : ledger[i].at <= now
    /\ \A r \in Requests : started[r] <= now

AddedUpStands ==
    \A r \in Requests : pc[r] = "apply" /\ job[r].kind = "operator"
                           => already[r] = RowSum(ledger, GrantedSince(ledger, Since(r)))

SpansCapped == \A t \in 0 .. now : RowSum(ledger, GrantedIn(ledger, t)) <= Cap

CapInv == NothingFromTheFuture /\ AddedUpStands /\ SpansCapped

LEMMA RowsFinite ==
    ASSUME NEW rows \in Seq(Row)
    PROVE  IsFiniteSet(DOMAIN rows) /\ \A i \in DOMAIN rows : rows[i].amount \in Nat /\ rows[i].at \in Nat
<1>1. DOMAIN rows = 1 .. Len(rows) /\ Len(rows) \in Nat
  OBVIOUS
<1>2. IsFiniteSet(DOMAIN rows)
  BY <1>1, FS_Interval
<1>3. \A i \in DOMAIN rows : rows[i] \in Row
  OBVIOUS
<1> QED
  BY <1>2, <1>3 DEF Row

LEMMA OperatorRowsFinite ==
    ASSUME NEW rows \in Seq(Row)
    PROVE  /\ \A t : IsFiniteSet(GrantedIn(rows, t)) /\ GrantedIn(rows, t) \subseteq DOMAIN rows
           /\ \A s : IsFiniteSet(GrantedSince(rows, s)) /\ GrantedSince(rows, s) \subseteq DOMAIN rows
           /\ \A i \in DOMAIN rows : rows[i].amount \in Nat /\ rows[i].at \in Nat
<1>1. \A t : GrantedIn(rows, t) \subseteq DOMAIN rows /\ GrantedSince(rows, t) \subseteq DOMAIN rows
  BY DEF GrantedIn, GrantedSince, OperatorRowsOf
<1>2. \A t : IsFiniteSet(GrantedIn(rows, t)) /\ IsFiniteSet(GrantedSince(rows, t))
  BY <1>1, RowsFinite, FS_Subset
<1> QED
  BY <1>1, <1>2, RowsFinite

\* Sums over the table with one more row.
LEMMA AppendedSum ==
    ASSUME NEW rows \in Seq(Row), NEW row \in Row, NEW S, S \subseteq DOMAIN rows
    PROVE  /\ IsFiniteSet(S) /\ RowSum(rows, S) \in Nat
           /\ RowSum(Append(rows, row), S) = RowSum(rows, S)
           /\ RowSum(Append(rows, row), S \union {Len(rows) + 1}) = RowSum(rows, S) + row.amount
<1> DEFINE more == Append(rows, row)
<1> DEFINE n == Len(rows) + 1
<1>1. /\ more \in Seq(Row) /\ DOMAIN more = DOMAIN rows \union {n} /\ n \notin DOMAIN rows
      /\ more[n] = row
      /\ \A i \in DOMAIN rows : more[i] = rows[i]
  OBVIOUS
<1> HIDE DEF more, n
<1>2. \A i \in DOMAIN rows \union {n} : more[i].amount \in Nat
  BY <1>1, RowsFinite
<1>3. IsFiniteSet(S) /\ IsFiniteSet(S \union {n})
  <2>1. IsFiniteSet(S)
    BY RowsFinite, FS_Subset
  <2> QED
    BY <2>1, FS_AddElement
<1>4. \A i \in S : rows[i].amount \in Nat /\ more[i].amount = rows[i].amount
  BY <1>1, RowsFinite
<1>5. RowSum(more, S) = RowSum(rows, S)
  BY <1>3, <1>4, SameSum
<1>6. RowSum(rows, S) \in Nat
  BY <1>3, <1>4, SumFacts
<1>7. RowSum(more, S \union {n}) = RowSum(more, S) + row.amount
  <2> DEFINE all == S \union {n}
  <2>1. all \ {n} = S /\ n \in all /\ IsFiniteSet(all) /\ \A i \in all : more[i].amount \in Nat
    BY <1>1, <1>2, <1>3
  <2> HIDE DEF all
  <2>2. RowSum(more, all) = RowSum(more, all \ {n}) + more[n].amount
    BY <2>1, SumFacts
  <2> QED
    BY <1>1, <2>1, <2>2 DEF all
<1> QED
  BY <1>3, <1>5, <1>6, <1>7 DEF more, n

\* A row that is no operator's grant is in no span; one that is is in the spans its time is in.
LEMMA AppendedGrant ==
    ASSUME NEW rows \in Seq(Row), NEW row \in Row, NEW t \in Nat
    PROVE  /\ (row.type # "CREDIT" \/ row.refType # "operator" \/ row.at \notin t .. t + Window)
                 => RowSum(Append(rows, row), GrantedIn(Append(rows, row), t)) = RowSum(rows, GrantedIn(rows, t))
           /\ row.type = "CREDIT" /\ row.refType = "operator" /\ row.at \in t .. t + Window
                 => RowSum(Append(rows, row), GrantedIn(Append(rows, row), t))
                      = RowSum(rows, GrantedIn(rows, t)) + row.amount
<1> DEFINE more == Append(rows, row)
<1> DEFINE n == Len(rows) + 1
<1>1. /\ DOMAIN more = DOMAIN rows \union {n} /\ n \notin DOMAIN rows
      /\ more[n] = row
      /\ \A i \in DOMAIN rows : more[i] = rows[i]
  OBVIOUS
<1> HIDE DEF more, n
<1>2. /\ (row.type # "CREDIT" \/ row.refType # "operator" \/ row.at \notin t .. t + Window)
            => GrantedIn(more, t) = GrantedIn(rows, t)
      /\ row.type = "CREDIT" /\ row.refType = "operator" /\ row.at \in t .. t + Window
            => GrantedIn(more, t) = GrantedIn(rows, t) \union {n}
  BY <1>1 DEF GrantedIn, OperatorRowsOf
<1>3. /\ RowSum(more, GrantedIn(rows, t)) = RowSum(rows, GrantedIn(rows, t))
      /\ RowSum(more, GrantedIn(rows, t) \union {n}) = RowSum(rows, GrantedIn(rows, t)) + row.amount
  <2> DEFINE some == GrantedIn(rows, t)
  <2>1. some \subseteq DOMAIN rows
    BY OperatorRowsFinite
  <2> HIDE DEF some
  <2>2. RowSum(more, some) = RowSum(rows, some) /\ RowSum(more, some \union {n}) = RowSum(rows, some) + row.amount
    BY <2>1, AppendedSum DEF more, n
  <2> QED
    BY <2>2 DEF some
<1> HIDE DEF more, n
<1>4. CASE row.type # "CREDIT" \/ row.refType # "operator" \/ row.at \notin t .. t + Window
  BY <1>2, <1>3, <1>4 DEF more
<1>5. CASE row.type = "CREDIT" /\ row.refType = "operator" /\ row.at \in t .. t + Window
  BY <1>2, <1>3, <1>5 DEF more
<1> QED
  BY <1>4, <1>5

\* What a span that reaches the present granted is part of what was granted since its beginning.
LEMMA SpanAddedUp ==
    ASSUME NEW rows \in Seq(Row), NEW t \in Nat, NEW since \in Int, since <= t
    PROVE  /\ RowSum(rows, GrantedIn(rows, t)) \in Nat
           /\ RowSum(rows, GrantedSince(rows, since)) \in Nat
           /\ RowSum(rows, GrantedIn(rows, t)) <= RowSum(rows, GrantedSince(rows, since))
<1>1. GrantedIn(rows, t) \subseteq GrantedSince(rows, since)
  <2>1. \A i \in OperatorRowsOf(rows) : rows[i].at \in Nat
    BY OperatorRowsFinite DEF OperatorRowsOf
  <2> QED
    BY <2>1 DEF GrantedIn, GrantedSince
<1>2. \A i \in GrantedSince(rows, since) : rows[i].amount \in Nat
  BY OperatorRowsFinite
<1>3. \A i \in GrantedIn(rows, t) : rows[i].amount \in Nat
  BY OperatorRowsFinite
<1>4. IsFiniteSet(GrantedIn(rows, t)) /\ IsFiniteSet(GrantedSince(rows, since))
  BY OperatorRowsFinite
<1> QED
  BY <1>1, <1>2, <1>3, <1>4, SumFacts


LEMMA CapInit == Init => CapInv
<1> SUFFICES ASSUME Init PROVE CapInv
  OBVIOUS
<1>1. NothingFromTheFuture /\ AddedUpStands
  BY DEF Init, NothingFromTheFuture, AddedUpStands
<1>2. SpansCapped
  <2>1. ledger = <<>> /\ now = 0
    BY DEF Init
  <2>2. \A t : GrantedIn(ledger, t) = {}
    BY <2>1 DEF GrantedIn, OperatorRowsOf
  <2> QED
    BY <2>2, EmptySum DEF SpansCapped
<1> QED
  BY <1>1, <1>2 DEF CapInv

\* While the ledger stays and nobody newly adds up, what was added up stands.
LEMMA CapFrame ==
    ASSUME LockInv, CapInv, UNCHANGED <<ledger, now>>,
           \A r \in Requests : started'[r] \in {started[r], now},
           \A r \in Requests : pc'[r] = "apply" /\ job'[r].kind = "operator" =>
              \/ pc[r] = "apply" /\ job[r] = job'[r] /\ already'[r] = already[r] /\ started'[r] = started[r]
              \/ already'[r] = RowSum(ledger, GrantedSince(ledger, started'[r] - Window))
    PROVE  CapInv'
<1>0. now \in Nat
  BY DEF LockInv, TypeOK, WalletTypeOK
<1>1. NothingFromTheFuture'
  BY <1>0 DEF CapInv, NothingFromTheFuture
<1>2. AddedUpStands'
  BY DEF CapInv, AddedUpStands, Since
<1>3. SpansCapped'
  BY DEF CapInv, SpansCapped
<1> QED
  BY <1>1, <1>2, <1>3 DEF CapInv

\* Whoever appends a row under the lock lets go of it, and nobody else has added up by then.
LEMMA CapAppend ==
    ASSUME LockInv, CapInv, UNCHANGED <<now, job, started, already>>,
           NEW row \in Row, row.at = now, ledger' = Append(ledger, row),
           \A r \in Requests : pc'[r] # "apply",
           row.type = "CREDIT" /\ row.refType = "operator" =>
              \E since \in Int : /\ since <= now - Window
                               /\ RowSum(ledger, GrantedSince(ledger, since)) + row.amount <= Cap
    PROVE  CapInv'
<1>0. now \in Nat /\ ledger \in Seq(Row) /\ row.amount \in Nat
  BY DEF LockInv, TypeOK, WalletTypeOK, Row
<1>1. NothingFromTheFuture'
  <2>1. \A i \in DOMAIN ledger' : ledger'[i].at <= now
    BY <1>0 DEF CapInv, NothingFromTheFuture
  <2> QED
    BY <2>1 DEF CapInv, NothingFromTheFuture
<1>2. AddedUpStands'
  BY DEF AddedUpStands
<1>3. ASSUME NEW t \in 0 .. now PROVE RowSum(ledger', GrantedIn(ledger', t)) <= Cap
  <2>0. t \in Nat
    OBVIOUS
  <2>1. RowSum(ledger, GrantedIn(ledger, t)) <= Cap
    BY DEF CapInv, SpansCapped
  <2>2. CASE row.type # "CREDIT" \/ row.refType # "operator" \/ row.at \notin t .. t + Window
    BY <1>0, <2>0, <2>1, <2>2, AppendedGrant
  <2>3. CASE row.type = "CREDIT" /\ row.refType = "operator" /\ row.at \in t .. t + Window
    <3>1. PICK since \in Int : /\ since <= now - Window
                              /\ RowSum(ledger, GrantedSince(ledger, since)) + row.amount <= Cap
      BY <2>3
    <3>2. since <= t
      BY <1>0, <2>0, <2>3, <3>1
    <3>3. RowSum(ledger', GrantedIn(ledger', t)) = RowSum(ledger, GrantedIn(ledger, t)) + row.amount
      BY <1>0, <2>0, <2>3, AppendedGrant
    <3>4. /\ RowSum(ledger, GrantedIn(ledger, t)) \in Nat
          /\ RowSum(ledger, GrantedSince(ledger, since)) \in Nat
          /\ RowSum(ledger, GrantedIn(ledger, t)) <= RowSum(ledger, GrantedSince(ledger, since))
      BY <1>0, <2>0, <3>2, SpanAddedUp
    <3> QED
      BY <1>0, <3>1, <3>3, <3>4
  <2> QED
    BY <2>2, <2>3
<1>4. SpansCapped'
  BY <1>3 DEF SpansCapped
<1> QED
  BY <1>1, <1>2, <1>4 DEF CapInv

\* The row that ApplyRow appends, and that nobody is past the lock afterwards.
LEMMA AppliedRow ==
    ASSUME LockInv, NEW r \in Requests, NEW type \in {"CREDIT", "DEBIT"}, pc[r] = "apply",
           ApplyRow(r, type), job[r].amount \in Nat, type = "DEBIT" => job[r].amount <= seen[r],
           NEW step \in Steps \ {"apply"}, Goto(r, step)
    PROVE  /\ \E row \in Row : /\ ledger' = Append(ledger, row)
                               /\ row.at = now /\ row.type = type
                               /\ row.refType = job[r].refType /\ row.amount = job[r].amount
           /\ \A q \in Requests : pc'[q] # "apply"
<1> DEFINE row == NewRow(type, job[r].operation, job[r].amount, seen[r], job[r].refType, job[r].refId)
<1>1. job[r] \in Job
  BY DEF LockInv, TypeOK, WalletTypeOK, RequestTypeOK
<1>2. row \in Row
  <2>1. /\ job[r].operation \in Operations
        /\ job[r].refType \in ReferenceTypes
        /\ job[r].refId \in Ids \union {NoId, TenantId}
    BY <1>1 DEF Job
  <2>2. seen[r] \in Nat /\ now \in Nat
    BY DEF LockInv, TypeOK, WalletTypeOK, RequestTypeOK
  <2> QED BY <2>1, <2>2, NewRowIsRow
<1>3. /\ row.at = now /\ row.type = type /\ row.refType = job[r].refType /\ row.amount = job[r].amount
      /\ ledger' = Append(ledger, row)
  BY DEF NewRow, ApplyRow
<1>4. \A q \in Requests : pc[q] = "apply" => q = r
  BY DEF LockInv, LockedReadIsCurrent
<1>5. \A q \in Requests : pc'[q] # "apply"
  BY <1>4 DEF Goto, LockInv, TypeOK, RequestTypeOK
<1> HIDE DEF row
<1> QED
  BY <1>2, <1>3, <1>5

LEMMA CapStep == LockInv /\ CapInv /\ [Next]_vars => CapInv'
<1> SUFFICES ASSUME LockInv, CapInv, [Next]_vars PROVE CapInv'
  OBVIOUS
<1>0. /\ now \in Nat /\ ledger \in Seq(Row)
      /\ pc \in [Requests -> Steps] /\ job \in [Requests -> Jobs]
      /\ started \in [Requests -> Nat] /\ DOMAIN already = Requests
  BY DEF LockInv, TypeOK, WalletTypeOK, RequestTypeOK
<1>1. CASE UNCHANGED vars
  BY <1>1, CapFrame DEF vars, wallet, local
<1>2. ASSUME NEW r \in Requests, Begin(r) PROVE CapInv'
  <2>1. /\ UNCHANGED <<ledger, now, job, already>>
        /\ \A q \in Requests : started'[q] \in {started[q], now}
        /\ \A q \in Requests : pc'[q] = "apply" => q # r /\ pc[q] = "apply" /\ started'[q] = started[q]
    BY <1>0, <1>2 DEF Begin, Goto, wallet
  <2> QED
    BY <2>1, CapFrame
<1>3. ASSUME NEW r \in Requests,
             \/ FindWallet(r) \/ CheckTrial(r) \/ LockWallet(r)
             \/ Refuse(r) \/ WarnIfBalanceLow(r) \/ SumLedger(r) \/ Crash(r)
      PROVE  CapInv'
  <2>1. /\ UNCHANGED <<ledger, now, job, already, started>>
        /\ \A q \in Requests : pc'[q] = "apply" /\ job[q].kind = "operator" => pc[q] = "apply"
    BY <1>0, <1>3 DEF FindWallet, AfterEnsure, CheckTrial, LockWallet, Refuse, WarnIfBalanceLow, SumLedger, Crash,
                      Goto, wallet, local
  <2> QED
    BY <2>1, CapFrame
<1>4. ASSUME NEW r \in Requests, CreateWallet(r) PROVE CapInv'
  <2>1. /\ UNCHANGED <<now, job, already, started>>
        /\ \A q \in Requests : pc'[q] = "apply" => pc[q] = "apply"
    BY <1>0, <1>4 DEF CreateWallet, AfterEnsure, Goto
  <2>2. CASE ledger' = ledger
    BY <2>1, <2>2, CapFrame
  <2>3. CASE ledger' # ledger
    <3> DEFINE row == NewRow("CREDIT", "PLAN_GRANT", TrialCredits, 0, "trial", TenantId)
    <3>1. ~walletExists /\ ledger' = Append(ledger, row)
      BY <1>4, <2>3 DEF CreateWallet, wallet, InsertWallet, LedgerWithTrialRow
    <3>2. \A q \in Requests : pc'[q] # "apply"
      BY <2>1, <3>1 DEF LockInv, LockedReadIsCurrent
    <3>3. row \in Row
      BY <1>0, NewRowIsRow DEF Operations, ReferenceTypes
    <3>4. row.at = now /\ row.refType # "operator"
      BY DEF NewRow
    <3> HIDE DEF row
    <3> QED
      BY <2>1, <3>1, <3>2, <3>3, <3>4, CapAppend
  <2> QED
    BY <2>2, <2>3
<1>5. ASSUME NEW r \in Requests, AggregateOperatorGrants(r) PROVE CapInv'
  <2>1. already' = [already EXCEPT ![r] = RowSum(ledger, GrantedSince(ledger, started[r] - Window))]
    BY <1>5 DEF AggregateOperatorGrants, SumOver, OperatorRows, Since, RowSum, GrantedSince, OperatorRowsOf
  <2>2. /\ UNCHANGED <<ledger, now, job, started>>
        /\ \A q \in Requests : pc'[q] = "apply" => q = r \/ (pc[q] = "apply" /\ already'[q] = already[q])
    BY <1>0, <1>5, <2>1 DEF AggregateOperatorGrants, Goto, wallet
  <2>3. already'[r] = RowSum(ledger, GrantedSince(ledger, started'[r] - Window))
    BY <1>0, <2>1, <2>2
  <2> QED
    BY <2>2, <2>3, CapFrame
<1>6. ASSUME NEW r \in Requests, Spend(r) PROVE CapInv'
  <2>1. job[r].amount \in Nat /\ job[r].amount <= seen[r]
    <3>1. job[r].amount \in Int
      BY DEF LockInv, TypeOK, RequestTypeOK, Job
    <3> QED
      BY <1>6, <3>1 DEF LockInv, Validated, RefusedAtOnce, Spend, Refused, Affordable
  <2>2. /\ UNCHANGED <<now, job, already, started>>
        /\ pc[r] = "apply" /\ ApplyRow(r, "DEBIT") /\ Goto(r, "warn") /\ "warn" \in Steps \ {"apply"}
    BY <1>6 DEF Spend, Steps
  <2>3. \A q \in Requests : pc'[q] # "apply"
    BY <2>1, <2>2, AppliedRow
  <2>4. PICK row \in Row : ledger' = Append(ledger, row) /\ row.at = now /\ row.type = "DEBIT"
    BY <2>1, <2>2, AppliedRow
  <2> QED
    BY <2>2, <2>3, <2>4, CapAppend
<1>7. ASSUME NEW r \in Requests, AppendCredit(r) PROVE CapInv'
  <2>0. job[r].amount \in Int /\ job[r] \in Jobs
    BY <1>0 DEF Job
  <2>1. job[r].amount \in Nat
    BY <1>7, <2>0 DEF LockInv, Validated, RefusedAtOnce, AppendCredit, Refused
  <2>2. /\ UNCHANGED <<now, job, already, started>>
        /\ pc[r] = "apply" /\ ApplyRow(r, "CREDIT") /\ Goto(r, "done") /\ "done" \in Steps \ {"apply"}
    BY <1>7 DEF AppendCredit, Steps, local
  <2>3. \A q \in Requests : pc'[q] # "apply"
    BY <2>1, <2>2, AppliedRow
  <2>4. PICK row \in Row : /\ ledger' = Append(ledger, row) /\ row.at = now
                           /\ row.refType = job[r].refType /\ row.amount = job[r].amount
    BY <2>1, <2>2, AppliedRow
  <2>5. ASSUME job[r].kind = "operator"
        PROVE  \E since \in Int : /\ since <= now - Window
                                 /\ RowSum(ledger, GrantedSince(ledger, since)) + row.amount <= Cap
    <3>1. already[r] + job[r].amount <= Cap
      <4>1. ~(already[r] + job[r].amount > Cap)
        BY <1>7, <2>5 DEF AppendCredit, Refused
      <4>2. already[r] = RowSum(ledger, GrantedSince(ledger, Since(r)))
        BY <2>2, <2>5 DEF CapInv, AddedUpStands
      <4>3. already[r] \in Nat
        <5>1. IsFiniteSet(GrantedSince(ledger, Since(r))) /\ \A i \in GrantedSince(ledger, Since(r)) : ledger[i].amount \in Nat
          BY <1>0, OperatorRowsFinite
        <5> QED
          BY <4>2, <5>1, SumFacts
      <4> QED
        BY <2>1, <4>1, <4>3
    <3>2. Since(r) \in Int /\ Since(r) <= now - Window
      BY <1>0 DEF Since, CapInv, NothingFromTheFuture
    <3>3. already[r] = RowSum(ledger, GrantedSince(ledger, Since(r)))
      BY <2>2, <2>5 DEF CapInv, AddedUpStands
    <3> QED
      BY <2>4, <3>1, <3>2, <3>3
  <2>6. row.refType = "operator" => job[r].kind = "operator"
    BY <2>0, <2>4
  <2> QED
    BY <2>2, <2>3, <2>4, <2>5, <2>6, CapAppend
<1>8. CASE DeleteWallet
  BY <1>8, CapFrame DEF DeleteWallet, local
<1>9. CASE Tick
  <2>1. now' = now + 1 /\ UNCHANGED <<ledger, pc, job, started, already>>
    BY <1>9 DEF Tick, wallet, local
  <2>2. NothingFromTheFuture'
    <3>1. /\ \A i \in DOMAIN ledger : ledger[i].at \in Nat /\ ledger[i].at <= now
          /\ \A r \in Requests : started[r] \in Nat /\ started[r] <= now
      BY <1>0, OperatorRowsFinite DEF CapInv, NothingFromTheFuture
    <3> QED
      BY <1>0, <2>1, <3>1 DEF NothingFromTheFuture
  <2>3. AddedUpStands'
    BY <2>1 DEF CapInv, AddedUpStands, Since
  <2>4. ASSUME NEW t \in 0 .. now' PROVE RowSum(ledger', GrantedIn(ledger', t)) <= Cap
    <3>1. CASE t \in 0 .. now
      BY <2>1, <3>1 DEF CapInv, SpansCapped
    <3>2. CASE t \notin 0 .. now
      <4>1. t > now
        BY <1>0, <2>1, <3>2
      <4>2. GrantedIn(ledger, t) = {}
        <5>1. \A i \in DOMAIN ledger : ledger[i].at \in Nat /\ ledger[i].at <= now
          BY <1>0, OperatorRowsFinite DEF CapInv, NothingFromTheFuture
        <5> QED
          BY <1>0, <2>1, <4>1, <5>1 DEF GrantedIn, OperatorRowsOf
      <4> QED
        BY <2>1, <4>2, EmptySum
    <3> QED
      BY <3>1, <3>2
  <2>5. SpansCapped'
    BY <2>4 DEF SpansCapped
  <2> QED
    BY <2>2, <2>3, <2>5 DEF CapInv
<1> QED
  BY <1>1, <1>2, <1>3, <1>4, <1>5, <1>6, <1>7, <1>8, <1>9 DEF Next, Step

(* Operators grant at most the cap in any span of 24 hours, however late the *)
(* lock is granted to whom and whatever commits while they wait for it.      *)
THEOREM OperatorCapIsHeld == Spec => []OperatorCapHolds
<1>1. CapInv => OperatorCapHolds
  BY DEF CapInv, SpansCapped, OperatorCapHolds, SumOver, OperatorRows, RowSum, GrantedIn, OperatorRowsOf
<1> QED
  BY <1>1, CapInit, CapStep, LockInvAlways, PTL DEF Spec

-------------------------------------------------------------------------------
RowsOf(rows, type) == {i \in DOMAIN rows : rows[i].type = type}

\* What the rows add up to is the balance they leave.
BalanceAddsUp ==
    deletions = 0 => balance = RowSum(ledger, RowsOf(ledger, "CREDIT")) - RowSum(ledger, RowsOf(ledger, "DEBIT"))

LEMMA AppendedBalance ==
    ASSUME NEW rows \in Seq(Row), NEW row \in Row
    PROVE  LET total(some) == RowSum(some, RowsOf(some, "CREDIT")) - RowSum(some, RowsOf(some, "DEBIT")) IN
           total(Append(rows, row)) = IF row.type = "CREDIT" THEN total(rows) + row.amount ELSE total(rows) - row.amount
<1> DEFINE more == Append(rows, row)
<1> DEFINE n == Len(rows) + 1
<1>1. /\ DOMAIN more = DOMAIN rows \union {n} /\ n \notin DOMAIN rows
      /\ more[n] = row
      /\ \A i \in DOMAIN rows : more[i] = rows[i]
  OBVIOUS
<1> HIDE DEF more, n
<1>2. \A type : RowsOf(more, type) = IF row.type = type THEN RowsOf(rows, type) \union {n} ELSE RowsOf(rows, type)
  BY <1>1 DEF RowsOf
<1>3. ASSUME NEW type
      PROVE  /\ RowSum(rows, RowsOf(rows, type)) \in Nat
             /\ RowSum(more, RowsOf(more, type)) =
                  IF row.type = type THEN RowSum(rows, RowsOf(rows, type)) + row.amount
                                     ELSE RowSum(rows, RowsOf(rows, type))
  <2> DEFINE some == RowsOf(rows, type)
  <2>1. some \subseteq DOMAIN rows
    BY DEF RowsOf
  <2> HIDE DEF some
  <2>2. /\ RowSum(rows, some) \in Nat /\ RowSum(more, some) = RowSum(rows, some)
        /\ RowSum(more, some \union {n}) = RowSum(rows, some) + row.amount
    BY <2>1, AppendedSum DEF more, n
  <2> QED
    BY <1>2, <2>2 DEF some
<1>4. row.type \in {"CREDIT", "DEBIT"} /\ row.amount \in Nat
  BY DEF Row
<1>5. CASE row.type = "CREDIT"
  BY <1>3, <1>4, <1>5 DEF more
<1>6. CASE row.type = "DEBIT"
  BY <1>3, <1>4, <1>6 DEF more
<1> QED
  BY <1>4, <1>5, <1>6

(* While nobody deletes the wallet by hand its balance is what the ledger's  *)
(* credits and debits add up to: what reconcile compares, between requests.  *)
THEOREM BalanceIsTheSum == Spec => [](deletions = 0 => balance = LedgerBalance)
<1>1. Init => BalanceAddsUp
  <2> SUFFICES ASSUME Init PROVE BalanceAddsUp
    OBVIOUS
  <2>1. balance = 0 /\ \A type : RowsOf(ledger, type) = {}
    BY DEF Init, RowsOf
  <2> QED
    BY <2>1, EmptySum DEF BalanceAddsUp
<1>2. LockInv /\ LockInv' /\ BalanceAddsUp /\ [Next]_vars => BalanceAddsUp'
  <2> SUFFICES ASSUME LockInv, LockInv', BalanceAddsUp, [Next]_vars PROVE BalanceAddsUp'
    OBVIOUS
  <2>0. ledger \in Seq(Row) /\ ledger' \in Seq(Row) /\ deletions \in Nat /\ deletions' \in Nat
    BY DEF LockInv, TypeOK, WalletTypeOK
  <2>1. CASE Keeps
    BY <2>0, <2>1 DEF Keeps, BalanceAddsUp
  <2>2. CASE Grows
    <3>1. PICK type \in {"CREDIT", "DEBIT"}, operation \in Operations, amount \in Nat,
               refType \in ReferenceTypes, refId \in Ids \union {NoId, TenantId} :
               LET row == NewRow(type, operation, amount, balance, refType, refId) IN
               ledger' = Append(ledger, row) /\ balance' = row.after /\ deletions' = deletions
      BY <2>2 DEF Grows
    <3> DEFINE row == NewRow(type, operation, amount, balance, refType, refId)
    <3>2. /\ row.type = type /\ row.amount = amount
          /\ row.after = IF type = "CREDIT" THEN balance + amount ELSE balance - amount
      BY DEF NewRow
    <3> HIDE DEF row
    <3>3. ledger' = Append(ledger, row) /\ balance' = row.after /\ deletions' = deletions
      BY <3>1 DEF row
    <3>4. row \in Row
      <4>1. ledger'[Len(ledger) + 1] = row /\ Len(ledger) + 1 \in DOMAIN ledger'
        BY <2>0, <3>3
      <4> QED
        BY <2>0, <4>1
    <3>5. CASE type = "CREDIT"
      BY <2>0, <3>2, <3>3, <3>4, <3>5, AppendedBalance DEF BalanceAddsUp
    <3>6. CASE type = "DEBIT"
      BY <2>0, <3>2, <3>3, <3>4, <3>6, AppendedBalance DEF BalanceAddsUp
    <3> QED
      BY <3>5, <3>6
  <2> QED
    BY <2>1, <2>2, StepOnLedger
<1>3. BalanceAddsUp => (deletions = 0 => balance = LedgerBalance)
  BY DEF BalanceAddsUp, LedgerBalance, SumOver, RowSum, RowsOf
<1> QED
  BY <1>1, <1>2, <1>3, LockInvAlways, PTL DEF Spec
===============================================================================
