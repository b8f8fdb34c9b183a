---------------------------- MODULE CreditAccount ----------------------------
(***************************************************************************)
(* What the credit ledger promises its callers, with no requests, locks or *)
(* transactions in sight: one workspace holds a balance that never goes    *)
(* below zero, a trial grant is given at most once, and a grant that names *)
(* what it is for is applied at most once.  CreditLedger implements it.    *)
(***************************************************************************)
EXTENDS Naturals

CONSTANTS
    TrialCredits,   \* what a new workspace starts with (TRIAL_CREDITS)
    Keys            \* what a grant can be for: the references that count once

VARIABLES
    open,           \* whether the workspace has a wallet
    balance,        \* its balance; 0 while there is none
    applied,        \* the keys already granted
    trialGiven      \* whether the trial grant was ever made

accountVars == <<open, balance, applied, trialGiven>>

AccountTypeOK ==
    /\ open \in BOOLEAN
    /\ balance \in Nat
    /\ applied \subseteq Keys
    /\ trialGiven \in BOOLEAN

AccountInit ==
    /\ open = FALSE
    /\ balance = 0
    /\ applied = {}
    /\ trialGiven = FALSE

\* First use: the wallet appears together with the trial grant, if it is due.
Open ==
    /\ ~open
    /\ open' = TRUE
    /\ balance' = IF trialGiven THEN 0 ELSE TrialCredits
    /\ trialGiven' = (trialGiven \/ TrialCredits > 0)
    /\ UNCHANGED applied

Debit ==
    /\ open
    /\ \E amount \in 1 .. balance : balance' = balance - amount
    /\ UNCHANGED <<open, applied, trialGiven>>

\* A refund, or a correction that names no reference: nothing limits its count.
CreditFreely ==
    /\ open
    /\ balance' > balance
    /\ balance' \in Nat
    /\ UNCHANGED <<open, applied, trialGiven>>

CreditOnce(key) ==
    /\ open
    /\ key \notin applied
    /\ applied' = applied \union {key}
    /\ balance' \in Nat
    /\ balance' > balance
    /\ UNCHANGED <<open, trialGiven>>

\* Somebody deletes the wallet row by hand.
Close ==
    /\ open
    /\ open' = FALSE
    /\ balance' = 0
    /\ UNCHANGED <<applied, trialGiven>>

AccountNext == Open \/ Debit \/ CreditFreely \/ (\E key \in Keys : CreditOnce(key)) \/ Close

AccountSpec == AccountInit /\ [][AccountNext]_accountVars
==============================================================================
