----------------------------- MODULE SessionsProofs -----------------------------
(***************************************************************************)
(* What holds of Sessions for any tabs and requests.                       *)
(***************************************************************************)
EXTENDS Sessions, TLAPS

USE SessionsAssumption DEF SessionsAssumption

-------------------------------------------------------------------------------
(* Types *)

Records == [pc : Steps, token : 0 .. MaxTokens, terms : Nat, code : 0 .. MaxCode]
Held == [token : 0 .. MaxTokens, refreshing : BOOLEAN]

LEMMA IdleRecord == Idle \in Records /\ NoSession \in Held
BY DEF Idle, Records, Steps, NoSession, Held

\* A record with another step, and with a token or terms besides.
LEMMA OtherRecords ==
    ASSUME NEW m \in Records, NEW step \in Steps, NEW t \in 0 .. MaxTokens, NEW n \in Nat
    PROVE  /\ [m EXCEPT !.pc = step] \in Records
           /\ [m EXCEPT !.pc = step, !.token = t] \in Records
           /\ [m EXCEPT !.pc = step, !.terms = n] \in Records
BY DEF Records

LEMMA Recorded == ASSUME TypeOK, NEW r \in Requests PROVE me[r] \in Records /\ tab[TabOf[r]] \in Held /\ TabOf[r] \in Tabs
BY DEF TypeOK, Records, Held

\* A request takes a step, and no other request with it.
LEMMA Moves ==
    ASSUME TypeOK, NEW r \in Requests, NEW record \in Records, me' = [me EXCEPT ![r] = record]
    PROVE  /\ me' \in [Requests -> Records]
           /\ me'[r] = record
           /\ \A q \in Requests \ {r} : me'[q] = me[q]
BY DEF TypeOK, Records

LEMMA TypeInit == Init => TypeOK
<1> SUFFICES ASSUME Init PROVE TypeOK
  OBVIOUS
<1>1. me \in [Requests -> Records] /\ tab \in [Tabs -> Held]
  BY IdleRecord DEF Init
<1>2. agreed \in [Tokens -> Nat] /\ wins \in [Codes -> Nat]
  BY DEF Init
<1>3. live \subseteq Tokens /\ straddlers \subseteq Tokens /\ cut \subseteq 0 .. MaxTokens /\ lost \subseteq 0 .. MaxTokens
  BY DEF Init
<1>4. issued \in 0 .. MaxTokens /\ lastUsed \in 0 .. MaxCode
  BY DEF Init
<1>5. status \in {"ACTIVE", "DISABLED"} /\ terms \in Nat /\ wronged \in BOOLEAN /\ changes \in Nat /\ losses \in Nat
  BY DEF Init
<1> QED
  BY <1>1, <1>2, <1>3, <1>4, <1>5 DEF TypeOK, Records, Held

LEMMA TypeStep == TypeOK /\ [Next]_vars => TypeOK'
<1> SUFFICES ASSUME TypeOK, [Next]_vars PROVE TypeOK'
  OBVIOUS
<1> USE DEF account, factor, tokens
<1>0. me \in [Requests -> Records] /\ tab \in [Tabs -> Held]
  BY DEF TypeOK, Records, Held
<1>1. ASSUME NEW r \in Requests, ReadAccount(r) PROVE TypeOK'
  <2>1. me' \in [Requests -> Records]
    BY <1>0, <1>1 DEF ReadAccount, TypeOK, Codes, Records, Steps
  <2> QED
    BY <1>1, <2>1 DEF ReadAccount, TypeOK, Records
<1>2. ASSUME NEW r \in Requests, CheckCode(r) PROVE TypeOK'
  <2>1. [me[r] EXCEPT !.pc = "claim"] \in Records
    BY Recorded DEF Records, Steps
  <2>2. me' \in [Requests -> Records]
    BY <1>0, <1>2, <2>1, IdleRecord DEF CheckCode, Leave
  <2> QED
    BY <1>2, <2>2 DEF CheckCode, TypeOK, Records
<1>3. ASSUME NEW r \in Requests, ClaimCode(r) PROVE TypeOK'
  <2>1. [me[r] EXCEPT !.pc = "issue"] \in Records
    BY Recorded DEF Records, Steps
  <2>2. me' \in [Requests -> Records]
    BY <1>0, <1>3, <2>1, IdleRecord DEF ClaimCode, Leave
  <2>3. me[r].code \in 0 .. MaxCode
    BY Recorded DEF Records
  <2>4. lastUsed' \in 0 .. MaxCode /\ wins' \in [Codes -> Nat]
    <3>1. CASE Claimed(me[r].code)
      <4>1. me[r].code \in Codes
        BY <2>3, <3>1 DEF Claimed, TypeOK, Codes
      <4> QED
        BY <1>3, <2>3, <3>1, <4>1 DEF ClaimCode, TypeOK
    <3>2. CASE ~Claimed(me[r].code)
      BY <1>3, <3>2 DEF ClaimCode, TypeOK
    <3> QED
      BY <3>1, <3>2
  <2> QED
    BY <1>3, <2>2, <2>4 DEF ClaimCode, TypeOK, Records
<1>4. ASSUME NEW r \in Requests, BeginRefresh(r) PROVE TypeOK'
  <2>1. [Idle EXCEPT !.pc = "read", !.token = tab[TabOf[r]].token] \in Records
    BY Recorded, IdleRecord DEF Records, Steps, Held
  <2>2. [tab[TabOf[r]] EXCEPT !.refreshing = TRUE] \in Held
    BY Recorded DEF Held
  <2>3. me' \in [Requests -> Records] /\ tab' \in [Tabs -> Held]
    BY <1>0, <1>4, <2>1, <2>2 DEF BeginRefresh
  <2> QED
    BY <1>4, <2>3 DEF BeginRefresh, TypeOK, Records, Held
<1>5. ASSUME NEW r \in Requests, ReadToken(r) PROVE TypeOK'
  <2>1. [me[r] EXCEPT !.pc = "revoke", !.terms = terms] \in Records /\ [me[r] EXCEPT !.pc = "refused"] \in Records
    BY Recorded DEF Records, Steps, TypeOK
  <2>2. me' \in [Requests -> Records]
    BY <1>0, <1>5, <2>1 DEF ReadToken
  <2>3. wronged' \in BOOLEAN
    BY <1>5 DEF ReadToken, TypeOK
  <2> QED
    BY <1>5, <2>2, <2>3 DEF ReadToken, TypeOK, Records
<1>6. ASSUME NEW r \in Requests, RevokeToken(r) PROVE TypeOK'
  <2>1. [me[r] EXCEPT !.pc = "issue"] \in Records
    BY Recorded DEF Records, Steps
  <2>2. me' \in [Requests -> Records]
    BY <1>0, <1>6, <2>1 DEF RevokeToken
  <2> QED
    BY <1>6, <2>2 DEF RevokeToken, TypeOK, Records
<1>7. ASSUME NEW r \in Requests, IssueTokens(r) PROVE TypeOK'
  <2>1. issued + 1 \in Tokens /\ issued + 1 \in 0 .. MaxTokens /\ me[r].terms \in Nat
    <3>1. me[r].terms \in Nat
      BY Recorded DEF Records
    <3>2. issued \in Nat /\ issued < MaxTokens
      BY <1>7 DEF IssueTokens, TypeOK
    <3> QED
      BY <3>1, <3>2 DEF Tokens
  <2>2. [me[r] EXCEPT !.pc = "answer", !.token = issued + 1] \in Records
    BY <2>1, Recorded DEF Records, Steps
  <2>3. me' \in [Requests -> Records]
    BY <1>0, <1>7, <2>2 DEF IssueTokens
  <2>4. agreed' \in [Tokens -> Nat] /\ live' \subseteq Tokens /\ straddlers' \subseteq Tokens
    BY <1>7, <2>1 DEF IssueTokens, TypeOK
  <2> QED
    BY <1>7, <2>1, <2>3, <2>4 DEF IssueTokens, TypeOK, Records
<1>8. ASSUME NEW r \in Requests, StoreTokens(r) PROVE TypeOK'
  <2>1. [token |-> me[r].token, refreshing |-> FALSE] \in Held
    BY Recorded DEF Records, Held
  <2>2. me' \in [Requests -> Records] /\ tab' \in [Tabs -> Held]
    BY <1>0, <1>8, <2>1, IdleRecord DEF StoreTokens, Leave
  <2> QED
    BY <1>8, <2>2 DEF StoreTokens, TypeOK, Records, Held
<1>9. ASSUME NEW r \in Requests, EndSession(r) PROVE TypeOK'
  <2>1. me' \in [Requests -> Records] /\ tab' \in [Tabs -> Held]
    BY <1>0, <1>9, IdleRecord DEF EndSession, Leave
  <2> QED
    BY <1>9, <2>1 DEF EndSession, TypeOK, Records, Held
<1>10. ASSUME NEW r \in Requests, Lose(r) PROVE TypeOK'
  <2>1. me' \in [Requests -> Records] /\ tab' \in [Tabs -> Held]
    BY <1>0, <1>10, IdleRecord DEF Lose, Leave
  <2>2. me[r].token \in 0 .. MaxTokens
    BY Recorded DEF Records
  <2>3. lost' \subseteq 0 .. MaxTokens
    BY <1>10, <2>2 DEF Lose, TypeOK
  <2> QED
    BY <1>10, <2>1, <2>3 DEF Lose, TypeOK, Records, Held
<1>11. ASSUME NEW r \in Requests, BeginLogout(r) PROVE TypeOK'
  <2>1. [Idle EXCEPT !.pc = "logout", !.token = tab[TabOf[r]].token] \in Records
    BY Recorded, IdleRecord DEF Records, Steps, Held
  <2>2. me' \in [Requests -> Records]
    BY <1>0, <1>11, <2>1 DEF BeginLogout
  <2> QED
    BY <1>11, <2>2 DEF BeginLogout, TypeOK, Records
<1>12. ASSUME NEW r \in Requests, RevokeOnLogout(r) PROVE TypeOK'
  <2>1. [me[r] EXCEPT !.pc = "clear"] \in Records /\ me[r].token \in 0 .. MaxTokens
    BY Recorded DEF Records, Steps
  <2>2. me' \in [Requests -> Records]
    BY <1>0, <1>12, <2>1 DEF RevokeOnLogout
  <2> QED
    BY <1>12, <2>1, <2>2 DEF RevokeOnLogout, TypeOK, Records
<1>13. ASSUME NEW r \in Requests, ClearTab(r) PROVE TypeOK'
  <2>1. [tab[TabOf[r]] EXCEPT !.token = 0] \in Held /\ tab[TabOf[r]].token \in 0 .. MaxTokens
    BY Recorded DEF Held
  <2>2. me' \in [Requests -> Records] /\ tab' \in [Tabs -> Held]
    BY <1>0, <1>13, <2>1, IdleRecord DEF ClearTab, Leave
  <2> QED
    BY <1>13, <2>1, <2>2 DEF ClearTab, TypeOK, Records, Held
<1>14. ASSUME NEW new \in {"ACTIVE", "DISABLED"}, ChangeTerms(new) PROVE TypeOK'
  BY <1>14 DEF ChangeTerms, Ended, TypeOK, Tokens
<1>15. CASE Reactivate
  BY <1>15 DEF Reactivate, TypeOK
<1>16. ASSUME NEW t \in Tokens, RevokeSession(t) PROVE TypeOK'
  BY <1>16 DEF RevokeSession, TypeOK, Tokens
<1>17. CASE UNCHANGED vars
  BY <1>17 DEF vars, TypeOK
<1> QED
  BY <1>1, <1>2, <1>3, <1>4, <1>5, <1>6, <1>7, <1>8, <1>9, <1>10, <1>11, <1>12, <1>13, <1>14, <1>15, <1>16, <1>17 DEF Next

(* Every variable keeps its type. *)
THEOREM Typed == Spec => []TypeOK
BY TypeInit, TypeStep, PTL DEF Spec
-------------------------------------------------------------------------------
(* A code wins once *)

LEMMA CodesInit == Init => CodesWinOnce
BY DEF Init, CodesWinOnce

LEMMA CodesStep == TypeOK /\ CodesWinOnce /\ [Next]_vars => CodesWinOnce'
<1> SUFFICES ASSUME TypeOK, CodesWinOnce, [Next]_vars PROVE CodesWinOnce'
  OBVIOUS
<1> USE DEF account, factor, tokens
<1>1. ASSUME NEW r \in Requests, ClaimCode(r), Claimed(me[r].code) PROVE CodesWinOnce'
  <2>1. me[r].code \in Codes /\ lastUsed < me[r].code /\ lastUsed \in Nat
    BY <1>1, Recorded DEF Records, Claimed, TypeOK, Codes
  <2>2. wins[me[r].code] \in Nat /\ ~(wins[me[r].code] > 0)
    BY <2>1 DEF CodesWinOnce, TypeOK, Codes
  <2>3. wins' = [wins EXCEPT ![me[r].code] = @ + 1] /\ lastUsed' = me[r].code
    BY <1>1 DEF ClaimCode
  <2>4. wins'[me[r].code] = 1
    BY <2>1, <2>2, <2>3 DEF TypeOK
  <2>5. ASSUME NEW c \in Codes, c # me[r].code PROVE wins'[c] = wins[c]
    BY <2>3, <2>5 DEF TypeOK
  <2> QED
    BY <2>1, <2>3, <2>4, <2>5 DEF CodesWinOnce, Codes
<1>2. ASSUME UNCHANGED factor PROVE CodesWinOnce'
  BY <1>2 DEF CodesWinOnce
<1>3. UNCHANGED factor \/ \E r \in Requests : ClaimCode(r) /\ Claimed(me[r].code)
  BY DEF Next, vars, ReadAccount, CheckCode, ClaimCode, BeginRefresh, ReadToken, RevokeToken, IssueTokens, StoreTokens,
         EndSession, Lose, BeginLogout, RevokeOnLogout, ClearTab, ChangeTerms, Reactivate, RevokeSession
<1> QED
  BY <1>1, <1>2, <1>3

(* A code of the authenticator is good for one sign-in, whatever requests   *)
(* race with it.                                                             *)
THEOREM OneWinPerCode == Spec => []CodesWinOnce
<1>1. TypeOK /\ CodesWinOnce /\ [Next]_vars => (TypeOK /\ CodesWinOnce)'
  BY TypeStep, CodesStep
<1> QED
  BY TypeInit, CodesInit, <1>1, PTL DEF Spec

-------------------------------------------------------------------------------
(* Terms take effect *)

\* Numbers for tokens are given in order.
Numbered == live \subseteq 1 .. issued

TermsInv == TypeOK /\ Numbered /\ TermsTakeEffect

LEMMA TermsInit == Init => TermsInv
BY TypeInit DEF Init, TermsInv, Numbered, TermsTakeEffect

LEMMA TermsStep == TermsInv /\ [Next]_vars => TermsInv'
<1> SUFFICES ASSUME TermsInv, [Next]_vars PROVE Numbered' /\ TermsTakeEffect'
  BY TypeStep DEF TermsInv
<1> USE DEF account, factor, tokens
<1>1. ASSUME NEW r \in Requests, IssueTokens(r) PROVE Numbered' /\ TermsTakeEffect'
  <2>1. issued \in Nat /\ issued + 1 \in Tokens
    BY <1>1 DEF IssueTokens, TermsInv, TypeOK, Tokens
  <2>2. Numbered' /\ issued + 1 \notin live
    BY <1>1, <2>1 DEF IssueTokens, TermsInv, Numbered
  <2>3. agreed'[issued + 1] = me[r].terms /\ \A t \in live : agreed'[t] = agreed[t]
    BY <1>1, <2>1, <2>2 DEF IssueTokens, TermsInv, TypeOK
  <2> QED
    BY <1>1, <2>2, <2>3 DEF IssueTokens, TermsInv, TermsTakeEffect
<1>2. ASSUME NEW new \in {"ACTIVE", "DISABLED"}, ChangeTerms(new) PROVE Numbered' /\ TermsTakeEffect'
  BY <1>2 DEF ChangeTerms, Ended, Numbered, TermsTakeEffect
<1>3. ASSUME live' \subseteq live, UNCHANGED <<terms, issued, agreed, straddlers>> PROVE Numbered' /\ TermsTakeEffect'
  BY <1>3 DEF TermsInv, Numbered, TermsTakeEffect
<1>4. \/ live' \subseteq live /\ UNCHANGED <<terms, issued, agreed, straddlers>>
      \/ \E r \in Requests : IssueTokens(r)
      \/ \E new \in {"ACTIVE", "DISABLED"} : ChangeTerms(new)
  BY DEF Next, vars, ReadAccount, CheckCode, ClaimCode, BeginRefresh, ReadToken, RevokeToken, StoreTokens,
         EndSession, Lose, BeginLogout, RevokeOnLogout, ClearTab, Reactivate, RevokeSession
<1> QED
  BY <1>1, <1>2, <1>3, <1>4

(* Signed out everywhere: only a request that was under way when the terms   *)
(* changed can leave a session on the old ones.                              *)
THEOREM ChangedTermsTakeEffect == Spec => []TermsTakeEffect
<1>1. TermsInv => TermsTakeEffect
  BY DEF TermsInv
<1> QED
  BY TermsInit, TermsStep, <1>1, PTL DEF Spec

-------------------------------------------------------------------------------
(* A live token is held, and nobody is wronged *)

Working == {"code", "claim", "read", "revoke", "issue", "answer", "refused"}
Busy(r) == me[r].pc \in Working
Others(r) == {q \in Requests \ {r} : TabOf[q] = TabOf[r]}

\* One request of a tab signs in or refreshes at a time: refreshInFlight says so, or the tab has no session yet.
OneAtATime ==
    \A r \in Requests : Busy(r) =>
        /\ \A q \in Others(r) : ~Busy(q)
        /\ tab[TabOf[r]].refreshing \/ (tab[TabOf[r]] = NoSession /\ \A q \in Others(r) : At(q, "idle"))

\* Tokens that are held have been issued.
Known ==
    /\ \A b \in Tabs : tab[b].token \in 0 .. issued
    /\ \A r \in Requests : me[r].token \in 0 .. issued

\* No token is known to two tabs.
Apart ==
    /\ \A b, c \in Tabs : tab[b].token = tab[c].token /\ tab[b].token # 0 => b = c
    /\ \A b \in Tabs, r \in Requests : tab[b].token = me[r].token /\ me[r].token # 0 => TabOf[r] = b
    /\ \A q, r \in Requests : me[q].token = me[r].token /\ me[r].token # 0 => TabOf[q] = TabOf[r]

\* What a request on its way knows of the tab's token: nothing live is dropped with it.
SpentBy(r) ==
    /\ me[r].pc \in {"code", "claim"} => tab[TabOf[r]].token = 0
    /\ me[r].pc \in {"read", "revoke", "refused"} => tab[TabOf[r]].token \in {0, me[r].token}
    /\ At(r, "refused") => me[r].token \notin live \ straddlers
    /\ me[r].pc \in {"issue", "answer"} => tab[TabOf[r]].token \notin live
    /\ At(r, "clear") => me[r].token \notin live

Spent == \A r \in Requests : SpentBy(r)

\* A member without access has no session but a straddler's, and a request on the present terms found access.
Access ==
    /\ status # "ACTIVE" => live \subseteq straddlers
    /\ \A r \in Requests : me[r].pc \in {"code", "claim", "revoke", "issue"} =>
            me[r].terms <= terms /\ (me[r].terms = terms => status = "ACTIVE")

\* A token that a page may present was not rotated away by another.
Presentable ==
    /\ \A b \in Tabs : ~tab[b].refreshing /\ tab[b].token # 0 => tab[b].token \in live \union cut
    /\ \A r \in Requests : me[r].pc \in {"read", "answer"} => me[r].token \in live \union cut

PagesInv == TypeOK /\ Numbered /\ OneAtATime /\ Known /\ Apart /\ Spent /\ Access /\ Presentable /\ TokensAreHeld /\ NobodyIsWronged

LEMMA PagesInit == Init => PagesInv
<1> SUFFICES ASSUME Init PROVE PagesInv
  OBVIOUS
<1>1. TypeOK
  BY TypeInit
<1>2. live = {} /\ issued = 0 /\ status = "ACTIVE" /\ wronged = FALSE
  BY DEF Init
<1>3. \A r \in Requests : me[r].pc = "idle" /\ me[r].token = 0
  BY DEF Init, Idle
<1>4. \A b \in Tabs : tab[b].token = 0
  BY DEF Init, NoSession
<1>5. OneAtATime /\ Spent /\ Access /\ Presentable
  BY <1>2, <1>3, <1>4 DEF OneAtATime, Busy, Working, Spent, SpentBy, Access, Presentable, At
<1> QED
  BY <1>1, <1>2, <1>3, <1>4, <1>5 DEF PagesInv, Numbered, Known, Apart, TokensAreHeld, NobodyIsWronged

\* The actions, one after the other.

LEMMA Grounds ==
    ASSUME PagesInv, NEW r \in Requests
    PROVE  /\ issued \in Nat /\ terms \in Nat /\ live \subseteq 1 .. issued /\ 0 \notin live
           /\ TabOf[r] \in Tabs /\ me[r].token \in 0 .. issued /\ tab[TabOf[r]].token \in 0 .. issued
           /\ Busy(r) => \A q \in Requests \ {r} : TabOf[q] = TabOf[r] => me[q].pc \notin Working
<1>1. issued \in Nat /\ terms \in Nat /\ live \subseteq 1 .. issued
  BY DEF PagesInv, Numbered, TypeOK
<1>2. TabOf[r] \in Tabs /\ me[r].token \in 0 .. issued /\ tab[TabOf[r]].token \in 0 .. issued
  BY DEF PagesInv, Known
<1>3. Busy(r) => \A q \in Requests \ {r} : TabOf[q] = TabOf[r] => me[q].pc \notin Working
  BY DEF PagesInv, OneAtATime, Others, Busy
<1> QED
  BY <1>1, <1>2, <1>3

LEMMA PagesReadAccount == ASSUME PagesInv, NEW r \in Requests, ReadAccount(r) PROVE PagesInv'
<1> USE DEF account, factor, tokens
<1>0. /\ live \subseteq 1 .. issued /\ 0 \notin live /\ me[r].token \in 0 .. issued /\ tab[TabOf[r]].token \in 0 .. issued
  BY Grounds DEF ReadAccount, At, Busy, Working
<1>1. TypeOK /\ TypeOK' /\ TabOf[r] \in Tabs /\ terms \in Nat /\ issued \in Nat
  BY TypeStep, Grounds DEF PagesInv, Next
<1>2. (me'[r].pc = "code" /\ me'[r].token = 0 /\ me'[r].terms = terms)
  BY <1>1 DEF ReadAccount, TypeOK
<1>3. \A q \in Requests \ {r} : me'[q] = me[q]
  BY DEF ReadAccount
<1>4. UNCHANGED <<status, terms, live, issued, cut, straddlers, tab, lost, wronged>>
  BY DEF ReadAccount
<1>5. me[r].pc = "idle" /\ tab[TabOf[r]] = NoSession /\ status = "ACTIVE" /\ \A q \in Others(r) : At(q, "idle")
  BY DEF ReadAccount, At, Others
<1>6. Numbered' /\ NobodyIsWronged'
  BY <1>4 DEF PagesInv, Numbered, NobodyIsWronged
<1>7. OneAtATime'
  BY <1>3, <1>4, <1>5 DEF PagesInv, OneAtATime, Busy, Others, At
<1>8. Known'
  BY <1>2, <1>3, <1>4, <1>5 DEF PagesInv, Known, NoSession
<1>9. Apart'
  BY <1>2, <1>3, <1>4 DEF PagesInv, Apart
<1>10. Spent'
  BY <1>2, <1>3, <1>4, <1>5 DEF PagesInv, Spent, SpentBy, At, NoSession
<1>11. Access'
  BY <1>1, <1>2, <1>3, <1>4, <1>5 DEF PagesInv, Access
<1>12. Presentable'
  BY <1>2, <1>3, <1>4 DEF PagesInv, Presentable
<1>13. TokensAreHeld'
  BY <1>3, <1>4, <1>5 DEF PagesInv, TokensAreHeld, At
<1> QED
  BY <1>1, <1>6, <1>7, <1>8, <1>9, <1>10, <1>11, <1>12, <1>13 DEF PagesInv

LEMMA PagesCheckCode == ASSUME PagesInv, NEW r \in Requests, CheckCode(r) PROVE PagesInv'
<1> USE DEF account, factor, tokens
<1>0. /\ live \subseteq 1 .. issued /\ 0 \notin live /\ me[r].token \in 0 .. issued /\ tab[TabOf[r]].token \in 0 .. issued
      /\ Busy(r) /\ \A q \in Requests \ {r} : TabOf[q] = TabOf[r] => me[q].pc \notin Working
  BY Grounds DEF CheckCode, At, Busy, Working
<1>1. TypeOK /\ TypeOK' /\ TabOf[r] \in Tabs /\ terms \in Nat /\ issued \in Nat
  BY TypeStep, Grounds DEF PagesInv, Next
<1>2. (me'[r].pc = "claim" /\ me'[r].token = me[r].token /\ me'[r].terms = me[r].terms) \/ (me'[r].pc = "idle" /\ me'[r].token = 0 /\ me'[r].terms = 0)
  BY <1>1 DEF CheckCode, TypeOK, Leave, Idle
<1>3. \A q \in Requests \ {r} : me'[q] = me[q]
  BY <1>1 DEF CheckCode, TypeOK, Leave
<1>4. UNCHANGED <<status, terms, live, issued, cut, straddlers, tab, lost, wronged>>
  BY DEF CheckCode
<1>5. me[r].pc = "code"
  BY DEF CheckCode, At
<1>6. Numbered' /\ NobodyIsWronged'
  BY <1>4 DEF PagesInv, Numbered, NobodyIsWronged
<1>7. OneAtATime'
  BY <1>3, <1>4, <1>5 DEF PagesInv, OneAtATime, Busy, Working, Others, At
<1>8. Known'
  BY <1>1, <1>2, <1>3, <1>4 DEF PagesInv, Known
<1>9. Apart'
  BY <1>2, <1>3, <1>4 DEF PagesInv, Apart
<1>10. Spent'
  BY <1>2, <1>3, <1>4, <1>5 DEF PagesInv, Spent, SpentBy, At
<1>11. Access'
  BY <1>2, <1>3, <1>4, <1>5 DEF PagesInv, Access
<1>12. Presentable'
  BY <1>2, <1>3, <1>4 DEF PagesInv, Presentable
<1>13. TokensAreHeld'
  BY <1>3, <1>4, <1>5 DEF PagesInv, TokensAreHeld, At
<1> QED
  BY <1>1, <1>6, <1>7, <1>8, <1>9, <1>10, <1>11, <1>12, <1>13 DEF PagesInv

LEMMA PagesClaimCode == ASSUME PagesInv, NEW r \in Requests, ClaimCode(r) PROVE PagesInv'
<1> USE DEF account, factor, tokens
<1>0. /\ live \subseteq 1 .. issued /\ 0 \notin live /\ me[r].token \in 0 .. issued /\ tab[TabOf[r]].token \in 0 .. issued
      /\ Busy(r) /\ \A q \in Requests \ {r} : TabOf[q] = TabOf[r] => me[q].pc \notin Working
  BY Grounds DEF ClaimCode, At, Busy, Working
<1>1. TypeOK /\ TypeOK' /\ TabOf[r] \in Tabs /\ terms \in Nat /\ issued \in Nat
  BY TypeStep, Grounds DEF PagesInv, Next
<1>2. (me'[r].pc = "issue" /\ me'[r].token = me[r].token /\ me'[r].terms = me[r].terms) \/ (me'[r].pc = "idle" /\ me'[r].token = 0 /\ me'[r].terms = 0)
  BY <1>1 DEF ClaimCode, TypeOK, Leave, Idle
<1>3. \A q \in Requests \ {r} : me'[q] = me[q]
  BY <1>1 DEF ClaimCode, TypeOK, Leave
<1>4. UNCHANGED <<status, terms, live, issued, cut, straddlers, tab, lost, wronged>>
  BY DEF ClaimCode
<1>5. me[r].pc = "claim"
  BY DEF ClaimCode, At
<1>6. Numbered' /\ NobodyIsWronged'
  BY <1>4 DEF PagesInv, Numbered, NobodyIsWronged
<1>7. OneAtATime'
  BY <1>3, <1>4, <1>5 DEF PagesInv, OneAtATime, Busy, Working, Others, At
<1>8. Known'
  BY <1>1, <1>2, <1>3, <1>4 DEF PagesInv, Known
<1>9. Apart'
  BY <1>2, <1>3, <1>4 DEF PagesInv, Apart
<1>10. Spent'
  <2> SUFFICES ASSUME NEW q \in Requests PROVE SpentBy(q)'
    BY DEF Spent
  <2>1. SpentBy(q)
    BY DEF PagesInv, Spent
  <2>2. CASE q = r
    BY <1>0, <1>2, <1>4, <1>5, <2>1, <2>2 DEF SpentBy, At
  <2>3. CASE q # r /\ TabOf[q] = TabOf[r]
    BY <1>3, <1>4, <2>1, <2>3 DEF SpentBy, At
  <2>4. CASE TabOf[q] # TabOf[r]
    <3>1. me'[q] = me[q] /\ tab'[TabOf[q]] = tab[TabOf[q]] /\ me[q].token \in 0 .. issued /\ tab[TabOf[q]].token \in 0 .. issued
      BY <1>3, <1>4, <2>4, Grounds
    <3> QED
      BY <1>4, <2>1, <3>1 DEF SpentBy, At
  <2> QED
    BY <2>2, <2>3, <2>4
<1>11. Access'
  BY <1>2, <1>3, <1>4, <1>5 DEF PagesInv, Access
<1>12. Presentable'
  BY <1>2, <1>3, <1>4 DEF PagesInv, Presentable
<1>13. TokensAreHeld'
  BY <1>3, <1>4, <1>5 DEF PagesInv, TokensAreHeld, At
<1> QED
  BY <1>1, <1>6, <1>7, <1>8, <1>9, <1>10, <1>11, <1>12, <1>13 DEF PagesInv

LEMMA PagesBeginRefresh == ASSUME PagesInv, NEW r \in Requests, BeginRefresh(r) PROVE PagesInv'
<1> USE DEF account, factor, tokens
<1>0. /\ live \subseteq 1 .. issued /\ 0 \notin live /\ me[r].token \in 0 .. issued /\ tab[TabOf[r]].token \in 0 .. issued
  BY Grounds DEF BeginRefresh, At, Busy, Working
<1>1. TypeOK /\ TypeOK' /\ TabOf[r] \in Tabs /\ terms \in Nat /\ issued \in Nat
  BY TypeStep, Grounds DEF PagesInv, Next
<1>2. me'[r].pc = "read" /\ me'[r].token = tab[TabOf[r]].token /\ me'[r].terms = 0
  BY <1>1 DEF BeginRefresh, TypeOK, Idle
<1>3. \A q \in Requests \ {r} : me'[q] = me[q]
  BY DEF BeginRefresh
<1>4. UNCHANGED <<status, terms, live, issued, cut, straddlers, lost, wronged>>
  BY DEF BeginRefresh
<1>5. /\ tab'[TabOf[r]].token = tab[TabOf[r]].token /\ tab'[TabOf[r]].refreshing
      /\ \A b \in Tabs \ {TabOf[r]} : tab'[b] = tab[b]
  BY <1>1 DEF BeginRefresh, TypeOK
<1>6. me[r].pc = "idle" /\ tab[TabOf[r]].token # 0 /\ ~tab[TabOf[r]].refreshing
  BY DEF BeginRefresh, At, Refreshing
<1>7. Numbered' /\ NobodyIsWronged'
  BY <1>4 DEF PagesInv, Numbered, NobodyIsWronged
<1>8. OneAtATime'
  <2>1. \A q \in Others(r) : ~Busy(q)
    BY <1>6 DEF PagesInv, OneAtATime, Others, NoSession
  <2> QED
    BY <1>3, <1>5, <2>1 DEF PagesInv, OneAtATime, Busy, Others, At
<1>9. Known'
  BY <1>2, <1>3, <1>4, <1>5 DEF PagesInv, Known
<1>10. Apart'
  BY <1>2, <1>3, <1>5 DEF PagesInv, Apart
<1>11. Spent'
  BY <1>2, <1>3, <1>4, <1>5 DEF PagesInv, Spent, SpentBy, At
<1>12. Access'
  BY <1>2, <1>3, <1>4 DEF PagesInv, Access
<1>13. Presentable'
  BY <1>2, <1>3, <1>4, <1>5, <1>6 DEF PagesInv, Presentable
<1>14. TokensAreHeld'
  BY <1>3, <1>4, <1>5, <1>6 DEF PagesInv, TokensAreHeld, At
<1> QED
  BY <1>1, <1>7, <1>8, <1>9, <1>10, <1>11, <1>12, <1>13, <1>14 DEF PagesInv

LEMMA PagesReadToken == ASSUME PagesInv, NEW r \in Requests, ReadToken(r) PROVE PagesInv'
<1> USE DEF account, factor, tokens
<1>0. /\ live \subseteq 1 .. issued /\ 0 \notin live /\ me[r].token \in 0 .. issued /\ tab[TabOf[r]].token \in 0 .. issued
      /\ Busy(r) /\ \A q \in Requests \ {r} : TabOf[q] = TabOf[r] => me[q].pc \notin Working
  BY Grounds DEF ReadToken, At, Busy, Working
<1>1. TypeOK /\ TypeOK' /\ TabOf[r] \in Tabs /\ terms \in Nat /\ issued \in Nat
  BY TypeStep, Grounds DEF PagesInv, Next
<1>2. (me'[r].pc = "revoke" /\ me'[r].token = me[r].token /\ me'[r].terms = terms /\ status = "ACTIVE")
         \/ (me'[r].pc = "refused" /\ me'[r].token = me[r].token /\ me'[r].terms = me[r].terms /\ ~(me[r].token \in live /\ status = "ACTIVE"))
  BY <1>1 DEF ReadToken, TypeOK
<1>3. \A q \in Requests \ {r} : me'[q] = me[q]
  BY <1>1 DEF ReadToken, TypeOK
<1>4. UNCHANGED <<status, terms, live, issued, cut, straddlers, tab, lost>>
  BY DEF ReadToken
<1>5. me[r].pc = "read"
  BY DEF ReadToken, At
<1>6. Numbered'
  BY <1>4 DEF PagesInv, Numbered
<1>7. OneAtATime'
  BY <1>3, <1>4, <1>5 DEF PagesInv, OneAtATime, Busy, Working, Others, At
<1>8. Known'
  BY <1>2, <1>3, <1>4 DEF PagesInv, Known
<1>9. Apart'
  BY <1>2, <1>3, <1>4 DEF PagesInv, Apart
<1>10. Spent'
  <2> SUFFICES ASSUME NEW q \in Requests PROVE SpentBy(q)'
    BY DEF Spent
  <2>1. SpentBy(q)
    BY DEF PagesInv, Spent
  <2>2. CASE q = r
    <3>1. me'[r].pc = "refused" => me[r].token \notin live \ straddlers
      BY <1>2 DEF PagesInv, Access
    <3> QED
      BY <1>2, <1>4, <1>5, <2>1, <2>2, <3>1 DEF SpentBy, At
  <2>3. CASE q # r /\ TabOf[q] = TabOf[r]
    BY <1>3, <1>4, <2>1, <2>3 DEF SpentBy, At
  <2>4. CASE TabOf[q] # TabOf[r]
    <3>1. me'[q] = me[q] /\ tab'[TabOf[q]] = tab[TabOf[q]] /\ me[q].token \in 0 .. issued /\ tab[TabOf[q]].token \in 0 .. issued
      BY <1>3, <1>4, <2>4, Grounds
    <3> QED
      BY <1>4, <2>1, <3>1 DEF SpentBy, At
  <2> QED
    BY <2>2, <2>3, <2>4
<1>11. Access'
  BY <1>1, <1>2, <1>3, <1>4 DEF PagesInv, Access
<1>12. Presentable'
  BY <1>2, <1>3, <1>4 DEF PagesInv, Presentable
<1>13. TokensAreHeld'
  <2>1. \A q \in Requests : me[q].pc = "answer" => me'[q] = me[q]
    BY <1>3, <1>5
  <2> QED
    BY <1>4, <2>1 DEF PagesInv, TokensAreHeld, At
<1>14. NobodyIsWronged'
  <2>1. me[r].token \in live \union cut
    BY <1>5 DEF PagesInv, Presentable
  <2>2. me[r].token \notin live \/ status # "ACTIVE" => ~(status = "ACTIVE" /\ me[r].token \notin cut)
    BY <2>1
  <2> QED
    BY <2>2 DEF ReadToken, PagesInv, NobodyIsWronged
<1> QED
  BY <1>1, <1>6, <1>7, <1>8, <1>9, <1>10, <1>11, <1>12, <1>13, <1>14 DEF PagesInv

LEMMA PagesRevokeToken == ASSUME PagesInv, NEW r \in Requests, RevokeToken(r) PROVE PagesInv'
<1> USE DEF account, factor, tokens
<1>0. /\ live \subseteq 1 .. issued /\ 0 \notin live /\ me[r].token \in 0 .. issued /\ tab[TabOf[r]].token \in 0 .. issued
      /\ Busy(r) /\ \A q \in Requests \ {r} : TabOf[q] = TabOf[r] => me[q].pc \notin Working
  BY Grounds DEF RevokeToken, At, Busy, Working
<1>1. TypeOK /\ TypeOK' /\ TabOf[r] \in Tabs /\ terms \in Nat /\ issued \in Nat
  BY TypeStep, Grounds DEF PagesInv, Next
<1>2. me'[r].pc = "issue" /\ me'[r].token = me[r].token /\ me'[r].terms = me[r].terms
  BY <1>1 DEF RevokeToken, TypeOK
<1>3. \A q \in Requests \ {r} : me'[q] = me[q]
  BY DEF RevokeToken
<1>4. UNCHANGED <<status, terms, issued, cut, straddlers, tab, lost, wronged>>
  BY DEF RevokeToken
<1>5. me[r].pc = "revoke" /\ live' = live \ {me[r].token}
  BY DEF RevokeToken, At, Rotated
<1>6. Numbered' /\ NobodyIsWronged'
  BY <1>4, <1>5 DEF PagesInv, Numbered, NobodyIsWronged
<1>7. OneAtATime'
  BY <1>3, <1>4, <1>5 DEF PagesInv, OneAtATime, Busy, Working, Others, At
<1>8. Known'
  BY <1>2, <1>3, <1>4 DEF PagesInv, Known
<1>9. Apart'
  BY <1>2, <1>3, <1>4 DEF PagesInv, Apart
<1>10. Spent'
  BY <1>0, <1>2, <1>3, <1>4, <1>5 DEF PagesInv, Spent, SpentBy, At
<1>11. Access'
  BY <1>2, <1>3, <1>4, <1>5 DEF PagesInv, Access
<1>12. Presentable'
  <2>1. ASSUME NEW b \in Tabs, ~tab[b].refreshing, tab[b].token # 0 PROVE tab[b].token # me[r].token
    <3>1. tab[b].token = me[r].token => TabOf[r] = b
      BY <2>1 DEF PagesInv, Apart
    <3>2. tab[TabOf[r]].refreshing \/ tab[TabOf[r]].token = 0
      BY <1>0 DEF PagesInv, OneAtATime, NoSession
    <3> QED
      BY <2>1, <3>1, <3>2
  <2>2. ASSUME NEW q \in Requests, me[q].pc \in {"read", "answer"}, me[q].token # 0 PROVE me[q].token # me[r].token
    BY <1>0, <1>5, <2>2 DEF PagesInv, Apart, Working
  <2> QED
    BY <1>0, <1>2, <1>3, <1>4, <1>5, <2>1, <2>2 DEF PagesInv, Presentable
<1>13. TokensAreHeld'
  BY <1>3, <1>4, <1>5 DEF PagesInv, TokensAreHeld, At
<1> QED
  BY <1>1, <1>6, <1>7, <1>8, <1>9, <1>10, <1>11, <1>12, <1>13 DEF PagesInv

LEMMA PagesIssueTokens == ASSUME PagesInv, NEW r \in Requests, IssueTokens(r) PROVE PagesInv'
<1> USE DEF account, factor, tokens
<1>0. /\ live \subseteq 1 .. issued /\ 0 \notin live /\ me[r].token \in 0 .. issued /\ tab[TabOf[r]].token \in 0 .. issued
      /\ Busy(r) /\ \A q \in Requests \ {r} : TabOf[q] = TabOf[r] => me[q].pc \notin Working
  BY Grounds DEF IssueTokens, At, Busy, Working
<1>1. TypeOK /\ TypeOK' /\ TabOf[r] \in Tabs /\ terms \in Nat /\ issued \in Nat
  BY TypeStep, Grounds DEF PagesInv, Next
<1>2. me'[r].pc = "answer" /\ me'[r].token = issued + 1 /\ me'[r].terms = me[r].terms
  BY <1>1 DEF IssueTokens, TypeOK
<1>3. \A q \in Requests \ {r} : me'[q] = me[q]
  BY <1>1 DEF IssueTokens, TypeOK
<1>4. UNCHANGED <<status, terms, cut, tab, lost, wronged>>
  BY DEF IssueTokens
<1>5. me[r].pc = "issue" /\ live' = live \union {issued + 1} /\ issued' = issued + 1 /\ straddlers' = IF me[r].terms = terms THEN straddlers ELSE straddlers \union {issued + 1}
  BY DEF IssueTokens, At
<1>6. Numbered' /\ NobodyIsWronged'
  <2>1. \A t \in 1 .. issued : t \in 1 .. issued + 1
    BY <1>1
  <2>2. issued + 1 \in 1 .. issued + 1
    BY <1>1
  <2>3. live' \subseteq 1 .. issued'
    BY <1>0, <1>5, <2>1, <2>2
  <2>4. NobodyIsWronged'
    BY <1>4 DEF PagesInv, NobodyIsWronged
  <2> QED
    BY <2>3, <2>4 DEF Numbered
<1>7. OneAtATime'
  BY <1>3, <1>4, <1>5 DEF PagesInv, OneAtATime, Busy, Working, Others, At
<1>8. Known'
  BY <1>1, <1>2, <1>3, <1>4, <1>5 DEF PagesInv, Known
<1>9. Apart'
  <2>1. \A b \in Tabs : tab'[b].token # me'[r].token
    BY <1>1, <1>2, <1>4 DEF PagesInv, Known
  <2>2. \A q \in Requests \ {r} : me'[q].token # me'[r].token
    BY <1>1, <1>2, <1>3 DEF PagesInv, Known
  <2> QED
    BY <1>3, <1>4, <2>1, <2>2 DEF PagesInv, Apart
<1>10. Spent'
  <2> SUFFICES ASSUME NEW q \in Requests PROVE SpentBy(q)'
    BY DEF Spent
  <2>1. SpentBy(q)
    BY DEF PagesInv, Spent
  <2>2. CASE q = r
    BY <1>0, <1>1, <1>2, <1>4, <1>5, <2>1, <2>2 DEF SpentBy, At
  <2>3. CASE q # r /\ TabOf[q] = TabOf[r]
    <3>1. me[q].token \in 0 .. issued
      BY Grounds
    <3> QED
      BY <1>0, <1>1, <1>3, <1>5, <2>1, <2>3, <3>1 DEF SpentBy, At, Working
  <2>4. CASE TabOf[q] # TabOf[r]
    <3>1. me'[q] = me[q] /\ tab'[TabOf[q]] = tab[TabOf[q]] /\ me[q].token \in 0 .. issued /\ tab[TabOf[q]].token \in 0 .. issued
      BY <1>3, <1>4, <2>4, Grounds
    <3> QED
      BY <1>1, <1>5, <2>1, <3>1 DEF SpentBy, At
  <2> QED
    BY <2>2, <2>3, <2>4
<1>11. Access'
  BY <1>2, <1>3, <1>4, <1>5 DEF PagesInv, Access
<1>12. Presentable'
  BY <1>2, <1>3, <1>4, <1>5 DEF PagesInv, Presentable
<1>13. TokensAreHeld'
  BY <1>2, <1>3, <1>4, <1>5 DEF PagesInv, TokensAreHeld, At
<1> QED
  BY <1>1, <1>6, <1>7, <1>8, <1>9, <1>10, <1>11, <1>12, <1>13 DEF PagesInv

LEMMA PagesStoreTokens == ASSUME PagesInv, NEW r \in Requests, StoreTokens(r) PROVE PagesInv'
<1> USE DEF account, factor, tokens
<1>0. /\ live \subseteq 1 .. issued /\ 0 \notin live /\ me[r].token \in 0 .. issued /\ tab[TabOf[r]].token \in 0 .. issued
      /\ Busy(r) /\ \A q \in Requests \ {r} : TabOf[q] = TabOf[r] => me[q].pc \notin Working
  BY Grounds DEF StoreTokens, At, Busy, Working
<1>1. TypeOK /\ TypeOK' /\ TabOf[r] \in Tabs /\ terms \in Nat /\ issued \in Nat
  BY TypeStep, Grounds DEF PagesInv, Next
<1>2. me'[r].pc = "idle" /\ me'[r].token = 0 /\ me'[r].terms = 0
  BY <1>1 DEF StoreTokens, TypeOK, Leave, Idle
<1>3. \A q \in Requests \ {r} : me'[q] = me[q]
  BY DEF StoreTokens, Leave
<1>4. UNCHANGED <<status, terms, live, issued, cut, straddlers, lost, wronged>>
  BY DEF StoreTokens
<1>5. /\ tab'[TabOf[r]].token = me[r].token /\ tab'[TabOf[r]].refreshing = FALSE
      /\ \A b \in Tabs \ {TabOf[r]} : tab'[b] = tab[b]
  BY <1>1 DEF StoreTokens, TypeOK
<1>6. me[r].pc = "answer"
  BY DEF StoreTokens, At
<1>7. Numbered' /\ NobodyIsWronged'
  BY <1>4 DEF PagesInv, Numbered, NobodyIsWronged
<1>8. OneAtATime'
  BY <1>2, <1>3, <1>5, <1>6 DEF PagesInv, OneAtATime, Busy, Working, Others, At
<1>9. Known'
  BY <1>1, <1>2, <1>3, <1>4, <1>5 DEF PagesInv, Known
<1>10. Apart'
  BY <1>2, <1>3, <1>5 DEF PagesInv, Apart
<1>11. Spent'
  <2> SUFFICES ASSUME NEW q \in Requests PROVE SpentBy(q)'
    BY DEF Spent
  <2>1. SpentBy(q)
    BY DEF PagesInv, Spent
  <2>2. CASE q = r
    BY <1>2, <2>2 DEF SpentBy, At
  <2>3. CASE q # r /\ TabOf[q] = TabOf[r]
    BY <1>0, <1>3, <1>4, <2>1, <2>3 DEF SpentBy, At, Working
  <2>4. CASE TabOf[q] # TabOf[r]
    <3>1. me'[q] = me[q] /\ tab'[TabOf[q]] = tab[TabOf[q]] /\ me[q].token \in 0 .. issued /\ tab[TabOf[q]].token \in 0 .. issued
      BY <1>3, <1>5, <2>4, Grounds
    <3> QED
      BY <1>4, <2>1, <3>1 DEF SpentBy, At
  <2> QED
    BY <2>2, <2>3, <2>4
<1>12. Access'
  BY <1>2, <1>3, <1>4 DEF PagesInv, Access
<1>13. Presentable'
  BY <1>2, <1>3, <1>4, <1>5, <1>6 DEF PagesInv, Presentable
<1>14. TokensAreHeld'
  <2> SUFFICES ASSUME NEW t \in live' \ (lost' \union straddlers')
               PROVE  \/ \E b \in Tabs : tab'[b].token = t
                      \/ \E q \in Requests : me'[q].token = t /\ me'[q].pc = "answer"
    BY DEF TokensAreHeld, At
  <2>1. t \in live \ (lost \union straddlers) /\ t # 0
    BY <1>0, <1>4
  <2>2. ASSUME NEW b \in Tabs, tab[b].token = t
        PROVE  \E c \in Tabs : tab'[c].token = t
    <3>1. b # TabOf[r]
      BY <1>6, <2>1, <2>2 DEF PagesInv, Spent, SpentBy
    <3> QED
      BY <1>5, <2>2, <3>1
  <2>3. ASSUME NEW q \in Requests, me[q].token = t, me[q].pc = "answer"
        PROVE  \/ \E b \in Tabs : tab'[b].token = t
               \/ \E p \in Requests : me'[p].token = t /\ me'[p].pc = "answer"
    BY <1>3, <1>5, <2>3
  <2> QED
    BY <2>1, <2>2, <2>3 DEF PagesInv, TokensAreHeld, At
<1> QED
  BY <1>1, <1>7, <1>8, <1>9, <1>10, <1>11, <1>12, <1>13, <1>14 DEF PagesInv

LEMMA PagesEndSession == ASSUME PagesInv, NEW r \in Requests, EndSession(r) PROVE PagesInv'
<1> USE DEF account, factor, tokens
<1>0. /\ live \subseteq 1 .. issued /\ 0 \notin live /\ me[r].token \in 0 .. issued /\ tab[TabOf[r]].token \in 0 .. issued
      /\ Busy(r) /\ \A q \in Requests \ {r} : TabOf[q] = TabOf[r] => me[q].pc \notin Working
  BY Grounds DEF EndSession, At, Busy, Working
<1>1. TypeOK /\ TypeOK' /\ TabOf[r] \in Tabs /\ terms \in Nat /\ issued \in Nat
  BY TypeStep, Grounds DEF PagesInv, Next
<1>2. me'[r].pc = "idle" /\ me'[r].token = 0 /\ me'[r].terms = 0
  BY <1>1 DEF EndSession, TypeOK, Leave, Idle
<1>3. \A q \in Requests \ {r} : me'[q] = me[q]
  BY DEF EndSession, Leave
<1>4. UNCHANGED <<status, terms, live, issued, cut, straddlers, lost, wronged>>
  BY DEF EndSession
<1>5. /\ tab'[TabOf[r]] = NoSession
      /\ \A b \in Tabs \ {TabOf[r]} : tab'[b] = tab[b]
  BY <1>1 DEF EndSession, TypeOK
<1>6. me[r].pc = "refused"
  BY DEF EndSession, At
<1>7. Numbered' /\ NobodyIsWronged'
  BY <1>4 DEF PagesInv, Numbered, NobodyIsWronged
<1>8. OneAtATime'
  BY <1>2, <1>3, <1>5, <1>6 DEF PagesInv, OneAtATime, Busy, Working, Others, At
<1>9. Known'
  BY <1>1, <1>2, <1>3, <1>4, <1>5 DEF PagesInv, Known, NoSession
<1>10. Apart'
  BY <1>2, <1>3, <1>5 DEF PagesInv, Apart, NoSession
<1>11. Spent'
  BY <1>0, <1>2, <1>3, <1>4, <1>5 DEF PagesInv, Spent, SpentBy, At, NoSession
<1>12. Access'
  BY <1>2, <1>3, <1>4 DEF PagesInv, Access
<1>13. Presentable'
  BY <1>2, <1>3, <1>4, <1>5 DEF PagesInv, Presentable, NoSession
<1>14. TokensAreHeld'
  <2> SUFFICES ASSUME NEW t \in live' \ (lost' \union straddlers')
               PROVE  \/ \E b \in Tabs : tab'[b].token = t
                      \/ \E q \in Requests : me'[q].token = t /\ me'[q].pc = "answer"
    BY DEF TokensAreHeld, At
  <2>1. t \in live \ (lost \union straddlers) /\ t # 0
    BY <1>0, <1>4
  <2>2. ASSUME NEW b \in Tabs, tab[b].token = t
        PROVE  \E c \in Tabs : tab'[c].token = t
    <3>1. b # TabOf[r]
      BY <1>6, <2>1, <2>2 DEF PagesInv, Spent, SpentBy, At
    <3> QED
      BY <1>5, <2>2, <3>1
  <2>3. ASSUME NEW q \in Requests, me[q].token = t, me[q].pc = "answer"
        PROVE  \/ \E b \in Tabs : tab'[b].token = t
               \/ \E p \in Requests : me'[p].token = t /\ me'[p].pc = "answer"
    BY <1>3, <1>6, <2>3
  <2> QED
    BY <2>1, <2>2, <2>3 DEF PagesInv, TokensAreHeld, At
<1> QED
  BY <1>1, <1>7, <1>8, <1>9, <1>10, <1>11, <1>12, <1>13, <1>14 DEF PagesInv

LEMMA PagesLose == ASSUME PagesInv, NEW r \in Requests, Lose(r) PROVE PagesInv'
<1> USE DEF account, factor, tokens
<1>0. /\ live \subseteq 1 .. issued /\ 0 \notin live /\ me[r].token \in 0 .. issued /\ tab[TabOf[r]].token \in 0 .. issued
      /\ Busy(r) /\ \A q \in Requests \ {r} : TabOf[q] = TabOf[r] => me[q].pc \notin Working
  BY Grounds DEF Lose, At, Busy, Working
<1>1. TypeOK /\ TypeOK' /\ TabOf[r] \in Tabs /\ terms \in Nat /\ issued \in Nat
  BY TypeStep, Grounds DEF PagesInv, Next
<1>2. me'[r].pc = "idle" /\ me'[r].token = 0 /\ me'[r].terms = 0
  BY <1>1 DEF Lose, TypeOK, Leave, Idle
<1>3. \A q \in Requests \ {r} : me'[q] = me[q]
  BY DEF Lose, Leave
<1>4. UNCHANGED <<status, terms, live, issued, cut, straddlers, wronged>>
  BY DEF Lose
<1>5. /\ tab'[TabOf[r]] = NoSession
      /\ \A b \in Tabs \ {TabOf[r]} : tab'[b] = tab[b]
  BY <1>1 DEF Lose, TypeOK
<1>6. lost' = lost \union {me[r].token} /\ me[r].pc \in {"read", "answer"}
  BY DEF Lose, At
<1>7. Numbered' /\ NobodyIsWronged'
  BY <1>4 DEF PagesInv, Numbered, NobodyIsWronged
<1>8. OneAtATime'
  BY <1>2, <1>3, <1>5, <1>6 DEF PagesInv, OneAtATime, Busy, Working, Others, At
<1>9. Known'
  BY <1>1, <1>2, <1>3, <1>4, <1>5 DEF PagesInv, Known, NoSession
<1>10. Apart'
  BY <1>2, <1>3, <1>5 DEF PagesInv, Apart, NoSession
<1>11. Spent'
  BY <1>0, <1>2, <1>3, <1>4, <1>5 DEF PagesInv, Spent, SpentBy, At, NoSession
<1>12. Access'
  BY <1>2, <1>3, <1>4 DEF PagesInv, Access
<1>13. Presentable'
  BY <1>2, <1>3, <1>4, <1>5 DEF PagesInv, Presentable, NoSession
<1>14. TokensAreHeld'
  <2> SUFFICES ASSUME NEW t \in live' \ (lost' \union straddlers')
               PROVE  \/ \E b \in Tabs : tab'[b].token = t
                      \/ \E q \in Requests : me'[q].token = t /\ me'[q].pc = "answer"
    BY DEF TokensAreHeld, At
  <2>1. t \in live \ (lost \union straddlers) /\ t # 0
    BY <1>0, <1>4, <1>6
  <2>2. ASSUME NEW b \in Tabs, tab[b].token = t
        PROVE  \E c \in Tabs : tab'[c].token = t
    <3>1. b # TabOf[r]
      BY <1>6, <2>1, <2>2 DEF PagesInv, Spent, SpentBy
    <3> QED
      BY <1>5, <2>2, <3>1
  <2>3. ASSUME NEW q \in Requests, me[q].token = t, me[q].pc = "answer"
        PROVE  \/ \E b \in Tabs : tab'[b].token = t
               \/ \E p \in Requests : me'[p].token = t /\ me'[p].pc = "answer"
    BY <1>3, <1>6, <2>3
  <2> QED
    BY <2>1, <2>2, <2>3 DEF PagesInv, TokensAreHeld, At
<1> QED
  BY <1>1, <1>7, <1>8, <1>9, <1>10, <1>11, <1>12, <1>13, <1>14 DEF PagesInv

LEMMA PagesBeginLogout == ASSUME PagesInv, NEW r \in Requests, BeginLogout(r) PROVE PagesInv'
<1> USE DEF account, factor, tokens
<1>0. /\ live \subseteq 1 .. issued /\ 0 \notin live /\ me[r].token \in 0 .. issued /\ tab[TabOf[r]].token \in 0 .. issued
  BY Grounds DEF BeginLogout, At, Busy, Working
<1>1. TypeOK /\ TypeOK' /\ TabOf[r] \in Tabs /\ terms \in Nat /\ issued \in Nat
  BY TypeStep, Grounds DEF PagesInv, Next
<1>2. me'[r].pc = "logout" /\ me'[r].token = tab[TabOf[r]].token /\ me'[r].terms = 0
  BY <1>1 DEF BeginLogout, TypeOK, Idle
<1>3. \A q \in Requests \ {r} : me'[q] = me[q]
  BY DEF BeginLogout
<1>4. UNCHANGED <<status, terms, live, issued, cut, straddlers, tab, lost, wronged>>
  BY DEF BeginLogout
<1>5. me[r].pc = "idle" /\ tab[TabOf[r]].token # 0
  BY DEF BeginLogout, At
<1>6. Numbered' /\ NobodyIsWronged'
  BY <1>4 DEF PagesInv, Numbered, NobodyIsWronged
<1>7. OneAtATime'
  <2>1. tab[TabOf[r]] # NoSession
    BY <1>5 DEF NoSession
  <2> QED
    BY <1>2, <1>3, <1>4, <2>1 DEF PagesInv, OneAtATime, Busy, Working, Others, At
<1>8. Known'
  BY <1>2, <1>3, <1>4 DEF PagesInv, Known
<1>9. Apart'
  BY <1>2, <1>3, <1>4 DEF PagesInv, Apart
<1>10. Spent'
  BY <1>2, <1>3, <1>4 DEF PagesInv, Spent, SpentBy, At
<1>11. Access'
  BY <1>2, <1>3, <1>4 DEF PagesInv, Access
<1>12. Presentable'
  BY <1>2, <1>3, <1>4 DEF PagesInv, Presentable
<1>13. TokensAreHeld'
  BY <1>3, <1>4, <1>5 DEF PagesInv, TokensAreHeld, At
<1> QED
  BY <1>1, <1>6, <1>7, <1>8, <1>9, <1>10, <1>11, <1>12, <1>13 DEF PagesInv

LEMMA PagesRevokeOnLogout == ASSUME PagesInv, NEW r \in Requests, RevokeOnLogout(r) PROVE PagesInv'
<1> USE DEF account, factor, tokens
<1>0. /\ live \subseteq 1 .. issued /\ 0 \notin live /\ me[r].token \in 0 .. issued /\ tab[TabOf[r]].token \in 0 .. issued
  BY Grounds DEF RevokeOnLogout, At, Busy, Working
<1>1. TypeOK /\ TypeOK' /\ TabOf[r] \in Tabs /\ terms \in Nat /\ issued \in Nat
  BY TypeStep, Grounds DEF PagesInv, Next
<1>2. me'[r].pc = "clear" /\ me'[r].token = me[r].token /\ me'[r].terms = me[r].terms
  BY <1>1 DEF RevokeOnLogout, TypeOK
<1>3. \A q \in Requests \ {r} : me'[q] = me[q]
  BY DEF RevokeOnLogout
<1>4. UNCHANGED <<status, terms, issued, straddlers, tab, lost, wronged>>
  BY DEF RevokeOnLogout
<1>5. me[r].pc = "logout" /\ live' = live \ {me[r].token} /\ cut' = cut \union {me[r].token}
  BY DEF RevokeOnLogout, At
<1>6. Numbered' /\ NobodyIsWronged'
  BY <1>4, <1>5 DEF PagesInv, Numbered, NobodyIsWronged
<1>7. OneAtATime'
  BY <1>2, <1>3, <1>4, <1>5 DEF PagesInv, OneAtATime, Busy, Working, Others, At
<1>8. Known'
  BY <1>2, <1>3, <1>4 DEF PagesInv, Known
<1>9. Apart'
  BY <1>2, <1>3, <1>4 DEF PagesInv, Apart
<1>10. Spent'
  BY <1>2, <1>3, <1>4, <1>5 DEF PagesInv, Spent, SpentBy, At
<1>11. Access'
  BY <1>2, <1>3, <1>4, <1>5 DEF PagesInv, Access
<1>12. Presentable'
  BY <1>2, <1>3, <1>4, <1>5 DEF PagesInv, Presentable
<1>13. TokensAreHeld'
  BY <1>3, <1>4, <1>5 DEF PagesInv, TokensAreHeld, At
<1> QED
  BY <1>1, <1>6, <1>7, <1>8, <1>9, <1>10, <1>11, <1>12, <1>13 DEF PagesInv

LEMMA PagesClearTab == ASSUME PagesInv, NEW r \in Requests, ClearTab(r) PROVE PagesInv'
<1> USE DEF account, factor, tokens
<1>0. /\ live \subseteq 1 .. issued /\ 0 \notin live /\ me[r].token \in 0 .. issued /\ tab[TabOf[r]].token \in 0 .. issued
  BY Grounds DEF ClearTab, At, Busy, Working
<1>1. TypeOK /\ TypeOK' /\ TabOf[r] \in Tabs /\ terms \in Nat /\ issued \in Nat
  BY TypeStep, Grounds DEF PagesInv, Next
<1>2. me'[r].pc = "idle" /\ me'[r].token = 0 /\ me'[r].terms = 0
  BY <1>1 DEF ClearTab, TypeOK, Leave, Idle
<1>3. \A q \in Requests \ {r} : me'[q] = me[q]
  BY DEF ClearTab, Leave
<1>4. UNCHANGED <<status, terms, live, issued, cut, straddlers, wronged>>
  BY DEF ClearTab
<1>5. /\ tab'[TabOf[r]].token = 0 /\ tab'[TabOf[r]].refreshing = tab[TabOf[r]].refreshing
      /\ \A b \in Tabs \ {TabOf[r]} : tab'[b] = tab[b]
  BY <1>1 DEF ClearTab, TypeOK
<1>6. me[r].pc = "clear" /\ lost' = lost \union ({tab[TabOf[r]].token} \ {0, me[r].token})
  BY DEF ClearTab, At
<1>7. Numbered' /\ NobodyIsWronged'
  BY <1>4 DEF PagesInv, Numbered, NobodyIsWronged
<1>8. OneAtATime'
  BY <1>2, <1>3, <1>5, <1>6 DEF PagesInv, OneAtATime, Busy, Working, Others, At
<1>9. Known'
  BY <1>1, <1>2, <1>3, <1>4, <1>5 DEF PagesInv, Known
<1>10. Apart'
  BY <1>2, <1>3, <1>5 DEF PagesInv, Apart
<1>11. Spent'
  BY <1>0, <1>2, <1>3, <1>4, <1>5 DEF PagesInv, Spent, SpentBy, At
<1>12. Access'
  BY <1>2, <1>3, <1>4 DEF PagesInv, Access
<1>13. Presentable'
  BY <1>2, <1>3, <1>4, <1>5 DEF PagesInv, Presentable
<1>14. TokensAreHeld'
  <2> SUFFICES ASSUME NEW t \in live' \ (lost' \union straddlers')
               PROVE  \/ \E b \in Tabs : tab'[b].token = t
                      \/ \E q \in Requests : me'[q].token = t /\ me'[q].pc = "answer"
    BY DEF TokensAreHeld, At
  <2>1. t \in live \ (lost \union straddlers) /\ t # 0
    BY <1>0, <1>4, <1>6
  <2>2. ASSUME NEW b \in Tabs, tab[b].token = t
        PROVE  \E c \in Tabs : tab'[c].token = t
    <3>1. b # TabOf[r]
      BY <1>6, <2>1, <2>2 DEF PagesInv, Spent, SpentBy, At
    <3> QED
      BY <1>5, <2>2, <3>1
  <2>3. ASSUME NEW q \in Requests, me[q].token = t, me[q].pc = "answer"
        PROVE  \/ \E b \in Tabs : tab'[b].token = t
               \/ \E p \in Requests : me'[p].token = t /\ me'[p].pc = "answer"
    BY <1>3, <1>6, <2>3
  <2> QED
    BY <2>1, <2>2, <2>3 DEF PagesInv, TokensAreHeld, At
<1> QED
  BY <1>1, <1>7, <1>8, <1>9, <1>10, <1>11, <1>12, <1>13, <1>14 DEF PagesInv

LEMMA PagesStep == PagesInv /\ [Next]_vars => PagesInv'
<1> SUFFICES ASSUME PagesInv, [Next]_vars PROVE PagesInv'
  OBVIOUS
<1>1. CASE \E r \in Requests :
              \/ ReadAccount(r) \/ CheckCode(r) \/ ClaimCode(r)
              \/ BeginRefresh(r) \/ ReadToken(r) \/ RevokeToken(r) \/ IssueTokens(r)
              \/ StoreTokens(r) \/ EndSession(r) \/ Lose(r)
              \/ BeginLogout(r) \/ RevokeOnLogout(r) \/ ClearTab(r)
  BY <1>1, PagesReadAccount, PagesCheckCode, PagesClaimCode, PagesBeginRefresh, PagesReadToken, PagesRevokeToken,
     PagesIssueTokens, PagesStoreTokens, PagesEndSession, PagesLose, PagesBeginLogout, PagesRevokeOnLogout, PagesClearTab
<1>2. ASSUME NEW new \in {"ACTIVE", "DISABLED"}, ChangeTerms(new) PROVE PagesInv'
  <2>1. TypeOK'
    BY TypeStep DEF PagesInv
  <2>2. live' = {} /\ cut' = cut \union live /\ terms' = terms + 1 /\ terms \in Nat
    BY <1>2 DEF ChangeTerms, Ended, PagesInv, TypeOK
  <2>3. UNCHANGED <<issued, straddlers, tab, me, lost, wronged>>
    BY <1>2 DEF ChangeTerms
  <2>4. Access'
    <3>1. \A r \in Requests : me[r].terms \in Nat
      BY Recorded DEF PagesInv, Records
    <3> QED
      BY <2>2, <2>3, <3>1 DEF PagesInv, Access
  <2>5. Spent' /\ Presentable'
    BY <2>2, <2>3 DEF PagesInv, Spent, SpentBy, Presentable
  <2> QED
    BY <2>1, <2>2, <2>3, <2>4, <2>5
    DEF PagesInv, Numbered, OneAtATime, Others, Busy, Known, Apart, TokensAreHeld, NobodyIsWronged, At
<1>3. CASE Reactivate
  <2>1. TypeOK'
    BY TypeStep DEF PagesInv
  <2>2. status' = "ACTIVE" /\ UNCHANGED <<terms, live, issued, cut, straddlers, tab, me, lost, wronged>>
    BY <1>3 DEF Reactivate, tokens
  <2> QED
    BY <2>1, <2>2 DEF PagesInv, Numbered, OneAtATime, Busy, Known, Apart, Spent, SpentBy, Access, Presentable,
                      TokensAreHeld, NobodyIsWronged, At
<1>4. ASSUME NEW t \in Tokens, RevokeSession(t) PROVE PagesInv'
  <2>1. TypeOK'
    BY TypeStep DEF PagesInv
  <2>2. live' = live \ {t} /\ cut' = cut \union {t} /\ UNCHANGED <<status, terms, issued, straddlers, tab, me, lost, wronged>>
    BY <1>4 DEF RevokeSession
  <2>3. Spent' /\ Presentable'
    BY <2>2 DEF PagesInv, Spent, SpentBy, Presentable, At
  <2>4. Numbered' /\ Access' /\ TokensAreHeld'
    BY <2>2 DEF PagesInv, Numbered, Access, TokensAreHeld, At
  <2> QED
    BY <2>1, <2>2, <2>3, <2>4 DEF PagesInv, OneAtATime, Busy, Known, Apart, NobodyIsWronged, At
<1>5. CASE UNCHANGED vars
  BY <1>5 DEF vars, PagesInv, TypeOK, Numbered, OneAtATime, Busy, Known, Apart, Spent, SpentBy, Access, Presentable,
              TokensAreHeld, NobodyIsWronged, At
<1> QED
  BY <1>1, <1>2, <1>3, <1>4, <1>5 DEF Next

(* A live token is the one a tab holds or is about to: no refresh, logout or *)
(* sign-in leaves another behind, but for answers that were lost or came too *)
(* late, and requests under way across a change of terms.                    *)
THEOREM LiveTokensAreHeld == Spec => []TokensAreHeld
<1>1. PagesInv => TokensAreHeld
  BY DEF PagesInv
<1> QED
  BY PagesInit, PagesStep, <1>1, PTL DEF Spec

(* A refresh is refused only to a member who lost access, or with a token    *)
(* that somebody revoked: the pages never spend one another's token.         *)
THEOREM NoRefreshWronged == Spec => []NobodyIsWronged
<1>1. PagesInv => NobodyIsWronged
  BY DEF PagesInv
<1> QED
  BY PagesInit, PagesStep, <1>1, PTL DEF Spec
===============================================================================
