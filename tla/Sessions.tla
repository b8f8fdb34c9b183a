-------------------------------- MODULE Sessions --------------------------------
(***************************************************************************)
(* The sessions of one member: sign-in with a second factor, the rotation  *)
(* of refresh tokens and logout (auth.service.ts, two-factor.service.ts),  *)
(* the browser's side of it (api-client.ts), and the changes that sign the *)
(* member out everywhere (users.service.ts, a new password).               *)
(*                                                                         *)
(* A tab keeps its refresh token to itself, in sessionStorage; a page runs *)
(* several requests at once.  Every database statement is a step, and an   *)
(* answer can be lost on its way back.                                     *)
(***************************************************************************)
EXTENDS Integers, FiniteSets

CONSTANTS
    Tabs,
    Requests,       \* requests of the pages
    TabOf,          \* the tab each request belongs to
    MaxTokens,      \* bound: refresh tokens ever issued
    MaxCode,        \* bound: the last code the authenticator shows
    MaxChanges,     \* bound: changes that concern the member's sessions
    MaxLosses       \* bound: answers that are lost

ASSUME SessionsAssumption ==
    /\ TabOf \in [Requests -> Tabs]
    /\ MaxTokens \in Nat /\ MaxCode \in Nat /\ MaxChanges \in Nat /\ MaxLosses \in Nat

VARIABLES
    status,         \* the member's status
    terms,          \* how often the member was signed out everywhere, on a demotion or another change
    live,           \* refresh tokens that are not revoked
    issued,         \* refresh tokens issued so far, numbered from 1
    agreed,         \* agreed[t]: the terms read by the request that issued token t
    lastUsed,       \* the last code an authenticator code was accepted for
    tab,            \* tab[b]: its refresh token, 0 for none, and whether a refresh is in flight
    me,             \* me[r]: where request r is, and what it has read
    cut,            \* tokens revoked by somebody, rather than rotated
    lost,           \* tokens in no tab: their answer was lost, or came after the tab had let go
    straddlers,     \* tokens issued to a request that overlapped a change of terms
    wins,           \* wins[c]: sign-ins that code c was good for
    wronged,        \* a refresh was refused although nobody had ended the session
    changes, losses

vars == <<status, terms, live, issued, agreed, lastUsed, tab, me, cut, lost, straddlers, wins, wronged, changes, losses>>

Tokens == 1 .. MaxTokens
Codes == 1 .. MaxCode
Idle == [pc |-> "idle", token |-> 0, terms |-> 0, code |-> 0]
NoSession == [token |-> 0, refreshing |-> FALSE]

Init ==
    /\ status = "ACTIVE" /\ terms = 0
    /\ live = {} /\ issued = 0
    /\ agreed = [t \in Tokens |-> 0]
    /\ lastUsed = 0
    /\ tab = [b \in Tabs |-> NoSession]
    /\ me = [r \in Requests |-> Idle]
    /\ cut = {} /\ lost = {} /\ straddlers = {}
    /\ wins = [c \in Codes |-> 0]
    /\ wronged = FALSE
    /\ changes = 0 /\ losses = 0

account == <<status, terms, changes>>
factor == <<lastUsed, wins>>
tokens == <<live, issued, agreed, cut, straddlers>>

At(r, step) == me[r].pc = step
Leave(r) == me' = [me EXCEPT ![r] = Idle]

-------------------------------------------------------------------------------
(* Sign-in, one at a time in a tab: the password was right, and a code comes *)
(* with the challenge.                                                       *)

ReadAccount(r) ==
    /\ tab[TabOf[r]] = NoSession
    /\ \A q \in Requests : TabOf[q] = TabOf[r] => At(q, "idle")
    /\ status = "ACTIVE"
    /\ \E c \in Codes : me' = [me EXCEPT ![r] = [pc |-> "code", token |-> 0, terms |-> terms, code |-> c]]
    /\ UNCHANGED <<account, tokens, factor, tab, lost, wronged, losses>>

\* A code is good for a step that is later than the last one used.
CheckCode(r) ==
    /\ At(r, "code")
    /\ IF me[r].code > lastUsed THEN me' = [me EXCEPT ![r].pc = "claim"] ELSE Leave(r)
    /\ UNCHANGED <<account, tokens, factor, tab, lost, wronged, losses>>

\* The code was checked a moment ago.
ClaimedAnyway(code) == TRUE

\* A conditional update, "so two requests racing with the same code cannot both win".
Claimed(code) == lastUsed < code

ClaimCode(r) ==
    /\ At(r, "claim")
    /\ IF Claimed(me[r].code)
       THEN /\ lastUsed' = me[r].code
            /\ wins' = [wins EXCEPT ![me[r].code] = @ + 1]
            /\ me' = [me EXCEPT ![r].pc = "issue"]
       ELSE Leave(r) /\ UNCHANGED factor
    /\ UNCHANGED <<account, tokens, tab, lost, wronged, losses>>

-------------------------------------------------------------------------------
(* refresh *)

\* Every request with an expired access token refreshes for itself.
NobodyRefreshes(b) == FALSE

\* refreshInFlight: the requests of a page share one.
Refreshing(b) == tab[b].refreshing

\* A request finds its access token expired.
BeginRefresh(r) ==
    /\ At(r, "idle")
    /\ tab[TabOf[r]].token # 0
    /\ ~Refreshing(TabOf[r])
    /\ tab' = [tab EXCEPT ![TabOf[r]].refreshing = TRUE]
    /\ me' = [me EXCEPT ![r] = [Idle EXCEPT !.pc = "read", !.token = tab[TabOf[r]].token]]
    /\ UNCHANGED <<account, tokens, factor, lost, wronged, losses>>

\* The token must be live and the account active; role and tenant are read again.
ReadToken(r) ==
    /\ At(r, "read")
    /\ IF me[r].token \in live /\ status = "ACTIVE"
       THEN /\ me' = [me EXCEPT ![r].pc = "revoke", ![r].terms = terms]
            /\ UNCHANGED wronged
       ELSE /\ me' = [me EXCEPT ![r].pc = "refused"]
            /\ wronged' = (wronged \/ (status = "ACTIVE" /\ me[r].token \notin cut))
    /\ UNCHANGED <<account, tokens, factor, tab, lost, losses>>

\* A new pair is issued and the old token is left as it is.
NothingRevoked(token) == {}

Rotated(token) == {token}

\* Unconditional: the token may have been revoked since.
RevokeToken(r) ==
    /\ At(r, "revoke")
    /\ live' = live \ Rotated(me[r].token)
    /\ me' = [me EXCEPT ![r].pc = "issue"]
    /\ UNCHANGED <<account, issued, agreed, cut, straddlers, factor, tab, lost, wronged, losses>>

\* issueTokens, for the terms read before.
IssueTokens(r) ==
    /\ At(r, "issue")
    /\ issued < MaxTokens
    /\ issued' = issued + 1
    /\ live' = live \union {issued + 1}
    /\ agreed' = [agreed EXCEPT ![issued + 1] = me[r].terms]
    /\ straddlers' = IF me[r].terms = terms THEN straddlers ELSE straddlers \union {issued + 1}
    /\ me' = [me EXCEPT ![r].pc = "answer", ![r].token = issued + 1]
    /\ UNCHANGED <<account, cut, factor, tab, lost, wronged, losses>>

-------------------------------------------------------------------------------
(* The browser *)

\* The new pair is kept, and the requests that waited for it are made again.
StoreTokens(r) ==
    /\ At(r, "answer")
    /\ tab' = [tab EXCEPT ![TabOf[r]] = [token |-> me[r].token, refreshing |-> FALSE]]
    /\ Leave(r)
    /\ UNCHANGED <<account, tokens, factor, lost, wronged, losses>>

\* endSession, on a refusal.
EndSession(r) ==
    /\ At(r, "refused")
    /\ tab' = [tab EXCEPT ![TabOf[r]] = NoSession]
    /\ Leave(r)
    /\ UNCHANGED <<account, tokens, factor, lost, wronged, losses>>

\* A request that does not arrive, or an answer that does not come back, ends the session as well.
Lose(r) ==
    /\ me[r].pc \in {"read", "answer"}
    /\ losses < MaxLosses
    /\ losses' = losses + 1
    /\ lost' = lost \union {me[r].token}
    /\ tab' = [tab EXCEPT ![TabOf[r]] = NoSession]
    /\ Leave(r)
    /\ UNCHANGED <<account, tokens, factor, wronged>>

\* logout takes the tab's token to the server ...
BeginLogout(r) ==
    /\ At(r, "idle")
    /\ tab[TabOf[r]].token # 0
    /\ me' = [me EXCEPT ![r] = [Idle EXCEPT !.pc = "logout", !.token = tab[TabOf[r]].token]]
    /\ UNCHANGED <<account, tokens, factor, tab, lost, wronged, losses>>

\* ... which revokes it ...
RevokeOnLogout(r) ==
    /\ At(r, "logout")
    /\ live' = live \ {me[r].token}
    /\ cut' = cut \union {me[r].token}
    /\ me' = [me EXCEPT ![r].pc = "clear"]
    /\ UNCHANGED <<account, issued, agreed, straddlers, factor, tab, lost, wronged, losses>>

\* ... and clears the tab, whatever it holds by then.
ClearTab(r) ==
    /\ At(r, "clear")
    /\ tab' = [tab EXCEPT ![TabOf[r]].token = 0]
    /\ lost' = lost \union ({tab[TabOf[r]].token} \ {0, me[r].token})
    /\ Leave(r)
    /\ UNCHANGED <<account, tokens, factor, wronged, losses>>

-------------------------------------------------------------------------------
(* What signs the member out. *)

\* Sessions end with access, and a demotion lets them go on.
OnlyLosingAccess(new) == IF new # "ACTIVE" THEN live ELSE {}

\* Losing access and a demotion end every session, as a new password does.
Ended(new) == live

\* A demotion, a new password, "sign out everywhere", or the loss of access, in one transaction.
ChangeTerms(new) ==
    /\ changes < MaxChanges
    /\ changes' = changes + 1
    /\ terms' = terms + 1
    /\ status' = new
    /\ cut' = cut \union Ended(new)
    /\ live' = live \ Ended(new)
    /\ UNCHANGED <<issued, agreed, straddlers, factor, tab, me, lost, wronged, losses>>

Reactivate ==
    /\ status # "ACTIVE"
    /\ changes < MaxChanges
    /\ changes' = changes + 1
    /\ status' = "ACTIVE"
    /\ UNCHANGED <<terms, tokens, factor, tab, me, lost, wronged, losses>>

\* One session is ended from another.
RevokeSession(t) ==
    /\ t \in live
    /\ changes < MaxChanges
    /\ changes' = changes + 1
    /\ live' = live \ {t}
    /\ cut' = cut \union {t}
    /\ UNCHANGED <<status, terms, issued, agreed, straddlers, factor, tab, me, lost, wronged, losses>>

-------------------------------------------------------------------------------
Next ==
    \/ \E r \in Requests :
          \/ ReadAccount(r) \/ CheckCode(r) \/ ClaimCode(r)
          \/ BeginRefresh(r) \/ ReadToken(r) \/ RevokeToken(r) \/ IssueTokens(r)
          \/ StoreTokens(r) \/ EndSession(r) \/ Lose(r)
          \/ BeginLogout(r) \/ RevokeOnLogout(r) \/ ClearTab(r)
    \/ ChangeTerms("ACTIVE") \/ ChangeTerms("DISABLED") \/ Reactivate
    \/ \E t \in Tokens : RevokeSession(t)

Spec == Init /\ [][Next]_vars

-------------------------------------------------------------------------------
Steps == {"idle", "code", "claim", "read", "revoke", "issue", "answer", "refused", "logout", "clear"}

\* The values each variable takes.
TypeOK ==
    /\ status \in {"ACTIVE", "DISABLED"} /\ terms \in Nat
    /\ live \subseteq Tokens /\ straddlers \subseteq Tokens
    /\ cut \subseteq 0 .. MaxTokens /\ lost \subseteq 0 .. MaxTokens
    /\ issued \in 0 .. MaxTokens
    /\ agreed \in [Tokens -> Nat]
    /\ lastUsed \in 0 .. MaxCode /\ wins \in [Codes -> Nat]
    /\ tab \in [Tabs -> [token : 0 .. MaxTokens, refreshing : BOOLEAN]]
    /\ me \in [Requests -> [pc : Steps, token : 0 .. MaxTokens, terms : Nat, code : 0 .. MaxCode]]
    /\ wronged \in BOOLEAN /\ changes \in Nat /\ losses \in Nat

(* "a stolen token is usable at most once": a live token is the one a tab    *)
(* holds, or on its way there; the others are only those whose answer was    *)
(* lost or came too late, or that were issued across a change of terms.      *)
TokensAreHeld ==
    \A t \in live \ (lost \union straddlers) :
        \/ \E b \in Tabs : tab[b].token = t
        \/ \E r \in Requests : me[r].token = t /\ At(r, "answer")

(* Signed out everywhere: once the member was demoted, disabled or given a   *)
(* new password, no session on the old terms is left, but for one issued to  *)
(* a request that was under way.                                             *)
TermsTakeEffect == \A t \in live \ straddlers : agreed[t] = terms

(* "log the user out for no reason": no refresh of a page is refused unless  *)
(* somebody ended the session or the account.                                *)
NobodyIsWronged == ~wronged

(* A code signs in once, whatever requests race with it, and after it no     *)
(* code that was shown before it.                                            *)
CodesWinOnce == \A c \in Codes : wins[c] <= 1 /\ (wins[c] > 0 => c <= lastUsed)
===============================================================================
