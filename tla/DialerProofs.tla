------------------------------ MODULE DialerProofs ------------------------------
(***************************************************************************)
(* What holds of Dialer for any passes, callers and leads, and what holds  *)
(* of a pass that has the campaign to itself.                              *)
(***************************************************************************)
EXTENDS Dialer, FiniteSetTheorems, TLAPS


-------------------------------------------------------------------------------
(* What each action does, field by field *)

MemberRow == [state : MemberStates, attempts : Nat, lastAttemptAt : Times, nextAttemptAt : Times]

\* Only worker w moves; only call c is written; only lead l is.
OnlyMoves(w) == \A v \in Workers \ {w} : me'[v] = me[v]
OnlyWrites(c) ==
    /\ Len(calls') = Len(calls) /\ DOMAIN calls' = DOMAIN calls
    /\ \A d \in DOMAIN calls \ {c} : calls'[d] = calls[d]
OnlySettles(l) == \A k \in Leads \ {l} : member'[k] = member[k]

\* Worker w keeps the call it places, or what its pass has read.
KeepsCall(w) == me'[w].campaign = me[w].campaign /\ me'[w].lead = me[w].lead /\ me'[w].call = me[w].call
KeepsReads(w) == me'[w].sweep = me[w].sweep /\ me'[w].claims = me[w].claims /\ me'[w].batch = me[w].batch

\* Call c keeps what it was created with.
KeepsOrder(c) == calls'[c].lead = calls[c].lead /\ calls'[c].campaign = calls[c].campaign

LEMMA IdleIsRow == Idle \in WorkerRow
BY DEF Idle, WorkerRow, Steps

LEMMA Moves ==
    ASSUME me \in [Workers -> WorkerRow], NEW w \in Workers, NEW row \in WorkerRow, me' = [me EXCEPT ![w] = row]
    PROVE  me' \in [Workers -> WorkerRow] /\ me'[w] = row /\ OnlyMoves(w)
BY DEF OnlyMoves

LEMMA GotoMoves ==
    ASSUME me \in [Workers -> WorkerRow], NEW w \in Workers, NEW step \in Steps, Goto(w, step)
    PROVE  /\ me' \in [Workers -> WorkerRow] /\ OnlyMoves(w) /\ KeepsCall(w) /\ KeepsReads(w)
           /\ me'[w].pc = step /\ me'[w].reasons = me[w].reasons
<1>1. [me[w] EXCEPT !.pc = step] \in WorkerRow
  BY DEF WorkerRow
<1>2. me' = [me EXCEPT ![w] = [me[w] EXCEPT !.pc = step]]
  BY DEF Goto
<1>3. me' \in [Workers -> WorkerRow] /\ me'[w] = [me[w] EXCEPT !.pc = step] /\ OnlyMoves(w)
  BY <1>1, <1>2, Moves
<1> QED
  BY <1>3 DEF KeepsCall, KeepsReads, WorkerRow

\* Nobody moves.
LEMMA Rests == ASSUME TypeOK, me' = me PROVE \A w \in Workers : me'[w] = me[w]
OBVIOUS

LEMMA CallWritten ==
    ASSUME calls \in Seq(CallRow), NEW c \in DOMAIN calls, NEW row \in CallRow, calls' = [calls EXCEPT ![c] = row]
    PROVE  calls' \in Seq(CallRow) /\ calls'[c] = row /\ OnlyWrites(c)
BY DEF OnlyWrites

LEMMA CallsRow == ASSUME calls \in Seq(CallRow) PROVE DOMAIN calls = 1 .. Len(calls) /\ \A c \in DOMAIN calls : calls[c] \in CallRow
OBVIOUS

LEMMA MemberWritten ==
    ASSUME member \in [Leads -> MemberRow], NEW l \in Leads, NEW row \in MemberRow, member' = [member EXCEPT ![l] = row]
    PROVE  member' \in [Leads -> MemberRow] /\ member'[l] = row /\ OnlySettles(l)
BY DEF OnlySettles

LEMMA RequeuedRow ==
    ASSUME now \in Nat, NEW row \in MemberRow, NEW attempts \in Nat
    PROVE  /\ Requeued(row, attempts) \in MemberRow /\ Requeued(row, attempts).lastAttemptAt = row.lastAttemptAt
           /\ \/ Requeued(row, attempts).state = "EXHAUSTED"
              \/ /\ Requeued(row, attempts).state = "PENDING"
                 /\ Requeued(row, attempts).nextAttemptAt = now + RetryDelay
<1>1. Null \in Times /\ now + RetryDelay \in Times
  BY DialerAssumption DEF DialerAssumption, Times
<1>2. CASE attempts >= MaxAttempts
  BY <1>1, <1>2 DEF Requeued, MemberRow, MemberStates
<1>3. CASE ~(attempts >= MaxAttempts)
  BY <1>1, <1>3 DEF Requeued, MemberRow, MemberStates
<1> QED
  BY <1>2, <1>3

\* What a sync writes: the call is over, its price is given back unless it was answered, its lead goes on.
Synced(c) ==
    /\ c \in DOMAIN calls /\ OnlyWrites(c) /\ KeepsOrder(c)
    /\ calls'[c].status \in {"COMPLETED", "NO_ANSWER"}
    /\ calls'[c].known = calls[c].known /\ calls'[c].startedAt = calls[c].startedAt
    /\ calls'[c].line = calls[c].line /\ calls'[c].dialledAt = calls[c].dialledAt /\ calls'[c].late = calls[c].late
    /\ \/ calls'[c].credits = calls[c].credits /\ balance' = balance
       \/ calls[c].line # "answered" /\ calls[c].credits = 1 /\ calls'[c].credits = 0 /\ balance' = balance + 1
    /\ \/ ~calls[c].campaign /\ member' = member
       \/ /\ calls[c].campaign /\ OnlySettles(calls[c].lead)
          /\ member'[calls[c].lead].lastAttemptAt = member[calls[c].lead].lastAttemptAt
          /\ \/ member'[calls[c].lead].state \in {"COMPLETED", "EXHAUSTED"}
             \/ /\ member'[calls[c].lead].state = "PENDING"
                /\ member'[calls[c].lead].nextAttemptAt = now + RetryDelay

LEMMA SyncDoes ==
    ASSUME TypeOK, NEW c \in DOMAIN calls, Sync(c)
    PROVE  /\ Synced(c)
           /\ calls' \in Seq(CallRow) /\ balance' \in Nat /\ member' \in [Leads -> MemberRow]
<1> DEFINE call == calls[c]
           l == calls[c].lead
           credits == IF RefundDue(call) THEN 0 ELSE call.credits
           status == IF call.line = "answered" THEN "COMPLETED" ELSE "NO_ANSWER"
           row == [call EXCEPT !.status = status, !.credits = credits]
<1>1. calls \in Seq(CallRow) /\ call \in CallRow /\ balance \in Nat /\ member \in [Leads -> MemberRow] /\ now \in Nat
  BY CallsRow DEF TypeOK, MemberRow
<1>2. call.credits \in {0, 1} /\ l \in Leads /\ call.campaign \in BOOLEAN
  BY <1>1 DEF CallRow
<1>3. row \in CallRow /\ row.status \in {"COMPLETED", "NO_ANSWER"} /\ row.credits = credits
      /\ row.lead = call.lead /\ row.campaign = call.campaign /\ row.known = call.known
      /\ row.startedAt = call.startedAt /\ row.line = call.line /\ row.dialledAt = call.dialledAt /\ row.late = call.late
  BY <1>1, <1>2 DEF CallRow, TerminalStatuses
<1>4. calls' = [calls EXCEPT ![c] = row]
  BY <1>1 DEF Sync
<1>5. calls' \in Seq(CallRow) /\ calls'[c] = row /\ OnlyWrites(c)
  BY <1>1, <1>3, <1>4, CallWritten
<1>6. /\ balance' \in Nat
      /\ \/ calls'[c].credits = calls[c].credits /\ balance' = balance
         \/ calls[c].line # "answered" /\ calls[c].credits = 1 /\ calls'[c].credits = 0 /\ balance' = balance + 1
  <2>1. balance' = IF RefundDue(call) THEN balance + call.credits ELSE balance
    BY DEF Sync
  <2>2. calls'[c].credits = IF RefundDue(call) THEN 0 ELSE call.credits
    BY <1>3, <1>5
  <2> HIDE DEF row
  <2> QED
    BY <1>1, <1>2, <2>1, <2>2 DEF RefundDue
<1>7. /\ member' \in [Leads -> MemberRow]
      /\ \/ ~calls[c].campaign /\ member' = member
         \/ /\ calls[c].campaign /\ OnlySettles(calls[c].lead)
            /\ member'[calls[c].lead].lastAttemptAt = member[calls[c].lead].lastAttemptAt
            /\ \/ member'[calls[c].lead].state \in {"COMPLETED", "EXHAUSTED"}
               \/ /\ member'[calls[c].lead].state = "PENDING"
                  /\ member'[calls[c].lead].nextAttemptAt = now + RetryDelay
  <2>s. member' = SettledMember(call)
    BY DEF Sync
  <2> HIDE DEF row
  <2>1. CASE ~call.campaign
    BY <1>1, <2>s, <2>1 DEF SettledMember
  <2>2. CASE call.campaign /\ call.line = "answered"
    <3> DEFINE m == [member[l] EXCEPT !.state = "COMPLETED", !.nextAttemptAt = Null]
    <3>0. member[l] \in MemberRow
      BY <1>1, <1>2
    <3>1. m \in MemberRow /\ m.state = "COMPLETED" /\ m.lastAttemptAt = member[l].lastAttemptAt
      BY <3>0 DEF MemberRow, MemberStates, Times
    <3>2. member' = [member EXCEPT ![l] = m]
      BY <1>2, <2>s, <2>2 DEF SettledMember
    <3> HIDE DEF m
    <3> QED
      BY <1>1, <1>2, <2>2, <3>1, <3>2, MemberWritten
  <2>3. CASE call.campaign /\ call.line # "answered"
    <3> DEFINE m == Requeued(member[l], member[l].attempts)
    <3>1. member[l] \in MemberRow /\ member[l].attempts \in Nat
      BY <1>1, <1>2 DEF MemberRow
    <3>2. /\ m \in MemberRow /\ m.lastAttemptAt = member[l].lastAttemptAt
          /\ \/ m.state = "EXHAUSTED"
             \/ m.state = "PENDING" /\ m.nextAttemptAt = now + RetryDelay
      BY <1>1, <3>1, RequeuedRow
    <3>3. member' = [member EXCEPT ![l] = m]
      BY <2>s, <2>3 DEF SettledMember
    <3> HIDE DEF m
    <3> QED
      BY <1>1, <1>2, <2>3, <3>2, <3>3, MemberWritten
  <2> QED
    BY <1>2, <2>1, <2>2, <2>3
<1> HIDE DEF row
<1> QED
  BY <1>3, <1>5, <1>6, <1>7 DEF Synced, KeepsOrder

\* The type invariant is made of what each variable is.
LEMMA TypeNext ==
    ASSUME TypeOK, NEW w \in Workers,
           me' \in [Workers -> WorkerRow], OnlyMoves(w),
           me'[w].call \in 0 .. Len(calls'), me'[w].sweep \subseteq DOMAIN calls',
           calls' \in Seq(CallRow), Len(calls') >= Len(calls),
           member' \in [Leads -> MemberRow], balance' \in Nat, crashes' \in Nat, refusals' \in Nat,
           UNCHANGED <<now, active, dnc, hangUps, pauses>>
    PROVE  TypeOK'
<1>1. \A v \in Workers : me[v].call \in 0 .. Len(calls) /\ me[v].sweep \subseteq DOMAIN calls
  BY DEF TypeOK
<1>2. DOMAIN calls = 1 .. Len(calls) /\ DOMAIN calls' = 1 .. Len(calls') /\ Len(calls) \in Nat /\ Len(calls') \in Nat
  BY DEF TypeOK
<1>3. \A v \in Workers : me'[v].call \in 0 .. Len(calls') /\ me'[v].sweep \subseteq DOMAIN calls'
  BY <1>1, <1>2 DEF OnlyMoves
<1> QED
  BY <1>3 DEF TypeOK, MemberRow

LEMMA Typed ==
    ASSUME TypeOK
    PROVE  /\ now \in Nat /\ balance \in Nat /\ pauses \in Nat /\ crashes \in Nat /\ refusals \in Nat
           /\ member \in [Leads -> MemberRow]
           /\ calls \in Seq(CallRow) /\ Len(calls) \in Nat /\ DOMAIN calls = 1 .. Len(calls)
           /\ \A c \in DOMAIN calls : calls[c] \in CallRow
           /\ me \in [Workers -> WorkerRow]
           /\ \A w \in Workers : me[w] \in WorkerRow /\ me[w].call \in 0 .. Len(calls) /\ me[w].sweep \subseteq DOMAIN calls
BY DEF TypeOK, MemberRow

\* A step of worker w that leaves its place in the table and what is written there alone.
LEMMA MeTyped ==
    ASSUME TypeOK, NEW w \in Workers, NEW row \in WorkerRow, me' = [me EXCEPT ![w] = row],
           row.call \in 0 .. Len(calls), row.sweep \subseteq DOMAIN calls,
           UNCHANGED <<now, active, dnc, balance, member, calls, counters>>
    PROVE  TypeOK' /\ me'[w] = row /\ OnlyMoves(w)
<1>1. me' \in [Workers -> WorkerRow] /\ me'[w] = row /\ OnlyMoves(w)
  BY Typed, Moves
<1>2. UNCHANGED <<crashes, refusals, hangUps, pauses>>
  BY DEF counters
<1> QED
  BY <1>1, <1>2, Typed, TypeNext

LEMMA StartPassDoes ==
    ASSUME TypeOK, NEW p \in Passes, StartPass(p)
    PROVE  /\ TypeOK' /\ OnlyMoves(p) /\ me[p].pc = "idle"
           /\ me'[p].pc = "sweep" /\ me'[p].lead = NoLead /\ me'[p].call = 0
           /\ me'[p].claims = {} /\ me'[p].batch = {}
           /\ UNCHANGED <<now, active, dnc, balance, member, calls, counters>>
<1> DEFINE row == [Idle EXCEPT !.pc = "sweep", !.sweep = Oldest(InFlight)]
<1>1. Oldest(InFlight) \subseteq DOMAIN calls
  BY DEF Oldest, InFlight
<1>2. DOMAIN calls \subseteq Nat /\ Len(calls) \in Nat
  BY Typed
<1>3. row \in WorkerRow /\ row.pc = "sweep" /\ row.lead = NoLead /\ row.call = 0 /\ row.claims = {}
      /\ row.batch = {} /\ row.sweep \subseteq DOMAIN calls
  BY <1>1, <1>2 DEF Idle, WorkerRow, Steps
<1>4. me' = [me EXCEPT ![p] = row] /\ me[p].pc = "idle"
      /\ UNCHANGED <<now, active, dnc, balance, member, calls, counters>>
  BY DEF StartPass, At
<1> HIDE DEF row
<1>5. p \in Workers
  BY DEF Workers
<1>6. row.call \in 0 .. Len(calls)
  BY <1>2, <1>3
<1>7. TypeOK' /\ me'[p] = row /\ OnlyMoves(p)
  BY <1>3, <1>4, <1>5, <1>6, MeTyped
<1> QED
  BY <1>3, <1>4, <1>7

LEMMA SyncActiveDoes ==
    ASSUME TypeOK, NEW p \in Passes, SyncActive(p)
    PROVE  /\ TypeOK' /\ OnlyMoves(p) /\ KeepsCall(p) /\ me[p].pc = "sweep" /\ me'[p].pc = "sweep"
           /\ me'[p].claims = me[p].claims /\ me'[p].batch = me[p].batch
           /\ \/ \E c \in DOMAIN calls : Settleable(c) /\ Synced(c)
              \/ UNCHANGED <<balance, member, calls>>
           /\ UNCHANGED <<now, active, dnc, counters>>
<1>1. me[p].pc = "sweep" /\ UNCHANGED <<now, active, dnc, counters>>
  BY DEF SyncActive, At
<1>2. PICK c \in me[p].sweep : /\ me' = [me EXCEPT ![p].sweep = @ \ {c}]
                               /\ \/ Settleable(c) /\ Sync(c)
                                  \/ UNCHANGED <<balance, member, calls>>
  BY DEF SyncActive
<1> DEFINE row == [me[p] EXCEPT !.sweep = @ \ {c}]
<1>3. p \in Workers /\ me[p] \in WorkerRow /\ c \in DOMAIN calls /\ me[p].sweep \subseteq DOMAIN calls
      /\ me[p].call \in 0 .. Len(calls)
  BY Typed DEF Workers
<1>4. /\ row \in WorkerRow /\ row.pc = me[p].pc /\ row.campaign = me[p].campaign /\ row.lead = me[p].lead
      /\ row.call = me[p].call /\ row.claims = me[p].claims /\ row.batch = me[p].batch
      /\ row.sweep \subseteq DOMAIN calls
  BY <1>3 DEF WorkerRow
<1>5. me' = [me EXCEPT ![p] = row]
  BY <1>2
<1> HIDE DEF row
<1>6. me' \in [Workers -> WorkerRow] /\ me'[p] = row /\ OnlyMoves(p)
  BY <1>3, <1>4, <1>5, Typed, Moves
<1>7. /\ \/ Settleable(c) /\ Synced(c)
         \/ UNCHANGED <<balance, member, calls>>
      /\ calls' \in Seq(CallRow) /\ balance' \in Nat /\ member' \in [Leads -> MemberRow]
      /\ Len(calls') = Len(calls) /\ DOMAIN calls' = DOMAIN calls
  BY <1>2, <1>3, Typed, SyncDoes DEF Synced, OnlyWrites
<1>8. TypeOK'
  BY <1>1, <1>3, <1>4, <1>6, <1>7, Typed, TypeNext DEF counters
<1> QED
  BY <1>1, <1>3, <1>4, <1>6, <1>7, <1>8 DEF KeepsCall

LEMMA ReadClaimsDoes ==
    ASSUME TypeOK, NEW p \in Passes, ReadClaims(p)
    PROVE  /\ TypeOK' /\ OnlyMoves(p) /\ KeepsCall(p) /\ me[p].pc = "sweep" /\ me'[p].pc \in {"claim", "live"}
           /\ me'[p].batch = me[p].batch
           /\ UNCHANGED <<now, active, dnc, balance, member, calls, counters>>
<1> DEFINE claimed == {l \in Leads : member[l].state = "IN_PROGRESS"}
           pc == IF claimed = {} THEN "claim" ELSE "live"
           claims == {<<l, member[l].attempts>> : l \in claimed}
           row == [me[p] EXCEPT !.pc = pc, !.claims = claims]
<1>1. p \in Workers /\ me[p] \in WorkerRow /\ me[p].sweep \subseteq DOMAIN calls /\ me[p].call \in 0 .. Len(calls)
  BY Typed DEF Workers
<1>2. claims \subseteq Leads \X Nat
  BY Typed DEF MemberRow
<1>3. pc \in {"claim", "live"}
  OBVIOUS
<1>4. me' = [me EXCEPT ![p] = row] /\ me[p].pc = "sweep"
      /\ UNCHANGED <<now, active, dnc, balance, member, calls, counters>>
  BY <1>1, Typed DEF ReadClaims, At
<1> HIDE DEF pc, claims
<1>5. /\ row \in WorkerRow /\ row.pc = pc /\ row.campaign = me[p].campaign /\ row.lead = me[p].lead
      /\ row.call = me[p].call /\ row.batch = me[p].batch /\ row.sweep = me[p].sweep
  BY <1>1, <1>2, <1>3 DEF WorkerRow, Steps
<1> HIDE DEF row
<1>6. TypeOK' /\ me'[p] = row /\ OnlyMoves(p)
  BY <1>1, <1>4, <1>5, MeTyped
<1> QED
  BY <1>3, <1>4, <1>5, <1>6 DEF KeepsCall

LEMMA ReadLiveCallsDoes ==
    ASSUME TypeOK, NEW p \in Passes, ReadLiveCalls(p)
    PROVE  /\ TypeOK' /\ OnlyMoves(p) /\ KeepsCall(p) /\ me[p].pc = "live" /\ me'[p].pc = "stale"
           /\ me'[p].claims = {x \in me[p].claims : ~OnTheLine(x[1])} /\ me'[p].batch = me[p].batch
           /\ UNCHANGED <<now, active, dnc, balance, member, calls, counters>>
<1> DEFINE claims == {x \in me[p].claims : ~OnTheLine(x[1])}
           row == [me[p] EXCEPT !.pc = "stale", !.claims = claims]
<1>1. p \in Workers /\ me[p] \in WorkerRow /\ me[p].sweep \subseteq DOMAIN calls /\ me[p].call \in 0 .. Len(calls)
  BY Typed DEF Workers
<1>2. claims \subseteq Leads \X Nat
  BY <1>1 DEF WorkerRow
<1>3. me' = [me EXCEPT ![p] = row] /\ me[p].pc = "live"
      /\ UNCHANGED <<now, active, dnc, balance, member, calls, counters>>
  BY <1>1, Typed DEF ReadLiveCalls, At
<1> HIDE DEF claims
<1>4. /\ row \in WorkerRow /\ row.pc = "stale" /\ row.campaign = me[p].campaign /\ row.lead = me[p].lead
      /\ row.call = me[p].call /\ row.batch = me[p].batch /\ row.sweep = me[p].sweep /\ row.claims = claims
  BY <1>1, <1>2 DEF WorkerRow, Steps
<1> HIDE DEF row
<1>5. TypeOK' /\ me'[p] = row /\ OnlyMoves(p)
  BY <1>1, <1>3, <1>4, MeTyped
<1> QED
  BY <1>3, <1>4, <1>5 DEF KeepsCall, claims

LEMMA ReleaseStaleClaimDoes ==
    ASSUME TypeOK, NEW p \in Passes, ReleaseStaleClaim(p)
    PROVE  /\ TypeOK' /\ OnlyMoves(p) /\ KeepsCall(p) /\ me[p].pc = "stale" /\ me'[p].pc = "stale"
           /\ me'[p].claims \subseteq me[p].claims /\ me'[p].batch = me[p].batch
           /\ \E claim \in me[p].claims :
                 /\ claim[1] \in Leads /\ OnlySettles(claim[1])
                 /\ member'[claim[1]].lastAttemptAt = member[claim[1]].lastAttemptAt
                 /\ \/ member[claim[1]].state # "IN_PROGRESS" /\ member' = member
                    \/ /\ member[claim[1]].state = "IN_PROGRESS"
                       /\ \/ member'[claim[1]].state = "EXHAUSTED"
                          \/ /\ member'[claim[1]].state = "PENDING"
                             /\ member'[claim[1]].nextAttemptAt = now + RetryDelay
           /\ UNCHANGED <<now, active, dnc, balance, calls, counters>>
<1>1. me[p].pc = "stale" /\ UNCHANGED <<now, active, dnc, balance, calls, counters>>
  BY DEF ReleaseStaleClaim, At
<1>2. PICK claim \in me[p].claims : /\ me' = [me EXCEPT ![p].claims = @ \ {claim}]
                                    /\ member' = [member EXCEPT ![claim[1]] = Released(@, claim[2])]
  BY DEF ReleaseStaleClaim
<1> DEFINE row == [me[p] EXCEPT !.claims = @ \ {claim}]
           l == claim[1]
           m == Released(member[l], claim[2])
<1>3. p \in Workers /\ me[p] \in WorkerRow /\ me[p].sweep \subseteq DOMAIN calls /\ me[p].call \in 0 .. Len(calls)
  BY Typed DEF Workers
<1>4. l \in Leads /\ claim[2] \in Nat /\ member[l] \in MemberRow /\ now \in Nat
  BY <1>3, Typed DEF WorkerRow
<1>5. /\ row \in WorkerRow /\ row.pc = me[p].pc /\ row.campaign = me[p].campaign /\ row.lead = me[p].lead
      /\ row.call = me[p].call /\ row.batch = me[p].batch /\ row.sweep = me[p].sweep
      /\ row.claims \subseteq me[p].claims
  BY <1>3 DEF WorkerRow
<1>6. me' = [me EXCEPT ![p] = row] /\ member' = [member EXCEPT ![l] = m]
  BY <1>2
<1>7. /\ m \in MemberRow /\ m.lastAttemptAt = member[l].lastAttemptAt
      /\ \/ member[l].state # "IN_PROGRESS" /\ m = member[l]
         \/ /\ member[l].state = "IN_PROGRESS"
            /\ \/ m.state = "EXHAUSTED"
               \/ m.state = "PENDING" /\ m.nextAttemptAt = now + RetryDelay
  BY <1>4, RequeuedRow DEF Released
<1> HIDE DEF row, m
<1>8. me' \in [Workers -> WorkerRow] /\ me'[p] = row /\ OnlyMoves(p)
  BY <1>3, <1>5, <1>6, Typed, Moves
<1>9. member' \in [Leads -> MemberRow] /\ member'[l] = m /\ OnlySettles(l)
  BY <1>4, <1>6, <1>7, Typed, MemberWritten
<1>10. m = member[l] => member' = member
  BY <1>4, <1>6, Typed
<1>11. TypeOK'
  BY <1>1, <1>3, <1>5, <1>8, <1>9, Typed, TypeNext DEF counters
<1>12. \E x \in me[p].claims :
                 /\ x[1] \in Leads /\ OnlySettles(x[1])
                 /\ member'[x[1]].lastAttemptAt = member[x[1]].lastAttemptAt
                 /\ \/ member[x[1]].state # "IN_PROGRESS" /\ member' = member
                    \/ /\ member[x[1]].state = "IN_PROGRESS"
                       /\ \/ member'[x[1]].state = "EXHAUSTED"
                          \/ /\ member'[x[1]].state = "PENDING"
                             /\ member'[x[1]].nextAttemptAt = now + RetryDelay
  <2> WITNESS claim \in me[p].claims
  <2> QED
    BY <1>4, <1>7, <1>9, <1>10
<1> HIDE DEF l
<1> QED
  BY <1>1, <1>5, <1>8, <1>11, <1>12 DEF KeepsCall

LEMMA ReadDueLeadsDoes ==
    ASSUME TypeOK, NEW p \in Passes, ReadDueLeads(p)
    PROVE  /\ TypeOK' /\ OnlyMoves(p) /\ me[p].pc \in {"claim", "stale"}
           /\ \/ me'[p] = Idle
              \/ me'[p].pc = "take" /\ KeepsCall(p) /\ \A l \in me'[p].batch : l \in Leads /\ Due(l)
           /\ UNCHANGED <<now, active, dnc, balance, member, calls, counters>>
<1> DEFINE due == {l \in Leads : Due(l)}
<1>1. me[p].pc \in {"claim", "stale"} /\ UNCHANGED <<now, active, dnc, balance, member, calls, counters>>
  BY DEF ReadDueLeads, At
<1>2. PICK taken \in SUBSET due :
         me' = [me EXCEPT ![p] = IF taken = {} THEN Idle ELSE [@ EXCEPT !.pc = "take", !.batch = taken]]
  BY DEF ReadDueLeads
<1>3. p \in Workers /\ me[p] \in WorkerRow /\ me[p].sweep \subseteq DOMAIN calls /\ me[p].call \in 0 .. Len(calls)
  BY Typed DEF Workers
<1>4. \A l \in taken : l \in Leads /\ Due(l)
  OBVIOUS
<1> HIDE DEF due
<1>5. CASE taken = {}
  <2>1. me' = [me EXCEPT ![p] = Idle]
    BY <1>2, <1>5
  <2>2. Idle.call \in 0 .. Len(calls) /\ Idle.sweep \subseteq DOMAIN calls
    BY Typed DEF Idle
  <2>3. TypeOK' /\ me'[p] = Idle /\ OnlyMoves(p)
    BY <1>1, <1>3, <2>1, <2>2, IdleIsRow, MeTyped
  <2> QED
    BY <1>1, <2>3
<1>6. CASE taken # {}
  <2> DEFINE row == [me[p] EXCEPT !.pc = "take", !.batch = taken]
  <2>1. me' = [me EXCEPT ![p] = row]
    BY <1>2, <1>6
  <2>2. /\ row \in WorkerRow /\ row.pc = "take" /\ row.campaign = me[p].campaign /\ row.lead = me[p].lead
        /\ row.call = me[p].call /\ row.batch = taken /\ row.sweep = me[p].sweep
    BY <1>3, <1>4 DEF WorkerRow, Steps
  <2> HIDE DEF row
  <2>3. TypeOK' /\ me'[p] = row /\ OnlyMoves(p)
    BY <1>1, <1>3, <2>1, <2>2, MeTyped
  <2> QED
    BY <1>1, <1>4, <2>2, <2>3 DEF KeepsCall
<1> QED
  BY <1>5, <1>6

LEMMA ClaimDoes ==
    ASSUME TypeOK, NEW p \in Passes, Claim(p)
    PROVE  /\ TypeOK' /\ OnlyMoves(p) /\ me[p].pc = "take"
           /\ \/ me'[p] = Idle
              \/ me'[p].pc = "reread" /\ KeepsCall(p) /\ me'[p].batch = me[p].batch
           /\ \A l \in Leads : \/ member'[l] = member[l]
                               \/ /\ member[l].state = "PENDING" /\ member'[l].state = "IN_PROGRESS"
                                  /\ member'[l].lastAttemptAt = member[l].lastAttemptAt
           /\ UNCHANGED <<now, active, dnc, balance, calls, counters>>
<1> DEFINE won == {l \in me[p].batch : member[l].state \in {"PENDING", "QUEUED"}}
<1>1. me[p].pc = "take" /\ UNCHANGED <<now, active, dnc, balance, calls, counters>>
      /\ member' = [l \in Leads |-> IF l \in won THEN [member[l] EXCEPT !.state = "IN_PROGRESS"] ELSE member[l]]
      /\ me' = [me EXCEPT ![p] = IF won = {} THEN Idle ELSE [@ EXCEPT !.pc = "reread"]]
  BY DEF Claim, At
<1>2. p \in Workers /\ me[p] \in WorkerRow /\ me[p].sweep \subseteq DOMAIN calls /\ me[p].call \in 0 .. Len(calls)
  BY Typed DEF Workers
<1>3. \A l \in Leads : \/ member'[l] = member[l]
                       \/ /\ member[l].state = "PENDING" /\ member'[l] = [member[l] EXCEPT !.state = "IN_PROGRESS"]
  BY <1>1, Typed DEF MemberRow, MemberStates
<1>4. member' \in [Leads -> MemberRow]
  <2>1. \A l \in Leads : member'[l] \in MemberRow
    BY <1>3, Typed DEF MemberRow, MemberStates
  <2> QED
    BY <1>1, <2>1
<1>5. \A l \in Leads : \/ member'[l] = member[l]
                       \/ /\ member[l].state = "PENDING" /\ member'[l].state = "IN_PROGRESS"
                          /\ member'[l].lastAttemptAt = member[l].lastAttemptAt
  BY <1>3, Typed DEF MemberRow
<1> DEFINE row == IF won = {} THEN Idle ELSE [me[p] EXCEPT !.pc = "reread"]
<1>6. me' = [me EXCEPT ![p] = row]
  BY <1>1
<1> HIDE DEF won
<1>7. /\ row \in WorkerRow /\ row.call \in 0 .. Len(calls) /\ row.sweep \subseteq DOMAIN calls
      /\ \/ row = Idle
         \/ /\ row.pc = "reread" /\ row.campaign = me[p].campaign /\ row.lead = me[p].lead /\ row.call = me[p].call
            /\ row.batch = me[p].batch
  <2>1. CASE won = {}
    <3>1. Idle.call = 0 /\ Idle.sweep = {}
      BY DEF Idle
    <3> QED
      BY <2>1, <3>1, IdleIsRow, Typed
  <2>2. CASE won # {}
    BY <1>2, <2>2 DEF WorkerRow, Steps
  <2> QED
    BY <2>1, <2>2
<1> HIDE DEF row
<1>8. me' \in [Workers -> WorkerRow] /\ me'[p] = row /\ OnlyMoves(p)
  BY <1>2, <1>6, <1>7, Typed, Moves
<1>9. TypeOK'
  BY <1>1, <1>2, <1>4, <1>7, <1>8, Typed, TypeNext DEF counters
<1> QED
  BY <1>1, <1>5, <1>7, <1>8, <1>9 DEF KeepsCall

LEMMA RereadClaimedDoes ==
    ASSUME TypeOK, NEW p \in Passes, RereadClaimed(p)
    PROVE  /\ TypeOK' /\ OnlyMoves(p) /\ KeepsCall(p) /\ me[p].pc = "reread" /\ me'[p].pc = "next"
           /\ me'[p].batch = {l \in me[p].batch : member[l].state = "IN_PROGRESS"}
           /\ UNCHANGED <<now, active, dnc, balance, member, calls, counters>>
<1> DEFINE batch == {l \in me[p].batch : member[l].state = "IN_PROGRESS"}
           row == [me[p] EXCEPT !.pc = "next", !.batch = batch]
<1>1. p \in Workers /\ me[p] \in WorkerRow /\ me[p].sweep \subseteq DOMAIN calls /\ me[p].call \in 0 .. Len(calls)
  BY Typed DEF Workers
<1>2. batch \subseteq Leads
  BY <1>1 DEF WorkerRow
<1>3. me' = [me EXCEPT ![p] = row] /\ me[p].pc = "reread"
      /\ UNCHANGED <<now, active, dnc, balance, member, calls, counters>>
  BY <1>1, Typed DEF RereadClaimed, At
<1> HIDE DEF batch
<1>4. /\ row \in WorkerRow /\ row.pc = "next" /\ row.campaign = me[p].campaign /\ row.lead = me[p].lead
      /\ row.call = me[p].call /\ row.batch = batch /\ row.sweep = me[p].sweep
  BY <1>1, <1>2 DEF WorkerRow, Steps
<1> HIDE DEF row
<1>5. TypeOK' /\ me'[p] = row /\ OnlyMoves(p)
  BY <1>1, <1>3, <1>4, MeTyped
<1> QED
  BY <1>3, <1>4, <1>5 DEF KeepsCall, batch

LEMMA EndPassDoes ==
    ASSUME TypeOK, NEW p \in Passes, EndPass(p)
    PROVE  /\ TypeOK' /\ OnlyMoves(p) /\ me'[p] = Idle
           /\ UNCHANGED <<now, active, dnc, balance, member, calls, counters>>
<1>1. p \in Workers /\ Idle.call \in 0 .. Len(calls) /\ Idle.sweep \subseteq DOMAIN calls
  BY Typed DEF Workers, Idle
<1>2. me' = [me EXCEPT ![p] = Idle] /\ UNCHANGED <<now, active, dnc, balance, member, calls, counters>>
  BY DEF EndPass
<1> QED
  BY <1>1, <1>2, IdleIsRow, MeTyped

\* A worker is past the gate, or is turned back there.
Gated(w, l, inCampaign) ==
    /\ l \in Leads /\ inCampaign \in BOOLEAN
    /\ me'[w].lead = l /\ me'[w].campaign = inCampaign /\ me'[w].call = me[w].call
    /\ me'[w].batch = me[w].batch \ {l} /\ me'[w].claims = me[w].claims
    /\ me'[w].reasons = GateReasons(GateInput(l, inCampaign))
    /\ \/ me'[w].reasons = {} /\ me'[w].pc = "charge"
       \/ me'[w].reasons # {} /\ me'[w].pc = IF w \in Passes THEN "unclaim" ELSE "done"

LEMMA GateDoes ==
    ASSUME TypeOK, NEW w \in Workers, NEW l \in Leads, NEW inCampaign \in BOOLEAN, Gate(w, l, inCampaign),
           UNCHANGED <<now, active, dnc, balance, member, calls, counters>>
    PROVE  TypeOK' /\ OnlyMoves(w) /\ Gated(w, l, inCampaign)
<1> DEFINE reasons == GateReasons(GateInput(l, inCampaign))
           pc == IF reasons = {} THEN "charge" ELSE IF w \in Passes THEN "unclaim" ELSE "done"
           row == [me[w] EXCEPT !.pc = pc, !.lead = l, !.campaign = inCampaign, !.reasons = reasons,
                                !.batch = @ \ {l}]
<1>1. me[w] \in WorkerRow /\ me[w].sweep \subseteq DOMAIN calls /\ me[w].call \in 0 .. Len(calls)
  BY Typed
<1>2. me' = [me EXCEPT ![w] = row]
  BY <1>1, Typed DEF Gate
<1>3. reasons \subseteq BlockReasons
  BY DEF GateReasons
<1>4. pc \in Steps /\ (reasons = {} => pc = "charge") /\ (reasons # {} => pc = IF w \in Passes THEN "unclaim" ELSE "done")
  BY DEF Steps
<1> HIDE DEF pc, reasons
<1>5. row \in WorkerRow
  BY <1>1, <1>3, <1>4 DEF WorkerRow
<1>6. /\ row.pc = pc /\ row.campaign = inCampaign /\ row.lead = l
      /\ row.call = me[w].call /\ row.batch = me[w].batch \ {l} /\ row.sweep = me[w].sweep /\ row.claims = me[w].claims
      /\ row.reasons = reasons
  BY <1>1 DEF WorkerRow
<1> HIDE DEF row
<1>7. TypeOK' /\ me'[w] = row /\ OnlyMoves(w)
  BY <1>1, <1>2, <1>5, <1>6, MeTyped
<1>8. Gated(w, l, inCampaign)
  BY <1>4, <1>6, <1>7 DEF Gated, reasons
<1> QED
  BY <1>7, <1>8

LEMMA DialNextDoes ==
    ASSUME TypeOK, NEW p \in Passes, DialNext(p)
    PROVE  /\ TypeOK' /\ OnlyMoves(p) /\ me[p].pc = "next"
           /\ \E l \in me[p].batch : Gated(p, l, TRUE)
           /\ UNCHANGED <<now, active, dnc, balance, member, calls, counters>>
<1>1. UNCHANGED <<now, active, dnc, balance, member, calls, counters>> /\ me[p].pc = "next"
  BY DEF DialNext, At
<1>2. PICK l \in me[p].batch : Gate(p, l, TRUE)
  BY DEF DialNext
<1>3. p \in Workers /\ l \in Leads
  BY Typed DEF Workers, WorkerRow
<1>4. TypeOK' /\ OnlyMoves(p) /\ Gated(p, l, TRUE)
  BY <1>1, <1>2, <1>3, GateDoes
<1> QED
  BY <1>1, <1>4

LEMMA ClickCallDoes ==
    ASSUME TypeOK, NEW w \in Callers, ClickCall(w)
    PROVE  /\ TypeOK' /\ OnlyMoves(w) /\ me[w].pc = "idle"
           /\ \E l \in Leads, inCampaign \in BOOLEAN : Gated(w, l, inCampaign)
           /\ UNCHANGED <<now, active, dnc, balance, member, calls, counters>>
<1>1. UNCHANGED <<now, active, dnc, balance, member, calls, counters>> /\ me[w].pc = "idle"
  BY DEF ClickCall, At
<1>2. PICK l \in Leads, inCampaign \in BOOLEAN : Gate(w, l, inCampaign)
  BY DEF ClickCall
<1>3. w \in Workers
  BY DEF Workers
<1>4. TypeOK' /\ OnlyMoves(w) /\ Gated(w, l, inCampaign)
  BY <1>1, <1>2, <1>3, GateDoes
<1> QED
  BY <1>1, <1>4

LEMMA ChargeDoes ==
    ASSUME TypeOK, NEW w \in Workers, Charge(w)
    PROVE  /\ TypeOK' /\ OnlyMoves(w) /\ KeepsCall(w) /\ KeepsReads(w) /\ me[w].pc = "charge"
           /\ \/ me'[w].pc = "create" /\ balance' = balance - 1
              \/ me'[w].pc = (IF w \in Passes THEN "unclaim" ELSE "done") /\ balance' = balance
           /\ UNCHANGED <<now, active, dnc, member, calls, counters>>
<1>1. me[w].pc = "charge" /\ UNCHANGED <<now, active, dnc, member, calls, counters>>
  BY DEF Charge, At
<1>2. me[w] \in WorkerRow /\ me[w].sweep \subseteq DOMAIN calls /\ me[w].call \in 0 .. Len(calls) /\ balance \in Nat
  BY Typed
<1>3. CASE Affordable /\ balance' = balance - Price /\ Goto(w, "create")
  <2>1. balance' = balance - 1 /\ balance' \in Nat
    BY <1>2, <1>3 DEF Affordable, Price
  <2>2. /\ me' \in [Workers -> WorkerRow] /\ OnlyMoves(w) /\ KeepsCall(w) /\ KeepsReads(w)
        /\ me'[w].pc = "create"
    BY <1>3, Typed, GotoMoves DEF Steps
  <2>3. TypeOK'
    BY <1>1, <1>2, <2>1, <2>2, Typed, TypeNext DEF KeepsCall, KeepsReads, counters
  <2> QED
    BY <1>1, <2>1, <2>2, <2>3
<1>4. CASE /\ me' = [me EXCEPT ![w].pc = IF w \in Passes THEN "unclaim" ELSE "done",
                               ![w].reasons = {"INSUFFICIENT_CREDITS"}]
           /\ UNCHANGED balance
  <2> DEFINE pc == IF w \in Passes THEN "unclaim" ELSE "done"
             row == [me[w] EXCEPT !.pc = pc, !.reasons = {"INSUFFICIENT_CREDITS"}]
  <2>1. me' = [me EXCEPT ![w] = row]
    BY <1>2, <1>4, Typed
  <2>2. pc \in Steps
    BY DEF Steps
  <2> HIDE DEF pc
  <2>3. /\ row \in WorkerRow /\ row.pc = pc /\ row.campaign = me[w].campaign /\ row.lead = me[w].lead
        /\ row.call = me[w].call /\ row.batch = me[w].batch /\ row.sweep = me[w].sweep /\ row.claims = me[w].claims
    BY <1>2, <2>2 DEF WorkerRow, BlockReasons
  <2> HIDE DEF row
  <2>4. TypeOK' /\ me'[w] = row /\ OnlyMoves(w)
    BY <1>1, <1>2, <1>4, <2>1, <2>3, MeTyped
  <2> QED
    BY <1>1, <1>4, <2>3, <2>4 DEF KeepsCall, KeepsReads, pc
<1> QED
  BY <1>3, <1>4 DEF Charge

LEMMA CreateCallDoes ==
    ASSUME TypeOK, NEW w \in Workers, CreateCall(w), me[w].lead \in Leads
    PROVE  /\ TypeOK' /\ OnlyMoves(w) /\ KeepsReads(w) /\ me[w].pc = "create" /\ me'[w].pc = "dial"
           /\ me'[w].lead = me[w].lead /\ me'[w].campaign = me[w].campaign
           /\ me'[w].call = Len(calls) + 1 /\ Len(calls') = Len(calls) + 1
           /\ DOMAIN calls' = 1 .. Len(calls) + 1 /\ \A c \in DOMAIN calls : calls'[c] = calls[c]
           /\ calls'[Len(calls) + 1] = [lead |-> me[w].lead, campaign |-> me[w].campaign, status |-> "QUEUED",
                                        known |-> FALSE, startedAt |-> Null, credits |-> 1,
                                        line |-> "none", dialledAt |-> Null, late |-> {}]
           /\ UNCHANGED <<now, active, dnc, balance, member, counters>>
<1> DEFINE id == Len(calls) + 1
           row == [me[w] EXCEPT !.pc = "dial", !.call = id]
           call == [lead |-> me[w].lead, campaign |-> me[w].campaign, status |-> "QUEUED",
                    known |-> FALSE, startedAt |-> Null, credits |-> 1,
                    line |-> "none", dialledAt |-> Null, late |-> {}]
<1>1. me[w].pc = "create" /\ UNCHANGED <<now, active, dnc, balance, member, counters>> /\ calls' = Append(calls, call)
  BY DEF CreateCall, At
<1>2. me[w] \in WorkerRow /\ me[w].sweep \subseteq DOMAIN calls /\ me[w].call \in 0 .. Len(calls) /\ Len(calls) \in Nat
      /\ calls \in Seq(CallRow) /\ DOMAIN calls = 1 .. Len(calls)
  BY Typed
<1>3. call \in CallRow
  BY <1>2 DEF CallRow, WorkerRow, LiveStatuses, Times
<1> HIDE DEF call
<1>4. calls' \in Seq(CallRow) /\ Len(calls') = Len(calls) + 1 /\ DOMAIN calls' = 1 .. Len(calls) + 1
      /\ calls'[Len(calls) + 1] = call /\ \A c \in DOMAIN calls : calls'[c] = calls[c]
  BY <1>1, <1>2, <1>3
<1>5. me' = [me EXCEPT ![w] = row]
  BY <1>2, Typed DEF CreateCall
<1>c. id \in Nat
  BY <1>2
<1> HIDE DEF id
<1>6. /\ row \in WorkerRow /\ row.pc = "dial" /\ row.campaign = me[w].campaign /\ row.lead = me[w].lead
      /\ row.call = id /\ row.batch = me[w].batch /\ row.sweep = me[w].sweep /\ row.claims = me[w].claims
  BY <1>2, <1>c DEF WorkerRow, Steps
<1> HIDE DEF row
<1>7. me' \in [Workers -> WorkerRow] /\ me'[w] = row /\ OnlyMoves(w)
  BY <1>2, <1>5, <1>6, Typed, Moves
<1> USE DEF id
<1>8. TypeOK'
  <2>1. me'[w].call \in 0 .. Len(calls') /\ me'[w].sweep \subseteq DOMAIN calls' /\ Len(calls') >= Len(calls)
    BY <1>2, <1>4, <1>6, <1>7
  <2> QED
    BY <1>1, <1>4, <1>7, <2>1, Typed, TypeNext DEF counters
<1> QED
  BY <1>1, <1>4, <1>6, <1>7, <1>8 DEF KeepsReads, call

LEMMA DialDoes ==
    ASSUME TypeOK, NEW w \in Workers, Dial(w), me[w].call \in DOMAIN calls
    PROVE  /\ TypeOK' /\ OnlyMoves(w) /\ KeepsCall(w) /\ KeepsReads(w) /\ me[w].pc = "dial"
           /\ LET c == me[w].call IN
              \/ /\ me'[w].pc = "started" /\ OnlyWrites(c) /\ KeepsOrder(c)
                 /\ calls'[c].status = calls[c].status /\ calls'[c].credits = calls[c].credits
                 /\ calls'[c].known = calls[c].known /\ calls'[c].startedAt = calls[c].startedAt
                 /\ calls'[c].line = "live" /\ calls'[c].dialledAt = now
                 /\ calls'[c].late = IF Unwanted(me[w].lead, me[w].campaign) THEN {w} ELSE {}
              \/ me'[w].pc = "refund" /\ calls' = calls
           /\ UNCHANGED <<now, active, dnc, balance, member, crashes, hangUps, pauses>>
<1> DEFINE c == me[w].call
           late == IF Unwanted(me[w].lead, me[w].campaign) THEN {w} ELSE {}
           row == [calls[c] EXCEPT !.line = "live", !.dialledAt = now, !.late = late]
<1>1. me[w].pc = "dial" /\ UNCHANGED <<now, active, dnc, balance, member, crashes, hangUps, pauses>>
  BY DEF Dial, At
<1>2. /\ me[w] \in WorkerRow /\ me[w].sweep \subseteq DOMAIN calls /\ me[w].call \in 0 .. Len(calls)
      /\ calls \in Seq(CallRow) /\ calls[c] \in CallRow /\ now \in Nat /\ refusals \in Nat /\ crashes \in Nat
  BY Typed
<1>3. late \subseteq Workers
  OBVIOUS
<1> HIDE DEF late
<1>4. /\ row \in CallRow /\ row.lead = calls[c].lead /\ row.campaign = calls[c].campaign
      /\ row.status = calls[c].status /\ row.credits = calls[c].credits
      /\ row.known = calls[c].known /\ row.startedAt = calls[c].startedAt
      /\ row.line = "live" /\ row.dialledAt = now /\ row.late = late
  BY <1>2, <1>3 DEF CallRow, Times
<1>5. CASE Goto(w, "started") /\ UNCHANGED refusals
           /\ calls' = [calls EXCEPT ![me[w].call].line = "live", ![me[w].call].dialledAt = now,
                                     ![me[w].call].late = late]
  <2>1. calls' = [calls EXCEPT ![c] = row]
    BY <1>2, <1>5
  <2> HIDE DEF row
  <2>2. calls' \in Seq(CallRow) /\ calls'[c] = row /\ OnlyWrites(c)
    BY <1>2, <1>4, <2>1, CallWritten
  <2>3. /\ me' \in [Workers -> WorkerRow] /\ OnlyMoves(w) /\ KeepsCall(w) /\ KeepsReads(w)
        /\ me'[w].pc = "started"
    BY <1>5, Typed, GotoMoves DEF Steps
  <2>4. TypeOK'
    <3>1. me'[w].call \in 0 .. Len(calls') /\ me'[w].sweep \subseteq DOMAIN calls' /\ Len(calls') >= Len(calls)
      BY <1>2, <2>2, <2>3, Typed DEF KeepsCall, KeepsReads, OnlyWrites
    <3> QED
      BY <1>1, <1>2, <1>5, <2>2, <2>3, <3>1, Typed, TypeNext
  <2> QED
    BY <1>1, <1>4, <2>2, <2>3, <2>4 DEF KeepsOrder, late
<1>6. CASE Goto(w, "refund") /\ refusals' = refusals + 1 /\ UNCHANGED <<calls>>
  <2>1. /\ me' \in [Workers -> WorkerRow] /\ OnlyMoves(w) /\ KeepsCall(w) /\ KeepsReads(w)
        /\ me'[w].pc = "refund"
    BY <1>6, Typed, GotoMoves DEF Steps
  <2>2. TypeOK'
    <3>1. me'[w].call \in 0 .. Len(calls') /\ me'[w].sweep \subseteq DOMAIN calls' /\ Len(calls') >= Len(calls)
          /\ refusals' \in Nat /\ calls' \in Seq(CallRow)
      BY <1>2, <1>6, <2>1, Typed DEF KeepsCall, KeepsReads
    <3> QED
      BY <1>1, <1>2, <1>6, <2>1, <3>1, Typed, TypeNext
  <2> QED
    BY <1>1, <1>6, <2>1, <2>2
<1> QED
  BY <1>5, <1>6 DEF Dial, late

LEMMA RefundDoes ==
    ASSUME TypeOK, NEW w \in Workers, Refund(w), me[w].call \in DOMAIN calls
    PROVE  /\ TypeOK' /\ OnlyMoves(w) /\ KeepsCall(w) /\ KeepsReads(w) /\ me[w].pc = "refund" /\ me'[w].pc = "failed"
           /\ balance' = balance + calls[me[w].call].credits
           /\ UNCHANGED <<now, active, dnc, member, calls, counters>>
<1>1. me[w].pc = "refund" /\ UNCHANGED <<now, active, dnc, member, calls, counters>>
      /\ balance' = balance + calls[me[w].call].credits
  BY DEF Refund, At
<1>2. balance' \in Nat
  BY <1>1, Typed DEF CallRow
<1>3. /\ me' \in [Workers -> WorkerRow] /\ OnlyMoves(w) /\ KeepsCall(w) /\ KeepsReads(w)
      /\ me'[w].pc = "failed"
  BY Typed, GotoMoves DEF Steps, Refund
<1>4. TypeOK'
  <2>1. me'[w].call \in 0 .. Len(calls') /\ me'[w].sweep \subseteq DOMAIN calls' /\ Len(calls') >= Len(calls)
        /\ calls' \in Seq(CallRow)
    BY <1>1, <1>3, Typed DEF KeepsCall, KeepsReads
  <2> QED
    BY <1>1, <1>2, <1>3, <2>1, Typed, TypeNext DEF counters
<1> QED
  BY <1>1, <1>3, <1>4

LEMMA MarkFailedDoes ==
    ASSUME TypeOK, NEW w \in Workers, MarkFailed(w), me[w].call \in DOMAIN calls
    PROVE  /\ TypeOK' /\ OnlyMoves(w) /\ KeepsReads(w) /\ me[w].pc = "failed"
           /\ me'[w].pc = (IF w \in Passes THEN "unclaim" ELSE "done")
           /\ me'[w].campaign = me[w].campaign /\ me'[w].lead = me[w].lead /\ me'[w].call = 0
           /\ LET c == me[w].call IN
              /\ OnlyWrites(c) /\ KeepsOrder(c)
              /\ calls'[c].status = "FAILED" /\ calls'[c].credits = 0
              /\ calls'[c].known = calls[c].known /\ calls'[c].startedAt = calls[c].startedAt
              /\ calls'[c].line = calls[c].line /\ calls'[c].dialledAt = calls[c].dialledAt
              /\ calls'[c].late = calls[c].late
           /\ UNCHANGED <<now, active, dnc, balance, member, counters>>
<1> DEFINE c == me[w].call
           row == [calls[c] EXCEPT !.status = "FAILED", !.credits = 0]
           pc == IF w \in Passes THEN "unclaim" ELSE "done"
           my == [me[w] EXCEPT !.pc = pc, !.call = 0]
<1>1. me[w].pc = "failed" /\ UNCHANGED <<now, active, dnc, balance, member, counters>>
  BY DEF MarkFailed, At
<1>2. /\ me[w] \in WorkerRow /\ me[w].sweep \subseteq DOMAIN calls /\ me[w].call \in 0 .. Len(calls)
      /\ calls \in Seq(CallRow) /\ calls[c] \in CallRow /\ refusals \in Nat /\ crashes \in Nat /\ Len(calls) \in Nat
  BY Typed
<1>3. /\ row \in CallRow /\ row.lead = calls[c].lead /\ row.campaign = calls[c].campaign
      /\ row.status = "FAILED" /\ row.credits = 0
      /\ row.known = calls[c].known /\ row.startedAt = calls[c].startedAt
      /\ row.line = calls[c].line /\ row.dialledAt = calls[c].dialledAt /\ row.late = calls[c].late
  BY <1>2 DEF CallRow, TerminalStatuses
<1>4. calls' = [calls EXCEPT ![c] = row]
  BY <1>2 DEF MarkFailed
<1> HIDE DEF row
<1>5. calls' \in Seq(CallRow) /\ calls'[c] = row /\ OnlyWrites(c)
  BY <1>2, <1>3, <1>4, CallWritten
<1>6. me' = [me EXCEPT ![w] = my]
  BY <1>2, Typed DEF MarkFailed
<1>7. pc \in Steps /\ 0 \in Nat
  BY DEF Steps
<1> HIDE DEF pc
<1>8. /\ my \in WorkerRow /\ my.pc = pc /\ my.campaign = me[w].campaign /\ my.lead = me[w].lead
      /\ my.call = 0 /\ my.batch = me[w].batch /\ my.sweep = me[w].sweep /\ my.claims = me[w].claims
  BY <1>2, <1>7 DEF WorkerRow
<1> HIDE DEF my
<1>9. me' \in [Workers -> WorkerRow] /\ me'[w] = my /\ OnlyMoves(w)
  BY <1>2, <1>6, <1>8, Typed, Moves
<1>10. TypeOK'
  <2>1. me'[w].call \in 0 .. Len(calls') /\ me'[w].sweep \subseteq DOMAIN calls' /\ Len(calls') >= Len(calls)
    BY <1>2, <1>5, <1>8, <1>9 DEF OnlyWrites
  <2> QED
    BY <1>1, <1>5, <1>9, <2>1, Typed, TypeNext DEF counters
<1> QED
  BY <1>1, <1>3, <1>5, <1>8, <1>9, <1>10 DEF KeepsReads, KeepsOrder, pc

LEMMA MarkStartedDoes ==
    ASSUME TypeOK, NEW w \in Workers, MarkStarted(w), me[w].call \in DOMAIN calls
    PROVE  /\ TypeOK' /\ OnlyMoves(w) /\ KeepsCall(w) /\ KeepsReads(w) /\ me[w].pc = "started" /\ me'[w].pc = "record"
           /\ LET c == me[w].call IN
              /\ OnlyWrites(c) /\ KeepsOrder(c)
              /\ calls'[c].status = "DIALING" /\ calls'[c].credits = calls[c].credits
              /\ calls'[c].known = TRUE /\ calls'[c].startedAt = now
              /\ calls'[c].line = calls[c].line /\ calls'[c].dialledAt = calls[c].dialledAt
              /\ calls'[c].late = calls[c].late
           /\ UNCHANGED <<now, active, dnc, balance, member, counters>>
<1> DEFINE c == me[w].call
           row == [calls[c] EXCEPT !.status = "DIALING", !.known = TRUE, !.startedAt = now]
<1>1. me[w].pc = "started" /\ UNCHANGED <<now, active, dnc, balance, member, counters>>
  BY DEF MarkStarted, At
<1>2. /\ me[w] \in WorkerRow /\ me[w].sweep \subseteq DOMAIN calls /\ me[w].call \in 0 .. Len(calls)
      /\ calls \in Seq(CallRow) /\ calls[c] \in CallRow /\ now \in Nat /\ refusals \in Nat /\ crashes \in Nat
  BY Typed
<1>3. /\ row \in CallRow /\ row.lead = calls[c].lead /\ row.campaign = calls[c].campaign
      /\ row.status = "DIALING" /\ row.credits = calls[c].credits
      /\ row.known = TRUE /\ row.startedAt = now
      /\ row.line = calls[c].line /\ row.dialledAt = calls[c].dialledAt /\ row.late = calls[c].late
  BY <1>2 DEF CallRow, LiveStatuses, Times
<1>4. calls' = [calls EXCEPT ![c] = row]
  BY <1>2 DEF MarkStarted
<1> HIDE DEF row
<1>5. calls' \in Seq(CallRow) /\ calls'[c] = row /\ OnlyWrites(c)
  BY <1>2, <1>3, <1>4, CallWritten
<1>6. /\ me' \in [Workers -> WorkerRow] /\ OnlyMoves(w) /\ KeepsCall(w) /\ KeepsReads(w)
      /\ me'[w].pc = "record"
  BY Typed, GotoMoves DEF Steps, MarkStarted
<1>7. TypeOK'
  <2>1. me'[w].call \in 0 .. Len(calls') /\ me'[w].sweep \subseteq DOMAIN calls' /\ Len(calls') >= Len(calls)
    BY <1>2, <1>5, <1>6, Typed DEF OnlyWrites, KeepsCall, KeepsReads
  <2> QED
    BY <1>1, <1>5, <1>6, <2>1, Typed, TypeNext DEF counters
<1> QED
  BY <1>1, <1>3, <1>5, <1>6, <1>7 DEF KeepsOrder

LEMMA RecordAttemptDoes ==
    ASSUME TypeOK, NEW w \in Workers, RecordAttempt(w), me[w].lead \in Leads
    PROVE  /\ TypeOK' /\ OnlyMoves(w) /\ KeepsReads(w) /\ me[w].pc = "record" /\ me'[w].pc = NextLead(w)
           /\ me'[w].lead = NoLead /\ me'[w].call = 0
           /\ OnlySettles(me[w].lead)
           /\ \/ ~me[w].campaign /\ member' = member
              \/ /\ me[w].campaign
                 /\ member'[me[w].lead].state = "IN_PROGRESS" /\ member'[me[w].lead].lastAttemptAt = now
           /\ UNCHANGED <<now, active, dnc, balance, calls, counters>>
<1> DEFINE l == me[w].lead
           pc == NextLead(w)
           my == [me[w] EXCEPT !.pc = pc, !.lead = NoLead, !.call = 0]
<1>1. me[w].pc = "record" /\ UNCHANGED <<now, active, dnc, balance, calls, counters>>
      /\ member' = IF me[w].campaign THEN [member EXCEPT ![me[w].lead] = Attempted(@)] ELSE member
  BY DEF RecordAttempt, At
<1>2. /\ me[w] \in WorkerRow /\ me[w].sweep \subseteq DOMAIN calls /\ me[w].call \in 0 .. Len(calls)
      /\ Len(calls) \in Nat /\ member[l] \in MemberRow /\ now \in Nat
  BY Typed
<1>3. me' = [me EXCEPT ![w] = my]
  BY <1>2, Typed DEF RecordAttempt
<1>4. pc \in Steps /\ 0 \in Nat
  BY DEF Steps, NextLead
<1> HIDE DEF pc
<1>5. /\ my \in WorkerRow /\ my.pc = pc /\ my.lead = NoLead
      /\ my.call = 0 /\ my.batch = me[w].batch /\ my.sweep = me[w].sweep /\ my.claims = me[w].claims
  BY <1>2, <1>4 DEF WorkerRow
<1> HIDE DEF my
<1>6. me' \in [Workers -> WorkerRow] /\ me'[w] = my /\ OnlyMoves(w)
  BY <1>2, <1>3, <1>5, Typed, Moves
<1>7. /\ Attempted(member[l]) \in MemberRow
      /\ Attempted(member[l]).state = "IN_PROGRESS" /\ Attempted(member[l]).lastAttemptAt = now
  <2>1. member[l].attempts + 1 \in Nat
    BY <1>2 DEF MemberRow
  <2> DEFINE more == member[l].attempts + 1
  <2>2. Attempted(member[l]) = [member[l] EXCEPT !.attempts = more, !.lastAttemptAt = now, !.state = "IN_PROGRESS"]
    BY DEF Attempted
  <2> HIDE DEF more
  <2>3. more \in Nat
    BY <2>1 DEF more
  <2> QED
    BY <1>2, <2>2, <2>3 DEF MemberRow, MemberStates, Times
<1>8. /\ member' \in [Leads -> MemberRow] /\ OnlySettles(me[w].lead)
      /\ \/ ~me[w].campaign /\ member' = member
         \/ /\ me[w].campaign
            /\ member'[me[w].lead].state = "IN_PROGRESS" /\ member'[me[w].lead].lastAttemptAt = now
  <2>1. CASE me[w].campaign
    <3>1. member' = [member EXCEPT ![l] = Attempted(member[l])]
      BY <1>1, <2>1
    <3> QED
      BY <1>7, <2>1, <3>1, Typed, MemberWritten
  <2>2. CASE ~me[w].campaign
    BY <1>1, <2>2, Typed DEF OnlySettles
  <2> QED
    BY <2>1, <2>2
<1>9. TypeOK'
  <2>1. me'[w].call \in 0 .. Len(calls') /\ me'[w].sweep \subseteq DOMAIN calls' /\ Len(calls') >= Len(calls)
    BY <1>1, <1>2, <1>5, <1>6
  <2> QED
    BY <1>1, <1>6, <1>8, <2>1, Typed, TypeNext DEF counters
<1> QED
  BY <1>1, <1>5, <1>6, <1>8, <1>9 DEF KeepsReads, pc

LEMMA ReleaseClaimDoes ==
    ASSUME TypeOK, NEW p \in Passes, ReleaseClaim(p), me[p].lead \in Leads
    PROVE  /\ TypeOK' /\ OnlyMoves(p) /\ me[p].pc = "unclaim"
           /\ \/ me'[p] = Idle
              \/ /\ me'[p].pc = "next" /\ me'[p].lead = NoLead /\ me'[p].batch = me[p].batch
                 /\ me'[p].campaign = me[p].campaign /\ me'[p].call = me[p].call
           /\ OnlySettles(me[p].lead)
           /\ member'[me[p].lead].state \in {"SKIPPED", "EXHAUSTED", "PENDING"}
           /\ member'[me[p].lead].lastAttemptAt = member[me[p].lead].lastAttemptAt
           /\ UNCHANGED <<now, active, dnc, balance, calls, counters>>
<1> DEFINE l == me[p].lead
           stop == "INSUFFICIENT_CREDITS" \in me[p].reasons \/ me[p].reasons \intersect CampaignWideReasons # {}
           my == IF stop THEN Idle ELSE [me[p] EXCEPT !.pc = "next", !.lead = NoLead, !.reasons = {}]
           state == IF me[p].reasons \intersect PermanentReasons # {} THEN "SKIPPED"
                    ELSE IF "MAX_ATTEMPTS_REACHED" \in me[p].reasons THEN "EXHAUSTED" ELSE "PENDING"
           m == [member[l] EXCEPT !.state = state]
<1>1. me[p].pc = "unclaim" /\ UNCHANGED <<now, active, dnc, balance, calls, counters>>
  BY DEF ReleaseClaim, At
<1>2. /\ p \in Workers /\ me[p] \in WorkerRow /\ me[p].sweep \subseteq DOMAIN calls /\ me[p].call \in 0 .. Len(calls)
      /\ Len(calls) \in Nat /\ member[l] \in MemberRow
  BY Typed DEF Workers
<1>3. me' = [me EXCEPT ![p] = my] /\ member' = [member EXCEPT ![l] = m]
  BY <1>2, Typed DEF ReleaseClaim
<1>4. state \in {"SKIPPED", "EXHAUSTED", "PENDING"}
  OBVIOUS
<1> HIDE DEF stop, state
<1>5. m \in MemberRow /\ m.state = state /\ m.lastAttemptAt = member[l].lastAttemptAt
  BY <1>2, <1>4 DEF MemberRow, MemberStates
<1> HIDE DEF m
<1>6. member' \in [Leads -> MemberRow] /\ member'[l] = m /\ OnlySettles(l)
  BY <1>2, <1>3, <1>5, Typed, MemberWritten
<1>7. /\ my \in WorkerRow /\ my.call \in 0 .. Len(calls) /\ my.sweep \subseteq DOMAIN calls
      /\ \/ my = Idle
         \/ /\ my.pc = "next" /\ my.lead = NoLead /\ my.batch = me[p].batch
            /\ my.campaign = me[p].campaign /\ my.call = me[p].call
  <2>1. CASE stop
    <3>1. Idle.call = 0 /\ Idle.sweep = {}
      BY DEF Idle
    <3> QED
      BY <1>2, <2>1, <3>1, IdleIsRow
  <2>2. CASE ~stop
    BY <1>2, <2>2 DEF WorkerRow, Steps
  <2> QED
    BY <2>1, <2>2
<1> HIDE DEF my
<1>8. me' \in [Workers -> WorkerRow] /\ me'[p] = my /\ OnlyMoves(p)
  BY <1>2, <1>3, <1>7, Typed, Moves
<1>9. TypeOK'
  BY <1>1, <1>2, <1>6, <1>7, <1>8, Typed, TypeNext DEF counters
<1> QED
  BY <1>1, <1>4, <1>5, <1>6, <1>7, <1>8, <1>9

LEMMA CrashDoes ==
    ASSUME TypeOK, NEW w \in Workers, Crash(w)
    PROVE  /\ TypeOK' /\ OnlyMoves(w) /\ me'[w].pc \in {"idle", "done"} /\ me'[w].call = 0 /\ me'[w].batch = {}
           /\ crashes' = crashes + 1
           /\ UNCHANGED <<now, active, dnc, balance, member, calls, refusals, hangUps, pauses>>
<1> DEFINE pc == IF w \in Passes THEN "idle" ELSE "done"
           my == [Idle EXCEPT !.pc = pc]
<1>1. /\ me' = [me EXCEPT ![w] = my] /\ crashes' = crashes + 1
      /\ UNCHANGED <<now, active, dnc, balance, member, calls, refusals, hangUps, pauses>>
  BY DEF Crash
<1>2. pc \in Steps /\ pc \in {"idle", "done"}
  BY DEF Steps
<1> HIDE DEF pc
<1>3. my \in WorkerRow /\ my.pc = pc /\ my.call = 0 /\ my.batch = {} /\ my.sweep = {}
  BY <1>2, IdleIsRow DEF WorkerRow, Idle
<1> HIDE DEF my
<1>4. me' \in [Workers -> WorkerRow] /\ me'[w] = my /\ OnlyMoves(w)
  BY <1>1, <1>3, Typed, Moves
<1>5. TypeOK'
  <2>1. me'[w].call \in 0 .. Len(calls') /\ me'[w].sweep \subseteq DOMAIN calls' /\ Len(calls') >= Len(calls)
        /\ crashes' \in Nat
    BY <1>1, <1>3, <1>4, Typed
  <2> QED
    BY <1>1, <1>4, <2>1, Typed, TypeNext
<1> QED
  BY <1>1, <1>2, <1>3, <1>4, <1>5

\* Nobody moves.
LEMMA StillTyped ==
    ASSUME TypeOK, me' = me, calls' \in Seq(CallRow), Len(calls') = Len(calls),
           now' \in Nat, active' \in BOOLEAN, dnc' \subseteq Leads, balance' \in Nat,
           member' \in [Leads -> MemberRow], hangUps' \in Nat, pauses' \in Nat, UNCHANGED <<crashes, refusals>>
    PROVE  TypeOK'
<1>1. DOMAIN calls' = DOMAIN calls
  BY Typed
<1> QED
  BY <1>1 DEF TypeOK, MemberRow

LEMMA PollDoes ==
    ASSUME TypeOK, NEW c \in DOMAIN calls, Poll(c)
    PROVE  TypeOK' /\ Settleable(c) /\ Synced(c) /\ UNCHANGED <<now, active, dnc, me, counters>>
<1>1. Settleable(c) /\ Sync(c) /\ UNCHANGED <<now, active, dnc, me, counters>>
  BY DEF Poll
<1>2. Synced(c) /\ calls' \in Seq(CallRow) /\ balance' \in Nat /\ member' \in [Leads -> MemberRow]
  BY <1>1, SyncDoes
<1>3. Len(calls') = Len(calls)
  BY <1>2 DEF Synced, OnlyWrites
<1>4. TypeOK'
  BY <1>1, <1>2, <1>3, StillTyped DEF TypeOK, counters
<1> QED
  BY <1>1, <1>2, <1>4

LEMMA LineEndsDoes ==
    ASSUME TypeOK, NEW c \in DOMAIN calls, LineEnds(c)
    PROVE  /\ TypeOK' /\ OnlyWrites(c) /\ KeepsOrder(c) /\ calls[c].line = "live"
           /\ calls'[c].line \in {"answered", "unanswered"}
           /\ calls'[c].status = calls[c].status /\ calls'[c].credits = calls[c].credits
           /\ calls'[c].known = calls[c].known /\ calls'[c].startedAt = calls[c].startedAt
           /\ calls'[c].dialledAt = calls[c].dialledAt /\ calls'[c].late = calls[c].late
           /\ UNCHANGED <<now, active, dnc, balance, member, me, counters>>
<1>1. calls[c].line = "live" /\ UNCHANGED <<now, active, dnc, balance, member, me, counters>>
  BY DEF LineEnds
<1>2. PICK outcome \in {"answered", "unanswered"} : calls' = [calls EXCEPT ![c].line = outcome]
  BY DEF LineEnds
<1> DEFINE row == [calls[c] EXCEPT !.line = outcome]
<1>3. calls \in Seq(CallRow) /\ calls[c] \in CallRow
  BY Typed
<1>4. /\ row \in CallRow /\ row.lead = calls[c].lead /\ row.campaign = calls[c].campaign
      /\ row.status = calls[c].status /\ row.credits = calls[c].credits
      /\ row.known = calls[c].known /\ row.startedAt = calls[c].startedAt
      /\ row.line = outcome /\ row.dialledAt = calls[c].dialledAt /\ row.late = calls[c].late
  BY <1>3 DEF CallRow
<1>5. calls' = [calls EXCEPT ![c] = row]
  BY <1>2
<1> HIDE DEF row
<1>6. calls' \in Seq(CallRow) /\ calls'[c] = row /\ OnlyWrites(c)
  BY <1>3, <1>4, <1>5, CallWritten
<1>7. TypeOK'
  BY <1>1, <1>6, Typed, StillTyped DEF TypeOK, OnlyWrites, counters
<1> QED
  BY <1>1, <1>4, <1>6, <1>7 DEF KeepsOrder

LEMMA HangUpDoes ==
    ASSUME TypeOK, NEW c \in DOMAIN calls, HangUp(c)
    PROVE  /\ TypeOK' /\ OnlyWrites(c) /\ KeepsOrder(c)
           /\ calls'[c].status = "CANCELLED" /\ calls'[c].credits = calls[c].credits
           /\ \/ calls'[c].line = calls[c].line
              \/ calls[c].line = "live" /\ calls'[c].line = "hungup"
           /\ calls'[c].known = calls[c].known /\ calls'[c].startedAt = calls[c].startedAt
           /\ calls'[c].dialledAt = calls[c].dialledAt /\ calls'[c].late = calls[c].late
           /\ UNCHANGED <<now, active, dnc, balance, member, me, crashes, refusals, pauses>>
<1> DEFINE line == IF calls[c].known /\ calls[c].line = "live" THEN "hungup" ELSE calls[c].line
           row == [calls[c] EXCEPT !.status = "CANCELLED", !.line = line]
<1>1. UNCHANGED <<now, active, dnc, balance, member, me, crashes, refusals, pauses>> /\ hangUps' = hangUps + 1
  BY DEF HangUp
<1>2. calls \in Seq(CallRow) /\ calls[c] \in CallRow
  BY Typed
<1>3. /\ line \in {"none", "live", "answered", "unanswered", "hungup"}
      /\ line = calls[c].line \/ (calls[c].line = "live" /\ line = "hungup")
  BY <1>2 DEF CallRow
<1>4. calls' = [calls EXCEPT ![c] = row]
  BY <1>2 DEF HangUp
<1> HIDE DEF line
<1>5. /\ row \in CallRow /\ row.lead = calls[c].lead /\ row.campaign = calls[c].campaign
      /\ row.status = "CANCELLED" /\ row.credits = calls[c].credits
      /\ row.known = calls[c].known /\ row.startedAt = calls[c].startedAt
      /\ row.line = line /\ row.dialledAt = calls[c].dialledAt /\ row.late = calls[c].late
  BY <1>2, <1>3 DEF CallRow, TerminalStatuses
<1> HIDE DEF row
<1>6. calls' \in Seq(CallRow) /\ calls'[c] = row /\ OnlyWrites(c)
  BY <1>2, <1>4, <1>5, CallWritten
<1>7. hangUps' \in Nat /\ Len(calls') = Len(calls)
  BY <1>1, <1>6 DEF OnlyWrites, TypeOK
<1>8. TypeOK'
  BY <1>1, <1>6, <1>7, Typed, StillTyped DEF TypeOK
<1> QED
  BY <1>1, <1>3, <1>5, <1>6, <1>8 DEF KeepsOrder

LEMMA WorldDoes ==
    ASSUME TypeOK, Pause \/ Resume \/ (\E l \in Leads : FlagDoNotCall(l)) \/ Tick \/ UNCHANGED vars
    PROVE  /\ TypeOK' /\ UNCHANGED <<balance, member, calls, me, crashes, refusals, hangUps>>
           /\ \/ now' = now
              \/ now' = now + 1 /\ UNCHANGED <<active, dnc, pauses>>
           /\ \/ pauses' = pauses + 1
              \/ pauses' = pauses /\ dnc' = dnc /\ (active => active')
<1>1. CASE Pause
  <2>1. /\ active' = FALSE /\ pauses' = pauses + 1
        /\ UNCHANGED <<now, dnc, balance, member, calls, me, crashes, refusals, hangUps>>
    BY <1>1 DEF Pause
  <2>2. now \in Nat /\ dnc \subseteq Leads /\ hangUps \in Nat /\ pauses \in Nat
    BY DEF TypeOK
  <2>3. active' \in BOOLEAN
    BY <1>1 DEF Pause
  <2>n. pauses' \in Nat
    BY <2>1, <2>2
  <2>4. TypeOK'
    BY <2>1, <2>2, <2>3, <2>n, Typed, StillTyped
  <2> QED
    BY <2>1, <2>4
<1>2. CASE Resume
  BY <1>2, Typed, StillTyped DEF Resume, TypeOK, counters
<1>3. CASE \E l \in Leads : FlagDoNotCall(l)
  BY <1>3, Typed, StillTyped DEF FlagDoNotCall, TypeOK
<1>4. CASE Tick
  BY <1>4, Typed, StillTyped DEF Tick, TypeOK, counters
<1>5. CASE UNCHANGED vars
  BY <1>5, Typed, StillTyped DEF vars, TypeOK, counters
<1> QED
  BY <1>1, <1>2, <1>3, <1>4, <1>5

-------------------------------------------------------------------------------
(* Types *)

\* Where a worker has a call, where it is past the gate, and where it has a lead, in hand.
Holding == {"dial", "refund", "failed", "started", "record"}
PastGate == {"charge", "create"} \union Holding
InHand == {"unclaim"} \union PastGate

HandsFull ==
    \A w \in Workers : /\ me[w].pc \in InHand => me[w].lead \in Leads
                       /\ me[w].pc \in Holding => me[w].call \in DOMAIN calls

\* The steps of a pass between two calls.
Quiet(p) ==
    /\ OnlyMoves(p) /\ me[p].pc \notin PastGate /\ me'[p].pc \notin InHand
    /\ UNCHANGED <<now, active, dnc, balance, calls, counters>>

LEMMA QuietSteps ==
    ASSUME TypeOK, HandsFull, NEW p \in Passes,
           \/ StartPass(p) \/ ReadClaims(p) \/ ReadLiveCalls(p) \/ ReleaseStaleClaim(p) \/ ReadDueLeads(p)
           \/ Claim(p) \/ RereadClaimed(p) \/ EndPass(p) \/ ReleaseClaim(p)
    PROVE  TypeOK' /\ Quiet(p)
<1> USE DEF Quiet, PastGate, InHand, Holding
<1>i. Idle.pc = "idle"
  BY DEF Idle
<1>1. CASE StartPass(p) \/ ReadClaims(p)
  BY <1>1, StartPassDoes, ReadClaimsDoes
<1>2. CASE ReadLiveCalls(p) \/ ReleaseStaleClaim(p)
  BY <1>2, ReadLiveCallsDoes, ReleaseStaleClaimDoes
<1>3. CASE ReadDueLeads(p) \/ Claim(p)
  BY <1>3, <1>i, ReadDueLeadsDoes, ClaimDoes
<1>4. CASE RereadClaimed(p)
  BY <1>4, RereadClaimedDoes
<1>5. CASE EndPass(p)
  BY <1>5, <1>i, EndPassDoes DEF EndPass, At
<1>6. CASE ReleaseClaim(p)
  <2>1. p \in Workers /\ me[p].pc = "unclaim"
    BY <1>6 DEF ReleaseClaim, At, Workers
  <2>2. me[p].lead \in Leads
    BY <2>1 DEF HandsFull
  <2> QED
    BY <1>6, <1>i, <2>2, ReleaseClaimDoes
<1> QED
  BY <1>1, <1>2, <1>3, <1>4, <1>5, <1>6

\* Every step, sorted by what it touches.
LEMMA NextSteps ==
    ASSUME TypeOK, HandsFull, [Next]_vars
    PROVE  \/ \E p \in Passes : TypeOK' /\ Quiet(p)
           \/ \E p \in Passes : SyncActive(p)
           \/ \E p \in Passes : DialNext(p)
           \/ \E w \in Callers : ClickCall(w)
           \/ \E w \in Workers : Charge(w)
           \/ \E w \in Workers : CreateCall(w)
           \/ \E w \in Workers : Dial(w)
           \/ \E w \in Workers : Refund(w)
           \/ \E w \in Workers : MarkFailed(w)
           \/ \E w \in Workers : MarkStarted(w)
           \/ \E w \in Workers : RecordAttempt(w)
           \/ \E w \in Workers : Crash(w)
           \/ \E c \in DOMAIN calls : Poll(c)
           \/ \E c \in DOMAIN calls : LineEnds(c)
           \/ \E c \in DOMAIN calls : HangUp(c)
           \/ Pause \/ Resume \/ (\E l \in Leads : FlagDoNotCall(l)) \/ Tick \/ UNCHANGED vars
BY QuietSteps DEF Next, PassStep, PlaceCallStep

\* A worker that takes a step of a call has a lead, and a call where it needs one.
LEMMA HasInHand ==
    ASSUME HandsFull, NEW w \in Workers
    PROVE  /\ CreateCall(w) \/ RecordAttempt(w) => me[w].lead \in Leads
           /\ Dial(w) \/ Refund(w) \/ MarkFailed(w) \/ MarkStarted(w) =>
                 me[w].call \in DOMAIN calls /\ me[w].lead \in Leads
<1>1. CreateCall(w) \/ RecordAttempt(w) => me[w].pc \in InHand
  BY DEF CreateCall, RecordAttempt, At, InHand, PastGate, Holding
<1>2. Dial(w) \/ Refund(w) \/ MarkFailed(w) \/ MarkStarted(w) => me[w].pc \in Holding /\ me[w].pc \in InHand
  BY DEF Dial, Refund, MarkFailed, MarkStarted, At, InHand, PastGate, Holding
<1> QED
  BY <1>1, <1>2 DEF HandsFull

TypeInv == TypeOK /\ HandsFull

LEMMA TypeInvInit == Init => TypeInv
<1> SUFFICES ASSUME Init PROVE TypeInv
  OBVIOUS
<1>1. Idle.call = 0 /\ Idle.sweep = {} /\ Idle.pc = "idle"
  BY DEF Idle
<1>2. \A w \in Workers : me[w] = Idle
  BY DEF Init
<1>3. me \in [Workers -> WorkerRow]
  BY IdleIsRow DEF Init
<1>4. calls = <<>> /\ Len(calls) = 0 /\ calls \in Seq(CallRow)
  BY DEF Init
<1>5. member \in [Leads -> [state : MemberStates, attempts : Nat, lastAttemptAt : Times, nextAttemptAt : Times]]
  BY DEF Init, MemberStates, Times
<1>6. balance \in Nat
  BY DialerAssumption DEF Init, DialerAssumption
<1>7. \A w \in Workers : me[w].call \in 0 .. Len(calls) /\ me[w].sweep \subseteq DOMAIN calls
  BY <1>1, <1>2, <1>4
<1>8. TypeOK
  BY <1>3, <1>4, <1>5, <1>6, <1>7 DEF Init, TypeOK
<1>9. HandsFull
  BY <1>1, <1>2 DEF HandsFull, InHand, PastGate, Holding
<1> QED
  BY <1>8, <1>9 DEF TypeInv

LEMMA TypeInvStep == TypeInv /\ [Next]_vars => TypeInv'
<1> SUFFICES ASSUME TypeInv, [Next]_vars PROVE TypeInv'
  OBVIOUS
<1> USE DEF TypeInv
<1>s. Passes \subseteq Workers /\ Callers \subseteq Workers
  BY DEF Workers
<1>h. \A w \in Workers : /\ me[w].pc \in InHand => me[w].lead \in Leads
                         /\ me[w].pc \in Holding => me[w].call \in DOMAIN calls
  BY DEF HandsFull
<1> USE DEF InHand, PastGate, Holding
\* The hands of the worker that moves are all there is to look at.
<1>k. ASSUME NEW w \in Workers, OnlyMoves(w), DOMAIN calls \subseteq DOMAIN calls',
             me'[w].pc \in InHand => me'[w].lead \in Leads,
             me'[w].pc \in Holding => me'[w].call \in DOMAIN calls'
      PROVE  HandsFull'
  BY <1>h, <1>k DEF HandsFull, OnlyMoves
<1>n. ASSUME me' = me, DOMAIN calls' = DOMAIN calls PROVE HandsFull'
  BY <1>h, <1>n DEF HandsFull
<1>1. ASSUME NEW p \in Passes, TypeOK', Quiet(p) PROVE TypeInv'
  BY <1>1, <1>s, <1>k DEF Quiet
<1>2. ASSUME NEW p \in Passes, SyncActive(p) PROVE TypeInv'
  <2>1. TypeOK' /\ OnlyMoves(p) /\ me'[p].pc = "sweep"
    BY <1>2, SyncActiveDoes
  <2>2. DOMAIN calls' = DOMAIN calls
    BY <1>2, SyncActiveDoes DEF Synced, OnlyWrites
  <2> QED
    BY <1>s, <1>k, <2>1, <2>2
<1>3. ASSUME NEW p \in Passes, DialNext(p) PROVE TypeInv'
  <2>1. PICK l \in me[p].batch : Gated(p, l, TRUE)
    BY <1>3, DialNextDoes
  <2>2. TypeOK' /\ OnlyMoves(p) /\ calls' = calls
    BY <1>3, DialNextDoes
  <2> QED
    BY <1>s, <1>k, <2>1, <2>2 DEF Gated
<1>4. ASSUME NEW w \in Callers, ClickCall(w) PROVE TypeInv'
  <2>1. PICK l \in Leads, inCampaign \in BOOLEAN : Gated(w, l, inCampaign)
    BY <1>4, ClickCallDoes
  <2>2. TypeOK' /\ OnlyMoves(w) /\ calls' = calls
    BY <1>4, ClickCallDoes
  <2> QED
    BY <1>s, <1>k, <2>1, <2>2 DEF Gated
<1>5. ASSUME NEW w \in Workers, Charge(w) PROVE TypeInv'
  <2>1. /\ TypeOK' /\ OnlyMoves(w) /\ KeepsCall(w) /\ calls' = calls /\ me[w].pc = "charge"
        /\ me'[w].pc \in {"create", "unclaim", "done"}
    BY <1>5, ChargeDoes
  <2> QED
    BY <1>h, <1>k, <2>1 DEF KeepsCall
<1>6. ASSUME NEW w \in Workers, CreateCall(w) PROVE TypeInv'
  <2>1. /\ TypeOK' /\ OnlyMoves(w) /\ me'[w].lead = me[w].lead /\ me'[w].call = Len(calls) + 1
        /\ DOMAIN calls' = 1 .. Len(calls) + 1 /\ DOMAIN calls = 1 .. Len(calls) /\ Len(calls) \in Nat
    BY <1>6, HasInHand, CreateCallDoes, Typed
  <2> QED
    BY <1>6, HasInHand, <1>k, <2>1
<1>7. ASSUME NEW w \in Workers, Dial(w) PROVE TypeInv'
  <2>1. TypeOK' /\ OnlyMoves(w) /\ KeepsCall(w) /\ DOMAIN calls' = DOMAIN calls
    BY <1>7, HasInHand, DialDoes DEF OnlyWrites
  <2> QED
    BY <1>7, HasInHand, <1>k, <2>1 DEF KeepsCall
<1>8. ASSUME NEW w \in Workers, Refund(w) PROVE TypeInv'
  <2>1. TypeOK' /\ OnlyMoves(w) /\ KeepsCall(w) /\ calls' = calls
    BY <1>8, HasInHand, RefundDoes
  <2> QED
    BY <1>8, HasInHand, <1>k, <2>1 DEF KeepsCall
<1>9. ASSUME NEW w \in Workers, MarkFailed(w) PROVE TypeInv'
  <2>1. /\ TypeOK' /\ OnlyMoves(w) /\ me'[w].lead = me[w].lead /\ DOMAIN calls' = DOMAIN calls
        /\ me'[w].pc \in {"unclaim", "done"}
    BY <1>9, HasInHand, MarkFailedDoes DEF OnlyWrites
  <2> QED
    BY <1>9, HasInHand, <1>k, <2>1
<1>10. ASSUME NEW w \in Workers, MarkStarted(w) PROVE TypeInv'
  <2>1. TypeOK' /\ OnlyMoves(w) /\ KeepsCall(w) /\ DOMAIN calls' = DOMAIN calls
    BY <1>10, HasInHand, MarkStartedDoes DEF OnlyWrites
  <2> QED
    BY <1>10, HasInHand, <1>k, <2>1 DEF KeepsCall
<1>11. ASSUME NEW w \in Workers, RecordAttempt(w) PROVE TypeInv'
  <2>1. TypeOK' /\ OnlyMoves(w) /\ me'[w].pc = NextLead(w) /\ calls' = calls
    BY <1>11, HasInHand, RecordAttemptDoes
  <2> QED
    BY <1>k, <2>1 DEF NextLead
<1>12. ASSUME NEW w \in Workers, Crash(w) PROVE TypeInv'
  <2>1. TypeOK' /\ OnlyMoves(w) /\ me'[w].pc \in {"idle", "done"} /\ calls' = calls
    BY <1>12, CrashDoes
  <2> QED
    BY <1>k, <2>1
<1>13. ASSUME NEW c \in DOMAIN calls, Poll(c) PROVE TypeInv'
  BY <1>13, <1>n, PollDoes DEF Synced, OnlyWrites
<1>14. ASSUME NEW c \in DOMAIN calls, LineEnds(c) \/ HangUp(c) PROVE TypeInv'
  BY <1>14, <1>n, LineEndsDoes, HangUpDoes DEF OnlyWrites
<1>15. CASE Pause \/ Resume \/ (\E l \in Leads : FlagDoNotCall(l)) \/ Tick \/ UNCHANGED vars
  BY <1>15, <1>n, WorldDoes
<1> QED
  BY <1>1, <1>2, <1>3, <1>4, <1>5, <1>6, <1>7, <1>8, <1>9, <1>10, <1>11, <1>12, <1>13, <1>14, <1>15, NextSteps

(* Every variable keeps its type; in particular the wallet is never negative *)
(* and a worker that writes a call's row or a lead's has one in hand.        *)
THEOREM DialerTypesHold == Spec => []TypeOK
<1>1. Spec => []TypeInv
  BY TypeInvInit, TypeInvStep, PTL DEF Spec
<1> QED
  BY <1>1, PTL DEF TypeInv

-------------------------------------------------------------------------------
(* The calls in hand *)

\* A call has a line once it was dialled and only then; what is ringing or was answered is paid for.
SoundCall(c) ==
    /\ calls[c].line = "none" <=> calls[c].dialledAt = Null
    /\ calls[c].line = "none" => ~calls[c].known /\ calls[c].late = {}
    /\ calls[c].known <=> calls[c].startedAt # Null
    /\ calls[c].dialledAt # Null => calls[c].dialledAt <= now
    /\ calls[c].known => calls[c].dialledAt <= calls[c].startedAt
    /\ calls[c].line \in {"live", "answered"} => calls[c].credits = 1

\* A call in hand is of the lead in hand, and as far as the worker is with it.
SoundHand(w) ==
    LET c == me[w].call IN
    /\ me[w].pc \in Holding => calls[c].lead = me[w].lead /\ calls[c].campaign = me[w].campaign
    /\ me[w].pc \in {"dial", "refund", "failed"} => calls[c].line = "none" /\ calls[c].credits = 1
    /\ me[w].pc = "started" => calls[c].line # "none" /\ ~calls[c].known

\* No two workers have the same call in hand.
OwnHands == \A v, w \in Workers : me[v].pc \in Holding /\ me[w].pc \in Holding /\ me[v].call = me[w].call => v = w

CallsInv ==
    /\ TypeInv
    /\ \A c \in DOMAIN calls : SoundCall(c)
    /\ \A w \in Workers : SoundHand(w)
    /\ OwnHands

\* What may become of a call that somebody else has in hand.
Mild(c) ==
    /\ KeepsOrder(c)
    /\ calls[c].line = "none" => calls'[c].line = "none" /\ calls'[c].credits = calls[c].credits
    /\ calls[c].line # "none" => calls'[c].line # "none"
    /\ calls'[c].known = calls[c].known

LEMMA CallKept ==
    ASSUME TypeInv, TypeInv', NEW c \in DOMAIN calls, SoundCall(c), calls'[c] = calls[c], now' \in {now, now + 1}
    PROVE  SoundCall(c)'
<1>1. calls[c] \in CallRow /\ now \in Nat
  BY Typed DEF TypeInv
<1>2. calls[c].dialledAt # Null => calls[c].dialledAt \in Nat
  BY <1>1 DEF CallRow, Times
<1>3. calls[c].dialledAt # Null => calls[c].dialledAt <= now'
  BY <1>1, <1>2 DEF SoundCall
<1> QED
  BY <1>3 DEF SoundCall

LEMMA HandKept ==
    ASSUME TypeInv, NEW v \in Workers, SoundHand(v), me'[v] = me[v], me[v].pc \in Holding => Mild(me[v].call)
    PROVE  SoundHand(v)'
BY DEF SoundHand, Mild, KeepsOrder, Holding

\* A worker that moves and keeps its call, or has none.
LEMMA OwnKept ==
    ASSUME OwnHands, NEW w \in Workers, OnlyMoves(w),
           me'[w].pc \in Holding => me[w].pc \in Holding /\ me'[w].call = me[w].call
    PROVE  OwnHands'
BY DEF OwnHands, OnlyMoves

\* Worker w moves, and writes at most its own call.
LEMMA WorkerMoves ==
    ASSUME CallsInv, TypeInv', NEW w \in Workers, OnlyMoves(w), now' = now,
           \/ calls' = calls
           \/ \E c \in DOMAIN calls : me[w].pc \in Holding /\ me[w].call = c /\ OnlyWrites(c) /\ SoundCall(c)',
           me'[w].pc \in Holding => me[w].pc \in Holding /\ me'[w].call = me[w].call,
           SoundHand(w)'
    PROVE  CallsInv'
<1>1. \A c \in DOMAIN calls' : SoundCall(c)'
  <2>1. DOMAIN calls' = DOMAIN calls
    BY DEF OnlyWrites
  <2>2. ASSUME NEW c \in DOMAIN calls PROVE SoundCall(c)'
    <3>1. SoundCall(c) /\ TypeInv
      BY DEF CallsInv
    <3>2. calls'[c] = calls[c] \/ SoundCall(c)'
      <4>1. CASE calls' = calls
        BY <4>1
      <4>2. ASSUME NEW d \in DOMAIN calls, OnlyWrites(d), SoundCall(d)' PROVE calls'[c] = calls[c] \/ SoundCall(c)'
        BY <4>2 DEF OnlyWrites
      <4> QED
        BY <4>1, <4>2
    <3> QED
      BY <3>1, <3>2, CallKept
  <2> QED
    BY <2>1, <2>2
<1>2. ASSUME NEW v \in Workers \ {w} PROVE SoundHand(v)'
  <2>1. me'[v] = me[v] /\ SoundHand(v)
    BY DEF OnlyMoves, CallsInv
  <2>2. me[v].pc \in Holding => calls'[me[v].call] = calls[me[v].call]
    BY DEF OnlyWrites, CallsInv, OwnHands, TypeInv, HandsFull
  <2>3. me[v].pc \in Holding => Mild(me[v].call)
    BY <2>2 DEF Mild, KeepsOrder
  <2> QED
    BY <2>1, <2>3, HandKept DEF CallsInv
<1>3. OwnHands'
  BY OwnKept DEF CallsInv
<1> QED
  BY <1>1, <1>2, <1>3 DEF CallsInv

\* Something becomes of a call, and whoever has it in hand does not move.
LEMMA CallHappens ==
    ASSUME CallsInv, TypeInv', NEW c \in DOMAIN calls, OnlyWrites(c), Mild(c), SoundCall(c)', now' = now,
           \A v \in Workers : me'[v] = me[v] \/ me'[v].pc \notin Holding
    PROVE  CallsInv'
<1>1. \A d \in DOMAIN calls' : SoundCall(d)'
  <2>1. DOMAIN calls' = DOMAIN calls
    BY DEF OnlyWrites
  <2>2. ASSUME NEW d \in DOMAIN calls PROVE SoundCall(d)'
    BY <2>2, CallKept DEF CallsInv, OnlyWrites
  <2> QED
    BY <2>1, <2>2
<1>2. ASSUME NEW v \in Workers PROVE SoundHand(v)'
  <2>1. CASE me'[v] = me[v]
    <3>1. me[v].pc \in Holding => Mild(me[v].call)
      BY DEF OnlyWrites, Mild, KeepsOrder, CallsInv, TypeInv, HandsFull
    <3> QED
      BY <2>1, <3>1, HandKept DEF CallsInv
  <2>2. CASE me'[v].pc \notin Holding
    BY <2>2 DEF SoundHand, Holding
  <2> QED
    BY <2>1, <2>2
<1>3. OwnHands'
  BY DEF OwnHands, CallsInv
<1> QED
  BY <1>1, <1>2, <1>3 DEF CallsInv

LEMMA SyncedIsMild ==
    ASSUME TypeInv, NEW c \in DOMAIN calls, SoundCall(c), Settleable(c), Synced(c), now' = now
    PROVE  OnlyWrites(c) /\ Mild(c) /\ SoundCall(c)'
<1>1. calls[c].line \notin {"none", "live"}
  BY DEF Settleable
<1>2. Mild(c) /\ OnlyWrites(c)
  BY <1>1 DEF Synced, Mild
<1>3. SoundCall(c)'
  <2>1. calls'[c].line \in {"live", "answered"} => calls'[c].credits = 1
    BY <1>1 DEF Synced, SoundCall
  <2> QED
    BY <1>1, <2>1 DEF Synced, SoundCall
<1> QED
  BY <1>2, <1>3

LEMMA CallsInvInit == Init => CallsInv
<1> SUFFICES ASSUME Init PROVE CallsInv
  OBVIOUS
<1>1. \A w \in Workers : me[w].pc = "idle"
  BY DEF Init, Idle
<1>2. DOMAIN calls = {}
  BY DEF Init
<1> QED
  BY <1>1, <1>2, TypeInvInit DEF CallsInv, SoundHand, OwnHands, Holding

LEMMA CallsInvStep == CallsInv /\ [Next]_vars => CallsInv'
<1> SUFFICES ASSUME CallsInv, [Next]_vars PROVE CallsInv'
  OBVIOUS
<1>t. TypeInv /\ TypeInv' /\ TypeOK /\ HandsFull
  BY TypeInvStep DEF CallsInv, TypeInv
<1>s. Passes \subseteq Workers /\ Callers \subseteq Workers
  BY DEF Workers
<1>c. \A c \in DOMAIN calls : SoundCall(c)
  BY DEF CallsInv
<1>w. \A w \in Workers : SoundHand(w)
  BY DEF CallsInv
<1>1. ASSUME NEW p \in Passes, Quiet(p) PROVE CallsInv'
  <2>1. /\ OnlyMoves(p) /\ now' = now /\ calls' = calls
        /\ me'[p].pc \notin Holding /\ me'[p].pc \notin {"dial", "refund", "failed", "started"}
    BY <1>1 DEF Quiet, InHand, PastGate, Holding
  <2> QED
    BY <1>s, <1>t, <2>1, WorkerMoves DEF SoundHand
<1>2. ASSUME NEW p \in Passes, SyncActive(p) PROVE CallsInv'
  <2>1. /\ OnlyMoves(p) /\ me'[p].pc \notin Holding /\ me'[p].pc \notin {"dial", "refund", "failed", "started"}
        /\ now' = now
    BY <1>2, <1>t, SyncActiveDoes DEF Holding
  <2>2. CASE calls' = calls
    BY <1>s, <1>t, <2>1, <2>2, WorkerMoves DEF SoundHand
  <2>3. ASSUME NEW c \in DOMAIN calls, Settleable(c), Synced(c) PROVE CallsInv'
    BY <1>c, <1>t, <2>1, <2>3, SyncedIsMild, CallHappens DEF OnlyMoves
  <2> QED
    BY <1>2, <1>t, <2>2, <2>3, SyncActiveDoes
<1>3. ASSUME NEW w \in Workers, NEW l, NEW inCampaign, Gated(w, l, inCampaign), OnlyMoves(w), UNCHANGED <<now, calls>>
      PROVE  CallsInv'
  <2>1. me'[w].pc \notin Holding /\ me'[w].pc \notin {"dial", "refund", "failed", "started"}
    BY <1>3 DEF Gated, Holding
  <2> QED
    BY <1>3, <1>t, <2>1, WorkerMoves DEF SoundHand
<1>4. ASSUME NEW w \in Workers, Charge(w) PROVE CallsInv'
  <2>1. me'[w].pc \notin Holding /\ me'[w].pc \notin {"dial", "refund", "failed", "started"} /\ OnlyMoves(w)
        /\ UNCHANGED <<now, calls>>
    BY <1>4, <1>t, ChargeDoes DEF Holding
  <2> QED
    BY <1>t, <2>1, WorkerMoves DEF SoundHand
<1>5. ASSUME NEW w \in Workers, CreateCall(w) PROVE CallsInv'
  <2>0. PICK n \in Nat : n = Len(calls) + 1
    BY <1>t, Typed
  <2>1. /\ OnlyMoves(w) /\ now' = now /\ me'[w].pc = "dial" /\ me'[w].call = n
        /\ me'[w].lead = me[w].lead /\ me'[w].campaign = me[w].campaign
        /\ DOMAIN calls' = 1 .. n /\ \A c \in DOMAIN calls : calls'[c] = calls[c]
        /\ calls'[n] = [lead |-> me[w].lead, campaign |-> me[w].campaign, status |-> "QUEUED",
                        known |-> FALSE, startedAt |-> Null, credits |-> 1,
                        line |-> "none", dialledAt |-> Null, late |-> {}]
    BY <1>5, <1>t, <2>0, HasInHand, CreateCallDoes
  <2>n. DOMAIN calls' = DOMAIN calls \union {n} /\ n \notin DOMAIN calls
    BY <1>t, <2>0, <2>1, Typed
  <2>2. \A c \in DOMAIN calls : SoundCall(c)'
    BY <1>c, <1>t, <2>1, <2>n, CallKept
  <2>3. SoundCall(n)'
    BY <2>1, <2>n, RulesAssumption DEF RulesAssumption, SoundCall
  <2>4. SoundHand(w)'
    BY <2>1 DEF SoundHand
  <2>5. ASSUME NEW v \in Workers \ {w} PROVE SoundHand(v)'
    <3>1. me'[v] = me[v] /\ SoundHand(v)
      BY <1>w, <2>1 DEF OnlyMoves
    <3>2. me[v].pc \in Holding => Mild(me[v].call)
      BY <1>t, <2>1, <2>n DEF Mild, KeepsOrder, HandsFull
    <3> QED
      BY <1>t, <3>1, <3>2, HandKept
  <2>6. OwnHands'
    BY <1>t, <2>1, <2>n DEF CallsInv, OwnHands, OnlyMoves, HandsFull
  <2> QED
    BY <1>t, <2>1, <2>2, <2>3, <2>4, <2>5, <2>6, <2>n DEF CallsInv
<1>6. ASSUME NEW w \in Workers, Dial(w) PROVE CallsInv'
  <2>0. PICK c \in DOMAIN calls : c = me[w].call
    BY <1>6, <1>t, HasInHand
  <2>1. /\ OnlyMoves(w) /\ KeepsCall(w) /\ now' = now /\ now \in Nat /\ me[w].pc = "dial" /\ c \in DOMAIN calls
        /\ \/ me'[w].pc = "refund" /\ calls' = calls
           \/ /\ me'[w].pc = "started" /\ OnlyWrites(c) /\ KeepsOrder(c)
              /\ calls'[c].known = calls[c].known /\ calls'[c].startedAt = calls[c].startedAt
              /\ calls'[c].credits = calls[c].credits
              /\ calls'[c].line = "live" /\ calls'[c].dialledAt = now
    BY <1>6, <1>t, <2>0, HasInHand, DialDoes, Typed
  <2>2. SoundCall(c) /\ SoundHand(w) /\ calls[c] \in CallRow
    BY <1>c, <1>w, <1>t, <2>0, <2>1, Typed
  <2>3. calls[c].line = "none" /\ calls[c].credits = 1 /\ ~calls[c].known
        /\ calls[c].lead = me[w].lead /\ calls[c].campaign = me[w].campaign
    BY <2>0, <2>1, <2>2 DEF SoundHand, SoundCall, Holding
  <2>4. CASE me'[w].pc = "refund" /\ calls' = calls
    BY <1>t, <2>0, <2>1, <2>3, <2>4, WorkerMoves DEF SoundHand, KeepsCall, Holding
  <2>5. CASE me'[w].pc = "started" /\ OnlyWrites(c)
    <3>1. SoundCall(c)'
      BY <2>0, <2>1, <2>2, <2>3, <2>5, RulesAssumption DEF RulesAssumption, SoundCall
    <3>2. SoundHand(w)'
      BY <2>0, <2>1, <2>3, <2>5 DEF SoundHand, KeepsCall, KeepsOrder
    <3> QED
      BY <1>t, <2>0, <2>1, <2>5, <3>1, <3>2, WorkerMoves DEF KeepsCall, Holding
  <2> QED
    BY <2>0, <2>1, <2>4, <2>5
<1>7. ASSUME NEW w \in Workers, Refund(w) PROVE CallsInv'
  <2>1. /\ OnlyMoves(w) /\ KeepsCall(w) /\ UNCHANGED <<now, calls>> /\ me[w].pc = "refund" /\ me'[w].pc = "failed"
    BY <1>7, <1>t, HasInHand, RefundDoes
  <2>2. SoundHand(w)'
    BY <1>w, <2>1 DEF SoundHand, KeepsCall, Holding
  <2> QED
    BY <1>t, <2>1, <2>2, WorkerMoves DEF KeepsCall, Holding
<1>8. ASSUME NEW w \in Workers, MarkFailed(w) PROVE CallsInv'
  <2>0. PICK c \in DOMAIN calls : c = me[w].call
    BY <1>8, <1>t, HasInHand
  <2>1. /\ OnlyMoves(w) /\ now' = now /\ me[w].pc = "failed" /\ OnlyWrites(c) /\ KeepsOrder(c)
        /\ me'[w].pc \notin Holding /\ me'[w].pc \notin {"dial", "refund", "failed", "started"}
        /\ calls'[c].known = calls[c].known /\ calls'[c].startedAt = calls[c].startedAt
        /\ calls'[c].line = calls[c].line /\ calls'[c].dialledAt = calls[c].dialledAt
        /\ calls'[c].late = calls[c].late
        /\ c \in DOMAIN calls
    BY <1>8, <1>t, <2>0, HasInHand, MarkFailedDoes DEF Holding
  <2>2. SoundCall(c) /\ calls[c].line = "none"
    BY <1>c, <1>w, <2>0, <2>1 DEF SoundHand
  <2>3. SoundCall(c)'
    BY <2>0, <2>1, <2>2 DEF SoundCall
  <2> QED
    BY <1>t, <2>0, <2>1, <2>3, WorkerMoves DEF SoundHand, Holding
<1>9. ASSUME NEW w \in Workers, MarkStarted(w) PROVE CallsInv'
  <2>0. PICK c \in DOMAIN calls : c = me[w].call
    BY <1>9, <1>t, HasInHand
  <2>1. /\ OnlyMoves(w) /\ KeepsCall(w) /\ now' = now /\ now \in Nat /\ me[w].pc = "started" /\ me'[w].pc = "record"
        /\ OnlyWrites(c) /\ KeepsOrder(c)
        /\ calls'[c].credits = calls[c].credits /\ calls'[c].known = TRUE /\ calls'[c].startedAt = now
        /\ calls'[c].line = calls[c].line /\ calls'[c].dialledAt = calls[c].dialledAt
        /\ calls'[c].late = calls[c].late
        /\ c \in DOMAIN calls
    BY <1>9, <1>t, <2>0, HasInHand, MarkStartedDoes, Typed
  <2>2. SoundCall(c) /\ SoundHand(w) /\ calls[c].line # "none"
    BY <1>c, <1>w, <2>0, <2>1 DEF SoundHand
  <2>3. SoundCall(c)'
    BY <2>0, <2>1, <2>2, RulesAssumption DEF RulesAssumption, SoundCall
  <2>4. SoundHand(w)'
    BY <2>0, <2>1, <2>2 DEF SoundHand, KeepsCall, KeepsOrder, Holding
  <2> QED
    BY <1>t, <2>0, <2>1, <2>3, <2>4, WorkerMoves DEF KeepsCall, Holding
<1>10. ASSUME NEW w \in Workers, RecordAttempt(w) \/ Crash(w) PROVE CallsInv'
  <2>1. /\ OnlyMoves(w) /\ UNCHANGED <<now, calls>>
        /\ me'[w].pc \notin Holding /\ me'[w].pc \notin {"dial", "refund", "failed", "started"}
    BY <1>10, <1>t, HasInHand, RecordAttemptDoes, CrashDoes DEF NextLead, Holding
  <2> QED
    BY <1>t, <2>1, WorkerMoves DEF SoundHand
<1>11. ASSUME NEW c \in DOMAIN calls, Poll(c) PROVE CallsInv'
  <2>1. Settleable(c) /\ Synced(c) /\ UNCHANGED <<now, me>>
    BY <1>11, <1>t, PollDoes
  <2> QED
    BY <1>c, <1>t, <2>1, SyncedIsMild, CallHappens
<1>12. ASSUME NEW c \in DOMAIN calls, LineEnds(c) \/ HangUp(c) PROVE CallsInv'
  <2>1. /\ OnlyWrites(c) /\ KeepsOrder(c) /\ UNCHANGED <<now, me>>
        /\ calls'[c].known = calls[c].known /\ calls'[c].startedAt = calls[c].startedAt
        /\ calls'[c].dialledAt = calls[c].dialledAt /\ calls'[c].late = calls[c].late
        /\ calls'[c].credits = calls[c].credits
        /\ \/ calls'[c].line = calls[c].line
           \/ calls[c].line = "live" /\ calls'[c].line \in {"answered", "unanswered", "hungup"}
    BY <1>12, <1>t, LineEndsDoes, HangUpDoes
  <2>2. Mild(c)
    BY <2>1 DEF Mild
  <2>3. SoundCall(c)'
    BY <1>c, <2>1 DEF SoundCall
  <2> QED
    BY <1>t, <2>1, <2>2, <2>3, CallHappens
<1>13. CASE Pause \/ Resume \/ (\E l \in Leads : FlagDoNotCall(l)) \/ Tick \/ UNCHANGED vars
  <2>1. UNCHANGED <<calls, me>> /\ now' \in {now, now + 1}
    BY <1>13, <1>t, WorldDoes
  <2>2. \A c \in DOMAIN calls' : SoundCall(c)'
    BY <1>c, <1>t, <2>1, CallKept
  <2>3. (\A w \in Workers : SoundHand(w)') /\ OwnHands'
    BY <1>w, <2>1 DEF CallsInv, SoundHand, OwnHands
  <2> QED
    BY <1>t, <2>2, <2>3 DEF CallsInv
<1>14. ASSUME NEW p \in Passes, DialNext(p) PROVE CallsInv'
  BY <1>3, <1>14, <1>s, <1>t, DialNextDoes
<1>15. ASSUME NEW w \in Callers, ClickCall(w) PROVE CallsInv'
  BY <1>3, <1>15, <1>s, <1>t, ClickCallDoes
<1> QED
  BY <1>1, <1>2, <1>4, <1>5, <1>6, <1>7, <1>8, <1>9, <1>10, <1>11, <1>12, <1>13, <1>14, <1>15, <1>t, NextSteps

-------------------------------------------------------------------------------
(* Counting *)

LEMMA Fewer ==
    ASSUME NEW S, NEW T, IsFiniteSet(S), T \subseteq S
    PROVE  /\ IsFiniteSet(T) /\ Cardinality(T) \in Nat /\ Cardinality(S) \in Nat
           /\ Cardinality(T) <= Cardinality(S)
BY FS_Subset, FS_CardinalityType

LEMMA OneMore ==
    ASSUME NEW S, NEW T, NEW x, IsFiniteSet(S), T \subseteq S \union {x}
    PROVE  /\ IsFiniteSet(T) /\ Cardinality(T) \in Nat /\ Cardinality(S) \in Nat
           /\ Cardinality(T) <= Cardinality(S) + 1
<1>1. IsFiniteSet(S \union {x}) /\ Cardinality(S \union {x}) <= Cardinality(S) + 1 /\ Cardinality(S) \in Nat
  BY FS_AddElement, FS_CardinalityType
<1>2. /\ IsFiniteSet(T) /\ Cardinality(T) \in Nat /\ Cardinality(S \union {x}) \in Nat
      /\ Cardinality(T) <= Cardinality(S \union {x})
  BY <1>1, Fewer
<1> QED
  BY <1>1, <1>2

LEMMA OneLess ==
    ASSUME NEW S, NEW T, NEW x \in S, IsFiniteSet(S), T \subseteq S \ {x}
    PROVE  /\ IsFiniteSet(T) /\ Cardinality(T) \in Nat /\ Cardinality(S) \in Nat
           /\ Cardinality(T) + 1 <= Cardinality(S)
<1>1. IsFiniteSet(S \ {x}) /\ Cardinality(S \ {x}) = Cardinality(S) - 1 /\ Cardinality(S) \in Nat
  BY FS_RemoveElement, FS_CardinalityType
<1>2. /\ IsFiniteSet(T) /\ Cardinality(T) \in Nat /\ Cardinality(S \ {x}) \in Nat
      /\ Cardinality(T) <= Cardinality(S \ {x})
  BY <1>1, Fewer
<1> QED
  BY <1>1, <1>2

\* There are finitely many workers and calls.
LEMMA Finite == TypeOK => IsFiniteSet(Workers) /\ IsFiniteSet(DOMAIN calls)
<1>1. IsFiniteSet(Workers)
  BY DialerAssumption, FS_Union DEF DialerAssumption, Workers
<1>2. TypeOK => DOMAIN calls = 1 .. Len(calls) /\ Len(calls) \in Nat
  BY Typed
<1> QED
  BY <1>1, <1>2, FS_Interval

-------------------------------------------------------------------------------
(* Nobody rings unpaid *)

Paying == {w \in Workers : me[w].pc \in {"create", "dial", "refund"}}
PaidFor == {c \in DOMAIN calls : calls[c].line # "none" /\ calls[c].credits = 1}

\* The wallet, the charges whose calls are not dialled yet, and the calls paid for, are never more than there was.
MoneyInv == CallsInv /\ balance + Cardinality(Paying) + Cardinality(PaidFor) <= Credits

LEMMA FinitelyPaid == TypeOK => IsFiniteSet(Paying) /\ IsFiniteSet(PaidFor)
BY Finite, Fewer DEF Paying, PaidFor

\* A sync gives back what a call cost, and takes that call out of those paid for.
LEMMA SyncedPays ==
    ASSUME TypeOK, NEW c \in DOMAIN calls, Settleable(c), Synced(c)
    PROVE  balance' \in Nat /\ Cardinality(PaidFor') \in Nat
           /\ balance' + Cardinality(PaidFor') <= balance + Cardinality(PaidFor)
<1>1. IsFiniteSet(PaidFor) /\ balance \in Nat
  BY FinitelyPaid, Typed
<1>2. OnlyWrites(c) /\ calls'[c].line = calls[c].line /\ calls[c].line # "none"
  BY DEF Synced, Settleable
<1>3. CASE calls'[c].credits = calls[c].credits /\ balance' = balance
  <2>1. PaidFor' \subseteq PaidFor
    BY <1>2, <1>3 DEF PaidFor, OnlyWrites
  <2> QED
    BY <1>1, <1>3, <2>1, Fewer
<1>4. CASE calls[c].credits = 1 /\ calls'[c].credits = 0 /\ balance' = balance + 1
  <2>1. PaidFor' \subseteq PaidFor \ {c} /\ c \in PaidFor
    BY <1>2, <1>4 DEF PaidFor, OnlyWrites
  <2> QED
    BY <1>1, <1>4, <2>1, OneLess
<1> QED
  BY <1>3, <1>4 DEF Synced

LEMMA MoneyInvStep == MoneyInv /\ [Next]_vars => MoneyInv'
<1> SUFFICES ASSUME MoneyInv, [Next]_vars PROVE MoneyInv'
  OBVIOUS
<1>t. CallsInv /\ CallsInv' /\ TypeOK /\ HandsFull
  BY CallsInvStep DEF MoneyInv, CallsInv, TypeInv
<1>f. /\ IsFiniteSet(Paying) /\ IsFiniteSet(PaidFor) /\ balance \in Nat /\ Credits \in Nat
      /\ Cardinality(Paying) \in Nat /\ Cardinality(PaidFor) \in Nat
      /\ balance + Cardinality(Paying) + Cardinality(PaidFor) <= Credits
  BY <1>t, FinitelyPaid, FS_CardinalityType, Typed, DialerAssumption DEF MoneyInv, DialerAssumption
<1>s. Passes \subseteq Workers /\ Callers \subseteq Workers
  BY DEF Workers
\* Nothing is charged and nothing paid for.
<1>q. ASSUME balance' = balance, Paying' \subseteq Paying, PaidFor' \subseteq PaidFor PROVE MoneyInv'
  BY <1>t, <1>f, <1>q, Fewer DEF MoneyInv
<1>m. ASSUME NEW w \in Workers, OnlyMoves(w), me'[w].pc \notin {"create", "dial", "refund"}
      PROVE  Paying' \subseteq Paying \ {w}
  BY <1>m DEF Paying, OnlyMoves
<1>u. calls' = calls => PaidFor' = PaidFor
  BY DEF PaidFor
<1>1. ASSUME NEW p \in Passes, Quiet(p) PROVE MoneyInv'
  BY <1>1, <1>m, <1>q, <1>s, <1>u DEF Quiet, InHand, PastGate, Holding
<1>2. ASSUME NEW p \in Passes, SyncActive(p) PROVE MoneyInv'
  <2>1. Paying' \subseteq Paying
    BY <1>2, <1>m, <1>s, <1>t, SyncActiveDoes
  <2>2. CASE UNCHANGED <<balance, calls>>
    BY <1>q, <1>u, <2>1, <2>2
  <2>3. ASSUME NEW c \in DOMAIN calls, Settleable(c), Synced(c) PROVE MoneyInv'
    <3>1. balance' \in Nat /\ Cardinality(PaidFor') \in Nat
          /\ balance' + Cardinality(PaidFor') <= balance + Cardinality(PaidFor)
      BY <1>t, <2>3, SyncedPays
    <3>2. Cardinality(Paying') \in Nat /\ Cardinality(Paying') <= Cardinality(Paying)
      BY <1>f, <2>1, Fewer
    <3> QED
      BY <1>t, <1>f, <3>1, <3>2 DEF MoneyInv
  <2> QED
    BY <1>2, <1>t, <2>2, <2>3, SyncActiveDoes
<1>3. ASSUME NEW w \in Workers, NEW l, NEW inCampaign, Gated(w, l, inCampaign), OnlyMoves(w),
             UNCHANGED <<balance, calls>>
      PROVE  MoneyInv'
  BY <1>3, <1>m, <1>q, <1>u DEF Gated
<1>4. ASSUME NEW w \in Workers, Charge(w) PROVE MoneyInv'
  <2>1. /\ OnlyMoves(w) /\ calls' = calls
        /\ \/ me'[w].pc = "create" /\ balance' = balance - 1
           \/ me'[w].pc \in {"unclaim", "done"} /\ balance' = balance
    BY <1>4, <1>t, ChargeDoes
  <2>2. CASE me'[w].pc = "create" /\ balance' = balance - 1
    <3>1. Paying' \subseteq Paying \union {w}
      BY <2>1 DEF Paying, OnlyMoves
    <3>2. Cardinality(Paying') \in Nat /\ Cardinality(Paying') <= Cardinality(Paying) + 1
      BY <1>f, <3>1, OneMore
    <3> QED
      BY <1>t, <1>f, <1>u, <2>1, <2>2, <3>2 DEF MoneyInv
  <2>3. CASE me'[w].pc \in {"unclaim", "done"} /\ balance' = balance
    BY <1>m, <1>q, <1>u, <2>1, <2>3
  <2> QED
    BY <2>1, <2>2, <2>3
<1>5. ASSUME NEW w \in Workers, CreateCall(w) PROVE MoneyInv'
  <2>0. PICK n \in Nat : n = Len(calls) + 1
    BY <1>t, Typed
  <2>1. /\ OnlyMoves(w) /\ balance' = balance /\ me[w].pc = "create" /\ DOMAIN calls' = 1 .. n
        /\ \A c \in DOMAIN calls : calls'[c] = calls[c]
        /\ calls'[n] = [lead |-> me[w].lead, campaign |-> me[w].campaign, status |-> "QUEUED",
                        known |-> FALSE, startedAt |-> Null, credits |-> 1,
                        line |-> "none", dialledAt |-> Null, late |-> {}]
    BY <1>5, <1>t, <2>0, HasInHand, CreateCallDoes
  <2>2. DOMAIN calls' = DOMAIN calls \union {n}
    BY <1>t, <2>0, <2>1, Typed
  <2>3. Paying' \subseteq Paying
    BY <2>1 DEF Paying, OnlyMoves
  <2>4. PaidFor' \subseteq PaidFor
    <3>1. calls'[n].line = "none"
      BY <2>1
    <3> QED
      BY <2>1, <2>2, <3>1 DEF PaidFor
  <2> QED
    BY <1>q, <2>1, <2>3, <2>4
<1>6. ASSUME NEW w \in Workers, Dial(w) PROVE MoneyInv'
  <2>0. PICK c \in DOMAIN calls : c = me[w].call
    BY <1>6, <1>t, HasInHand
  <2>1. /\ OnlyMoves(w) /\ balance' = balance /\ me[w].pc = "dial"
        /\ \/ me'[w].pc = "refund" /\ calls' = calls
           \/ me'[w].pc = "started" /\ OnlyWrites(c)
    BY <1>6, <1>t, <2>0, HasInHand, DialDoes
  <2>2. w \in Paying
    BY <2>1 DEF Paying
  <2>3. CASE me'[w].pc = "refund" /\ calls' = calls
    <3>1. Paying' \subseteq Paying
      BY <2>1, <2>2 DEF Paying, OnlyMoves
    <3> QED
      BY <1>q, <1>u, <2>1, <2>3, <3>1
  <2>4. CASE me'[w].pc = "started" /\ OnlyWrites(c)
    <3>1. Paying' \subseteq Paying \ {w}
      BY <1>m, <2>1, <2>4
    <3>2. PaidFor' \subseteq PaidFor \union {c}
      BY <2>4 DEF PaidFor, OnlyWrites
    <3>3. Cardinality(Paying') \in Nat /\ Cardinality(Paying') + 1 <= Cardinality(Paying)
      BY <1>f, <2>2, <3>1, OneLess
    <3>4. Cardinality(PaidFor') \in Nat /\ Cardinality(PaidFor') <= Cardinality(PaidFor) + 1
      BY <1>f, <3>2, OneMore
    <3> QED
      BY <1>t, <1>f, <2>1, <3>3, <3>4 DEF MoneyInv
  <2> QED
    BY <2>1, <2>3, <2>4
<1>7. ASSUME NEW w \in Workers, Refund(w) PROVE MoneyInv'
  <2>0. PICK c \in DOMAIN calls : c = me[w].call
    BY <1>7, <1>t, HasInHand
  <2>1. /\ OnlyMoves(w) /\ calls' = calls /\ me[w].pc = "refund" /\ me'[w].pc = "failed"
        /\ balance' = balance + calls[c].credits
    BY <1>7, <1>t, <2>0, HasInHand, RefundDoes
  <2>2. calls[c].credits \in {0, 1}
    BY <1>t, <2>0, Typed DEF CallRow
  <2>3. Paying' \subseteq Paying \ {w} /\ w \in Paying
    BY <1>m, <2>1 DEF Paying
  <2>4. Cardinality(Paying') \in Nat /\ Cardinality(Paying') + 1 <= Cardinality(Paying)
    BY <1>f, <2>3, OneLess
  <2> QED
    BY <1>t, <1>f, <1>u, <2>1, <2>2, <2>4 DEF MoneyInv
<1>8. ASSUME NEW w \in Workers, MarkFailed(w) \/ MarkStarted(w) PROVE MoneyInv'
  <2>0. PICK c \in DOMAIN calls : c = me[w].call
    BY <1>8, <1>t, HasInHand
  <2>1. /\ OnlyMoves(w) /\ OnlyWrites(c) /\ balance' = balance /\ me'[w].pc \notin {"create", "dial", "refund"}
        /\ calls'[c].line = calls[c].line /\ calls'[c].credits \in {0, calls[c].credits}
    BY <1>8, <1>t, <2>0, HasInHand, MarkFailedDoes, MarkStartedDoes
  <2>2. PaidFor' \subseteq PaidFor
    BY <2>1 DEF PaidFor, OnlyWrites
  <2> QED
    BY <1>m, <1>q, <2>1, <2>2
<1>9. ASSUME NEW w \in Workers, RecordAttempt(w) \/ Crash(w) PROVE MoneyInv'
  <2>1. /\ OnlyMoves(w) /\ UNCHANGED <<balance, calls>> /\ me'[w].pc \notin {"create", "dial", "refund"}
    BY <1>9, <1>t, HasInHand, RecordAttemptDoes, CrashDoes DEF NextLead
  <2> QED
    BY <1>m, <1>q, <1>u, <2>1
<1>10. ASSUME NEW c \in DOMAIN calls, Poll(c) PROVE MoneyInv'
  <2>1. Settleable(c) /\ Synced(c) /\ me' = me
    BY <1>10, <1>t, PollDoes
  <2>2. /\ balance' \in Nat /\ Cardinality(PaidFor') \in Nat
        /\ balance' + Cardinality(PaidFor') <= balance + Cardinality(PaidFor)
    BY <1>t, <2>1, SyncedPays
  <2>3. Paying' = Paying
    BY <2>1 DEF Paying
  <2> QED
    BY <1>t, <1>f, <2>2, <2>3 DEF MoneyInv
<1>11. ASSUME NEW c \in DOMAIN calls, LineEnds(c) \/ HangUp(c) PROVE MoneyInv'
  <2>1. /\ OnlyWrites(c) /\ UNCHANGED <<balance, me>> /\ calls'[c].credits = calls[c].credits
        /\ calls[c].line = "none" => calls'[c].line = "none"
    BY <1>11, <1>t, LineEndsDoes, HangUpDoes
  <2>2. PaidFor' \subseteq PaidFor /\ Paying' = Paying
    BY <2>1 DEF PaidFor, OnlyWrites, Paying
  <2> QED
    BY <1>q, <2>1, <2>2
<1>12. CASE Pause \/ Resume \/ (\E l \in Leads : FlagDoNotCall(l)) \/ Tick \/ UNCHANGED vars
  <2>1. UNCHANGED <<balance, calls, me>>
    BY <1>12, <1>t, WorldDoes
  <2> QED
    BY <1>q, <1>u, <2>1 DEF Paying
<1>13. ASSUME NEW p \in Passes, DialNext(p) PROVE MoneyInv'
  BY <1>3, <1>13, <1>s, <1>t, DialNextDoes
<1>14. ASSUME NEW w \in Callers, ClickCall(w) PROVE MoneyInv'
  BY <1>3, <1>14, <1>s, <1>t, ClickCallDoes
<1> QED
  BY <1>1, <1>2, <1>4, <1>5, <1>6, <1>7, <1>8, <1>9, <1>10, <1>11, <1>12, <1>13, <1>14, <1>t, NextSteps

(* Wherever workers, the provider, hang-ups and crashes fall between charge, *)
(* dial and refund, no call rings or is answered that was not paid for.      *)
THEOREM NoCallIsFree == Spec => []NoFreeCalls
<1>1. Init => MoneyInv
  <2> SUFFICES ASSUME Init PROVE MoneyInv
    OBVIOUS
  <2>1. Paying = {} /\ PaidFor = {} /\ balance = Credits /\ Credits \in Nat
    BY DialerAssumption DEF Init, Idle, Paying, PaidFor, DialerAssumption
  <2> QED
    BY <2>1, CallsInvInit, FS_EmptySet DEF MoneyInv
<1>2. MoneyInv => NoFreeCalls
  <2> SUFFICES ASSUME MoneyInv PROVE NoFreeCalls
    OBVIOUS
  <2> DEFINE heard == {c \in DOMAIN calls : calls[c].line \in {"live", "answered"}}
  <2>1. heard \subseteq PaidFor
    BY DEF MoneyInv, CallsInv, SoundCall, PaidFor
  <2>2. /\ TypeOK /\ balance \in Nat /\ Credits \in Nat /\ Cardinality(Paying) \in Nat /\ IsFiniteSet(PaidFor)
        /\ balance + Cardinality(Paying) + Cardinality(PaidFor) <= Credits
    BY FinitelyPaid, FS_CardinalityType, DialerAssumption DEF MoneyInv, CallsInv, TypeInv, TypeOK, DialerAssumption
  <2>3. Cardinality(heard) \in Nat /\ Cardinality(PaidFor) \in Nat /\ Cardinality(heard) <= Cardinality(PaidFor)
    BY <2>1, <2>2, Fewer
  <2> QED
    BY <2>2, <2>3 DEF NoFreeCalls
<1> QED
  BY <1>1, <1>2, MoneyInvStep, PTL DEF Spec

-------------------------------------------------------------------------------
(* Stopped is stopped *)

Late(w) == {c \in DOMAIN calls : w \in calls[c].late}
Unheeding(w) == me[w].pc \in {"charge", "create", "dial"} /\ Unwanted(me[w].lead, me[w].campaign)

\* A worker about to dial against the operator's wish has not yet used up what was said last.
Heeds(w) == Cardinality(Late(w)) + (IF Unheeding(w) THEN 1 ELSE 0) <= pauses

StopInv == CallsInv /\ \A w \in Workers : Heeds(w)

\* The gate lets nobody past against the operator's wish.
LEMMA GateHeeds ==
    ASSUME NEW l, NEW inCampaign, GateReasons(GateInput(l, inCampaign)) = {}
    PROVE  ~Unwanted(l, inCampaign)
<1>1. CASE l \in dnc
  <2>1. "DO_NOT_CALL" \in GateReasons(GateInput(l, inCampaign))
    BY <1>1 DEF GateReasons, GateInput, BlockReasons
  <2> QED
    BY <2>1
<1>2. CASE inCampaign /\ ~active
  <2>1. "CAMPAIGN_NOT_ACTIVE" \in GateReasons(GateInput(l, inCampaign))
    BY <1>2 DEF GateReasons, GateInput, BlockReasons, CampaignStatus
  <2> QED
    BY <2>1
<1> QED
  BY <1>1, <1>2 DEF Unwanted

\* What does not dial, and neither passes the gate nor changes the operator's mind, leaves a worker as it was.
LEMMA HeedsKept ==
    ASSUME StopInv, NEW w \in Workers, Late(w)' \subseteq Late(w), Unheeding(w)' => Unheeding(w), pauses' = pauses
    PROVE  Heeds(w)'
<1>1. IsFiniteSet(Late(w)) /\ Heeds(w) /\ pauses \in Nat
  BY Finite, Fewer, Typed DEF StopInv, CallsInv, TypeInv, Late
<1>2. Cardinality(Late(w)') \in Nat /\ Cardinality(Late(w)) \in Nat /\ Cardinality(Late(w)') <= Cardinality(Late(w))
  BY <1>1, Fewer
<1> QED
  BY <1>1, <1>2 DEF Heeds

LEMMA StopInvStep == StopInv /\ [Next]_vars => StopInv'
<1> SUFFICES ASSUME StopInv, [Next]_vars PROVE StopInv'
  OBVIOUS
<1>t. CallsInv /\ CallsInv' /\ TypeOK /\ HandsFull
  BY CallsInvStep DEF StopInv, CallsInv, TypeInv
<1>s. Passes \subseteq Workers /\ Callers \subseteq Workers
  BY DEF Workers
\* A step of worker w, wherever it leads, that nobody is called late by.
<1>m. ASSUME NEW w \in Workers, OnlyMoves(w), UNCHANGED <<active, dnc, pauses>>, \A v \in Workers : Late(v)' \subseteq Late(v),
             Unheeding(w)' => Unheeding(w)
      PROVE  StopInv'
  <2>1. ASSUME NEW v \in Workers PROVE Unheeding(v)' => Unheeding(v)
    BY <1>m DEF OnlyMoves, Unheeding, Unwanted
  <2> QED
    BY <1>m, <1>t, <2>1, HeedsKept DEF StopInv
<1>u. calls' = calls => \A v \in Workers : Late(v)' \subseteq Late(v)
  BY DEF Late
<1>o. ASSUME NEW w, me'[w].pc \notin {"charge", "create", "dial"} PROVE ~Unheeding(w)'
  BY <1>o DEF Unheeding
<1>1. ASSUME NEW p \in Passes, Quiet(p) PROVE StopInv'
  <2>1. OnlyMoves(p) /\ UNCHANGED <<active, dnc, calls, pauses>> /\ me'[p].pc \notin {"charge", "create", "dial"}
    BY <1>1 DEF Quiet, InHand, PastGate, Holding, counters
  <2> QED
    BY <1>m, <1>o, <1>s, <1>u, <2>1
<1>l. ASSUME NEW c \in DOMAIN calls, OnlyWrites(c), calls'[c].late = calls[c].late
      PROVE  \A v \in Workers : Late(v)' \subseteq Late(v)
  BY <1>l DEF Late, OnlyWrites
<1>2. ASSUME NEW p \in Passes, SyncActive(p) PROVE StopInv'
  <2>1. OnlyMoves(p) /\ UNCHANGED <<active, dnc, pauses>> /\ me'[p].pc \notin {"charge", "create", "dial"}
    BY <1>2, <1>t, SyncActiveDoes DEF counters
  <2>2. \A v \in Workers : Late(v)' \subseteq Late(v)
    BY <1>2, <1>t, <1>u, <1>l, SyncActiveDoes DEF Synced
  <2> QED
    BY <1>m, <1>o, <1>s, <2>1, <2>2
<1>3. ASSUME NEW w \in Workers, NEW l, NEW inCampaign, Gated(w, l, inCampaign), OnlyMoves(w),
             UNCHANGED <<active, dnc, calls, pauses>>
      PROVE  StopInv'
  <2>1. CASE me'[w].pc = "charge" /\ GateReasons(GateInput(l, inCampaign)) = {}
    <3>1. ~Unwanted(l, inCampaign) /\ me'[w].lead = l /\ me'[w].campaign = inCampaign
      BY <1>3, <2>1, GateHeeds DEF Gated
    <3>2. ~Unheeding(w)'
      BY <1>3, <3>1 DEF Unheeding, Unwanted
    <3> QED
      BY <1>3, <1>m, <1>u, <3>2
  <2>2. CASE me'[w].pc \in {"unclaim", "done"}
    BY <1>3, <1>m, <1>o, <1>u, <2>2
  <2> QED
    BY <1>3, <2>1, <2>2 DEF Gated
<1>4. ASSUME NEW w \in Workers, Charge(w) PROVE StopInv'
  <2>1. /\ OnlyMoves(w) /\ UNCHANGED <<active, dnc, calls, pauses>> /\ KeepsCall(w) /\ me[w].pc = "charge"
    BY <1>4, <1>t, ChargeDoes DEF counters
  <2>2. Unheeding(w)' => Unheeding(w)
    BY <2>1 DEF Unheeding, Unwanted, KeepsCall
  <2> QED
    BY <1>m, <1>u, <2>1, <2>2
<1>5. ASSUME NEW w \in Workers, CreateCall(w) PROVE StopInv'
  <2>0. PICK n \in Nat : n = Len(calls) + 1
    BY <1>t, Typed
  <2>1. /\ OnlyMoves(w) /\ UNCHANGED <<active, dnc, pauses>> /\ me[w].pc = "create" /\ DOMAIN calls' = 1 .. n
        /\ me'[w].lead = me[w].lead /\ me'[w].campaign = me[w].campaign
        /\ \A c \in DOMAIN calls : calls'[c] = calls[c]
        /\ calls'[n] = [lead |-> me[w].lead, campaign |-> me[w].campaign, status |-> "QUEUED",
                        known |-> FALSE, startedAt |-> Null, credits |-> 1,
                        line |-> "none", dialledAt |-> Null, late |-> {}]
    BY <1>5, <1>t, <2>0, HasInHand, CreateCallDoes DEF counters
  <2>2. DOMAIN calls' = DOMAIN calls \union {n} /\ calls'[n].late = {}
    BY <1>t, <2>0, <2>1, Typed
  <2>3. \A v \in Workers : Late(v)' \subseteq Late(v)
    BY <2>1, <2>2 DEF Late
  <2>4. Unheeding(w)' => Unheeding(w)
    BY <2>1 DEF Unheeding, Unwanted
  <2> QED
    BY <1>m, <2>1, <2>3, <2>4
<1>6. ASSUME NEW w \in Workers, Dial(w) PROVE StopInv'
  <2>0. PICK c \in DOMAIN calls : c = me[w].call
    BY <1>6, <1>t, HasInHand
  <2>1. /\ OnlyMoves(w) /\ UNCHANGED <<active, dnc, pauses>> /\ me[w].pc = "dial"
        /\ \/ me'[w].pc = "refund" /\ calls' = calls
           \/ /\ me'[w].pc = "started" /\ OnlyWrites(c)
              /\ calls'[c].late = IF Unwanted(me[w].lead, me[w].campaign) THEN {w} ELSE {}
    BY <1>6, <1>t, <2>0, HasInHand, DialDoes
  <2>2. CASE me'[w].pc = "refund" /\ calls' = calls
    BY <1>m, <1>o, <1>u, <2>1, <2>2
  <2>3. CASE me'[w].pc = "started" /\ OnlyWrites(c) /\ ~Unwanted(me[w].lead, me[w].campaign)
    <3>1. \A v \in Workers : Late(v)' \subseteq Late(v)
      BY <2>1, <2>3 DEF Late, OnlyWrites
    <3> QED
      BY <1>m, <1>o, <2>1, <2>3, <3>1
  <2>4. CASE me'[w].pc = "started" /\ OnlyWrites(c) /\ Unwanted(me[w].lead, me[w].campaign)
    <3>1. calls'[c].late = {w}
      BY <2>1, <2>4
    <3>2. ASSUME NEW v \in Workers \ {w} PROVE Heeds(v)'
      <4>1. Late(v)' \subseteq Late(v)
        BY <2>4, <3>1 DEF Late, OnlyWrites
      <4>2. Unheeding(v)' => Unheeding(v)
        BY <2>1 DEF OnlyMoves, Unheeding, Unwanted
      <4> QED
        BY <2>1, <4>1, <4>2, HeedsKept
    <3>3. Heeds(w)'
      <4>1. Late(w)' \subseteq Late(w) \union {c}
        BY <2>4 DEF Late, OnlyWrites
      <4>2. Unheeding(w) /\ ~Unheeding(w)'
        BY <1>o, <2>1, <2>4 DEF Unheeding
      <4>3. IsFiniteSet(Late(w)) /\ Heeds(w) /\ pauses \in Nat
        BY <1>t, Finite, Fewer, Typed DEF StopInv, Late
      <4>4. /\ Cardinality(Late(w)') \in Nat /\ Cardinality(Late(w)) \in Nat
            /\ Cardinality(Late(w)') <= Cardinality(Late(w)) + 1
        BY <4>1, <4>3, OneMore
      <4> QED
        BY <2>1, <4>2, <4>3, <4>4 DEF Heeds
    <3> QED
      BY <1>t, <3>2, <3>3 DEF StopInv
  <2> QED
    BY <2>1, <2>2, <2>3, <2>4
<1>7. ASSUME NEW w \in Workers, Refund(w) \/ RecordAttempt(w) \/ Crash(w) PROVE StopInv'
  <2>1. /\ OnlyMoves(w) /\ UNCHANGED <<active, dnc, calls, pauses>>
        /\ me'[w].pc \notin {"charge", "create", "dial"}
    BY <1>7, <1>t, HasInHand, RefundDoes, RecordAttemptDoes, CrashDoes DEF NextLead, counters
  <2> QED
    BY <1>m, <1>o, <1>u, <2>1
<1>8. ASSUME NEW w \in Workers, MarkFailed(w) \/ MarkStarted(w) PROVE StopInv'
  <2>0. PICK c \in DOMAIN calls : c = me[w].call
    BY <1>8, <1>t, HasInHand
  <2>1. /\ OnlyMoves(w) /\ OnlyWrites(c) /\ UNCHANGED <<active, dnc, pauses>>
        /\ me'[w].pc \notin {"charge", "create", "dial"} /\ calls'[c].late = calls[c].late
    BY <1>8, <1>t, <2>0, HasInHand, MarkFailedDoes, MarkStartedDoes DEF counters
  <2> QED
    BY <1>l, <1>m, <1>o, <2>1
<1>9. ASSUME NEW c \in DOMAIN calls, Poll(c) \/ LineEnds(c) \/ HangUp(c) PROVE StopInv'
  <2>1. OnlyWrites(c) /\ UNCHANGED <<active, dnc, pauses, me>> /\ calls'[c].late = calls[c].late
    BY <1>9, <1>t, PollDoes, LineEndsDoes, HangUpDoes DEF Synced, counters
  <2>2. \A w \in Workers : Unheeding(w)' = Unheeding(w)
    BY <2>1 DEF Unheeding, Unwanted
  <2> QED
    BY <1>l, <1>t, <2>1, <2>2, HeedsKept DEF StopInv
<1>10. CASE Pause \/ Resume \/ (\E l \in Leads : FlagDoNotCall(l)) \/ Tick \/ UNCHANGED vars
  <2>1. /\ UNCHANGED <<calls, me>>
        /\ \/ pauses' = pauses + 1
           \/ pauses' = pauses /\ dnc' = dnc /\ (active => active')
    BY <1>10, <1>t, WorldDoes
  <2>2. ASSUME NEW w \in Workers PROVE Heeds(w)'
    <3>1. Late(w)' = Late(w) /\ Heeds(w)
      BY <2>1 DEF Late, StopInv
    <3>2. CASE pauses' = pauses + 1
      <4>1. Cardinality(Late(w)) \in Nat /\ pauses \in Nat
        BY <1>t, Finite, Fewer, Typed DEF Late
      <4> QED
        BY <3>1, <3>2, <4>1 DEF Heeds
    <3>3. CASE pauses' = pauses /\ dnc' = dnc /\ (active => active')
      <4>1. Unheeding(w)' => Unheeding(w)
        BY <2>1, <3>3 DEF Unheeding, Unwanted
      <4> QED
        BY <3>1, <3>3, <4>1, HeedsKept
    <3> QED
      BY <2>1, <3>2, <3>3
  <2> QED
    BY <1>t, <2>2 DEF StopInv
<1>11. ASSUME NEW p \in Passes, DialNext(p) PROVE StopInv'
  BY <1>3, <1>11, <1>s, <1>t, DialNextDoes DEF counters
<1>12. ASSUME NEW w \in Callers, ClickCall(w) PROVE StopInv'
  BY <1>3, <1>12, <1>s, <1>t, ClickCallDoes DEF counters
<1> QED
  BY <1>1, <1>2, <1>4, <1>5, <1>6, <1>7, <1>8, <1>9, <1>10, <1>11, <1>12, <1>t, NextSteps

(* After the campaign is paused or a lead flagged, each worker still dials   *)
(* at most the one call it had already let past the gate.                    *)
THEOREM StopsAreHeld == Spec => []StopsHeld
<1>1. Init => StopInv
  <2> SUFFICES ASSUME Init PROVE StopInv
    OBVIOUS
  <2>1. ASSUME NEW w \in Workers PROVE Heeds(w)
    <3>1. Late(w) = {} /\ ~Unheeding(w) /\ pauses = 0
      BY DEF Init, Idle, Late, Unheeding
    <3> QED
      BY <3>1, FS_EmptySet DEF Heeds
  <2> QED
    BY <2>1, CallsInvInit DEF StopInv
<1>2. StopInv => StopsHeld
  <2> SUFFICES ASSUME StopInv, NEW w \in Workers PROVE Cardinality({c \in DOMAIN calls : w \in calls[c].late}) <= pauses
    BY DEF StopsHeld
  <2>1. Cardinality(Late(w)) \in Nat /\ pauses \in Nat /\ Heeds(w)
    BY Finite, Fewer, Typed DEF StopInv, CallsInv, TypeInv, Late
  <2> QED
    BY <2>1 DEF Heeds, Late
<1> QED
  BY <1>1, <1>2, StopInvStep, PTL DEF Spec

-------------------------------------------------------------------------------
(* The daily limit *)

LEMMA DayOf ==
    ASSUME NEW n \in Nat, NEW D \in Nat \ {0}
    PROVE  n \div D \in Nat /\ n % D \in 0 .. D - 1 /\ n = D * (n \div D) + (n % D)
OBVIOUS

LEMMA EarlierDay ==
    ASSUME NEW D \in Nat \ {0}, NEW p \in Nat, NEW q \in Nat, NEW r \in 0 .. D - 1, NEW s \in 0 .. D - 1,
           D * p + r <= D * q + s
    PROVE  p <= q
<1>1. CASE p >= q + 1
  <2>1. D * p >= D * (q + 1)
    BY <1>1
  <2>2. D * (q + 1) = D * q + D
    OBVIOUS
  <2> QED
    BY <2>1, <2>2
<1> QED
  BY <1>1

LEMMA NextDay ==
    ASSUME NEW D \in Nat \ {0}, NEW p \in Nat, NEW q \in Nat, NEW r \in 0 .. D - 1, NEW s \in 0 .. D - 1,
           D * p + r + 1 = D * q + s
    PROVE  q \in {p, p + 1}
<1>1. p <= q
  BY EarlierDay
<1>2. CASE q >= p + 2
  <2>1. D * q >= D * (p + 2)
    BY <1>2
  <2>2. D * (p + 2) = D * p + D + D
    OBVIOUS
  <2> QED
    BY <2>1, <2>2
<1> QED
  BY <1>1, <1>2

\* Days follow one another, and a day's moments are not before its midnight.
LEMMA Days ==
    ASSUME NEW D \in Nat \ {0}, NEW m \in Nat, NEW n \in Nat
    PROVE  /\ m <= n => m \div D <= n \div D
           /\ m \div D = n \div D => m >= n - (n % D)
           /\ (n + 1) \div D \in {n \div D, (n \div D) + 1}
           /\ n \div D \in Nat
<1>1. m \div D \in Nat /\ m % D \in 0 .. D - 1 /\ m = D * (m \div D) + (m % D)
  BY DayOf
<1>2. n \div D \in Nat /\ n % D \in 0 .. D - 1 /\ n = D * (n \div D) + (n % D)
  BY DayOf
<1>3. (n + 1) \div D \in Nat /\ (n + 1) % D \in 0 .. D - 1 /\ n + 1 = D * ((n + 1) \div D) + ((n + 1) % D)
  <2>1. n + 1 \in Nat
    OBVIOUS
  <2> QED
    BY <2>1, DayOf
<1>4. m <= n => m \div D <= n \div D
  BY <1>1, <1>2, EarlierDay
<1>5. m \div D = n \div D => m >= n - (n % D)
  <2>1. PICK k \in Nat : k = D * (n \div D)
    BY <1>2
  <2>2. n = k + (n % D) /\ (m \div D = n \div D => m = k + (m % D))
    BY <1>1, <1>2, <2>1
  <2> QED
    BY <1>1, <1>2, <2>2
<1>6. (n + 1) \div D \in {n \div D, (n \div D) + 1}
  <2>1. D * (n \div D) + (n % D) + 1 = D * ((n + 1) \div D) + ((n + 1) % D)
    BY <1>2, <1>3
  <2> QED
    BY <1>2, <1>3, <2>1, NextDay
<1> QED
  BY <1>2, <1>4, <1>5, <1>6

LEMMA Apart ==
    ASSUME NEW U, NEW S, NEW T, IsFiniteSet(U), S \subseteq U, T \subseteq U, S \intersect T = {}
    PROVE  Cardinality(S) + Cardinality(T) <= Cardinality(U)
<1>1. /\ IsFiniteSet(S) /\ IsFiniteSet(T) /\ Cardinality(S) \in Nat /\ Cardinality(T) \in Nat
      /\ S \union T \subseteq U
  BY Fewer
<1>2. Cardinality(S \union T) = Cardinality(S) + Cardinality(T) - Cardinality({})
  BY <1>1, FS_Union
<1>3. Cardinality({}) = 0
  BY FS_EmptySet
<1>4. Cardinality(S \union T) <= Cardinality(U)
  BY <1>1, Fewer
<1> QED
  BY <1>1, <1>2, <1>3, <1>4

LEMMA Together ==
    ASSUME NEW S, NEW T, IsFiniteSet(S), IsFiniteSet(T)
    PROVE  /\ IsFiniteSet(S \union T) /\ Cardinality(S \union T) \in Nat
           /\ Cardinality(S) \in Nat /\ Cardinality(T) \in Nat
           /\ Cardinality(S \union T) <= Cardinality(S) + Cardinality(T)
<1>1. IsFiniteSet(S \union T) /\ Cardinality(S \union T) = Cardinality(S) + Cardinality(T) - Cardinality(S \intersect T)
  BY FS_Union
<1>2. Cardinality(S \intersect T) \in Nat
  BY Fewer
<1> QED
  BY <1>1, <1>2, FS_CardinalityType

DialledOn(day) == {c \in DOMAIN calls : /\ calls[c].campaign
                                        /\ calls[c].dialledAt # Null
                                        /\ calls[c].dialledAt \div DayLength = day}
AboutToDial == {w \in Workers : me[w].pc \in {"charge", "create", "dial"} /\ me[w].campaign}

\* Who has dialled and not yet recorded the start.
Ringing == {w \in Workers : me[w].pc = "started"}
InRing == {c \in DOMAIN calls : \E w \in Ringing : me[w].call = c}

\* Dialled, and nobody is left to record the start.
Lost == {c \in DOMAIN calls : /\ calls[c].dialledAt # Null /\ calls[c].startedAt = Null
                              /\ c \notin InRing}

Bound == DailyLimit + crashes + Cardinality(Workers) - 1
Today == now \div DayLength

(* The calls whose start was lost are one for each crash; and the calls of   *)
(* today leave room for the workers that are past the gate and have not      *)
(* dialled.                                                                  *)
LimitInv ==
    /\ CallsInv
    /\ Cardinality(Lost) <= crashes
    /\ \A day \in 0 .. Today : Cardinality(DialledOn(day)) <= Bound
    /\ Cardinality(DialledOn(Today)) + Cardinality(AboutToDial) <= Bound

LEMMA LimitTypes ==
    ASSUME TypeOK
    PROVE  /\ IsFiniteSet(Lost) /\ Cardinality(Lost) \in Nat
           /\ IsFiniteSet(AboutToDial) /\ Cardinality(AboutToDial) \in Nat
           /\ Cardinality(AboutToDial) <= Cardinality(Workers)
           /\ \A day : IsFiniteSet(DialledOn(day)) /\ Cardinality(DialledOn(day)) \in Nat
           /\ Cardinality(Workers) \in Nat /\ crashes \in Nat /\ DailyLimit \in Nat \ {0}
           /\ DayLength \in Nat \ {0} /\ now \in Nat /\ Today \in Nat
<1>1. IsFiniteSet(Workers) /\ IsFiniteSet(DOMAIN calls) /\ crashes \in Nat /\ DailyLimit \in Nat \ {0}
      /\ DayLength \in Nat \ {0} /\ now \in Nat
  BY Finite, Typed, DialerAssumption DEF DialerAssumption
<1>2. Lost \subseteq DOMAIN calls /\ AboutToDial \subseteq Workers /\ \A day : DialledOn(day) \subseteq DOMAIN calls
  BY DEF Lost, AboutToDial, DialledOn
<1>3. Today \in Nat
  BY <1>1, Days DEF Today
<1> QED
  BY <1>1, <1>2, <1>3, Fewer

\* A step that dials nothing, passes nobody and loses no call.
LEMMA LimitKept ==
    ASSUME LimitInv, CallsInv', UNCHANGED <<now, crashes>>, Lost' \subseteq Lost, AboutToDial' \subseteq AboutToDial,
           \A day : DialledOn(day)' \subseteq DialledOn(day)
    PROVE  LimitInv'
<1>1. TypeOK
  BY DEF LimitInv, CallsInv, TypeInv
<1>2. /\ Cardinality(Lost') <= Cardinality(Lost) /\ Cardinality(AboutToDial') <= Cardinality(AboutToDial)
      /\ Cardinality(Lost') \in Nat /\ Cardinality(AboutToDial') \in Nat
  BY <1>1, LimitTypes, Fewer
<1>3. \A day : Cardinality(DialledOn(day)') <= Cardinality(DialledOn(day)) /\ Cardinality(DialledOn(day)') \in Nat
  BY <1>1, LimitTypes, Fewer
<1>4. Bound' = Bound /\ Bound \in Int /\ Today' = Today
  BY <1>1, LimitTypes DEF Bound, Today
<1>5. Cardinality(Lost') <= crashes'
  BY <1>1, <1>2, LimitTypes DEF LimitInv
<1>6. \A day \in 0 .. Today' : Cardinality(DialledOn(day)') <= Bound'
  BY <1>1, <1>3, <1>4, LimitTypes DEF LimitInv
<1>7. Cardinality(DialledOn(Today)') + Cardinality(AboutToDial') <= Bound
  BY <1>1, <1>2, <1>3, <1>4, LimitTypes DEF LimitInv
<1> QED
  BY <1>4, <1>5, <1>6, <1>7 DEF LimitInv

\* The calls of today, as the limit counts them, and those it does not see yet or never will.
LEMMA CountedToday ==
    ASSUME CallsInv
    PROVE  /\ CallsToday(TRUE) \in Nat /\ Cardinality(Ringing) \in Nat
           /\ Cardinality(DialledOn(Today)) <= CallsToday(TRUE) + Cardinality(Ringing) + Cardinality(Lost)
<1> DEFINE counted == {c \in DOMAIN calls : /\ TRUE => calls[c].campaign
                                            /\ calls[c].startedAt # Null
                                            /\ calls[c].startedAt >= now - (now % DayLength)}
           ring == [w \in Ringing |-> me[w].call]
<1>t. TypeOK /\ HandsFull /\ IsFiniteSet(Workers) /\ IsFiniteSet(DOMAIN calls)
  BY Finite DEF CallsInv, TypeInv
<1>1. IsFiniteSet(counted) /\ CallsToday(TRUE) = Cardinality(counted)
  BY <1>t, Fewer DEF CallsToday
<1>2. IsFiniteSet(Ringing) /\ Cardinality(Ringing) \in Nat
  BY <1>t, Fewer DEF Ringing
<1>3. IsFiniteSet(InRing) /\ Cardinality(InRing) <= Cardinality(Ringing) /\ Cardinality(InRing) \in Nat
  <2>1. ring \in Surjection(Ringing, InRing)
    BY <1>t DEF Surjection, InRing, Ringing, HandsFull, Holding
  <2> QED
    BY <1>2, <2>1, FS_Surjection, FS_CardinalityType
<1>4. IsFiniteSet(Lost)
  BY <1>t, LimitTypes
<1>5. DialledOn(Today) \subseteq (counted \union InRing) \union Lost
  <2> SUFFICES ASSUME NEW c \in DialledOn(Today), c \notin InRing, c \notin Lost PROVE c \in counted
    OBVIOUS
  <2>1. /\ c \in DOMAIN calls /\ calls[c] \in CallRow /\ SoundCall(c) /\ now \in Nat /\ DayLength \in Nat \ {0}
        /\ calls[c].campaign /\ calls[c].dialledAt # Null /\ calls[c].startedAt # Null
        /\ calls[c].dialledAt \div DayLength = now \div DayLength
    BY <1>t, Typed, LimitTypes DEF DialledOn, Lost, Today, CallsInv
  <2>2. calls[c].dialledAt \in Nat /\ calls[c].startedAt \in Nat /\ calls[c].dialledAt <= calls[c].startedAt
    BY <2>1 DEF CallRow, Times, SoundCall
  <2>3. PICK m \in Nat : m = calls[c].dialledAt
    BY <2>2
  <2>4. m \div DayLength = now \div DayLength
    BY <2>1, <2>3
  <2>5. m >= now - (now % DayLength)
    BY <2>1, <2>4, Days
  <2>6. now % DayLength \in 0 .. DayLength - 1
    BY <2>1, DayOf
  <2> QED
    BY <2>1, <2>2, <2>3, <2>5, <2>6
<1> HIDE DEF counted
<1>6. /\ IsFiniteSet(counted \union InRing) /\ Cardinality(counted \union InRing) \in Nat /\ Cardinality(counted) \in Nat
      /\ Cardinality(counted \union InRing) <= Cardinality(counted) + Cardinality(InRing)
  BY <1>1, <1>3, Together
<1>7. /\ IsFiniteSet((counted \union InRing) \union Lost) /\ Cardinality((counted \union InRing) \union Lost) \in Nat
      /\ Cardinality((counted \union InRing) \union Lost) <= Cardinality(counted \union InRing) + Cardinality(Lost)
      /\ Cardinality(Lost) \in Nat
  BY <1>4, <1>6, Together
<1>8. Cardinality(DialledOn(Today)) <= Cardinality((counted \union InRing) \union Lost) /\ Cardinality(DialledOn(Today)) \in Nat
  BY <1>5, <1>7, Fewer
<1>9. PICK n \in Nat : n = CallsToday(TRUE) /\ n = Cardinality(counted)
  BY <1>1, <1>6
<1> DEFINE all == (counted \union InRing) \union Lost
<1>a. PICK k \in Nat : k = Cardinality(all) /\ k <= n + Cardinality(InRing) + Cardinality(Lost)
  <2>1. PICK j \in Nat : j = Cardinality(counted \union InRing)
    BY <1>6
  <2>2. j <= n + Cardinality(InRing)
    BY <1>6, <1>9, <2>1
  <2> HIDE DEF all
  <2>3. Cardinality(all) \in Nat /\ Cardinality(all) <= j + Cardinality(Lost) /\ Cardinality(Lost) \in Nat
    BY <1>7, <2>1 DEF all
  <2> QED
    BY <1>3, <2>2, <2>3
<1>b. Cardinality(DialledOn(Today)) <= k /\ Cardinality(DialledOn(Today)) \in Nat
  BY <1>8, <1>a
<1> HIDE DEF all
<1>10. Cardinality(DialledOn(Today)) <= n + Cardinality(Ringing) + Cardinality(Lost)
  BY <1>2, <1>3, <1>7, <1>a, <1>b
<1> QED
  BY <1>2, <1>9, <1>10

\* The gate lets nobody past once the limit is reached.
LEMMA GateCounts ==
    ASSUME TypeOK, CallsToday(TRUE) \in Nat, NEW l, GateReasons(GateInput(l, TRUE)) = {}
    PROVE  CallsToday(TRUE) + 1 <= DailyLimit
<1>1. DailyLimit \in Nat /\ DailyLimit # Null
  BY DialerAssumption, RulesAssumption DEF DialerAssumption, RulesAssumption
<1>n. PICK n \in Nat : n = CallsToday(TRUE)
  OBVIOUS
<1>2. CASE CallsToday(TRUE) >= DailyLimit
  <2>1. "DAILY_LIMIT_REACHED" \in GateReasons(GateInput(l, TRUE))
    BY <1>1, <1>2 DEF GateReasons, GateInput, BlockReasons
  <2> QED
    BY <2>1
<1>3. CASE n + 1 <= DailyLimit
  BY <1>n, <1>3
<1>4. n >= DailyLimit \/ n + 1 <= DailyLimit
  BY <1>1
<1> QED
  BY <1>n, <1>2, <1>3, <1>4

\* The call keeps the campaign and the times it has.
KeepsTimes(c) ==
    /\ calls'[c].campaign = calls[c].campaign
    /\ calls'[c].dialledAt = calls[c].dialledAt /\ calls'[c].startedAt = calls[c].startedAt

\* Worker w goes on, and neither dials nor passes the gate.
LEMMA LimitMoves ==
    ASSUME LimitInv, CallsInv', NEW w \in Workers, OnlyMoves(w), UNCHANGED <<now, crashes>>,
           me[w].pc # "started", w \in AboutToDial' => w \in AboutToDial,
           DOMAIN calls' = DOMAIN calls, \A c \in DOMAIN calls : KeepsTimes(c)
    PROVE  LimitInv'
<1>1. Lost' \subseteq Lost
  BY DEF Lost, InRing, Ringing, KeepsTimes, OnlyMoves
<1>2. AboutToDial' \subseteq AboutToDial
  BY DEF AboutToDial, OnlyMoves
<1>3. \A day : DialledOn(day)' \subseteq DialledOn(day)
  BY DEF DialledOn, KeepsTimes
<1> QED
  BY <1>1, <1>2, <1>3, LimitKept

LEMMA LimitInvStep == LimitInv /\ [Next]_vars => LimitInv'
<1> SUFFICES ASSUME LimitInv, [Next]_vars PROVE LimitInv'
  OBVIOUS
<1>t. CallsInv /\ CallsInv' /\ TypeOK /\ HandsFull
  BY CallsInvStep DEF LimitInv, CallsInv, TypeInv
<1>s. Passes \subseteq Workers /\ Callers \subseteq Workers
  BY DEF Workers
<1>f. /\ IsFiniteSet(Lost) /\ Cardinality(Lost) \in Nat /\ Cardinality(Lost) <= crashes
      /\ IsFiniteSet(AboutToDial) /\ Cardinality(AboutToDial) \in Nat
      /\ Cardinality(AboutToDial) <= Cardinality(Workers)
      /\ \A day : IsFiniteSet(DialledOn(day)) /\ Cardinality(DialledOn(day)) \in Nat
      /\ Cardinality(Workers) \in Nat /\ crashes \in Nat /\ DailyLimit \in Nat \ {0}
      /\ DayLength \in Nat \ {0} /\ now \in Nat /\ Today \in Nat
  BY <1>t, LimitTypes DEF LimitInv
<1>b. Bound \in Nat /\ Bound = DailyLimit + crashes + Cardinality(Workers) - 1
  BY <1>f DEF Bound
<1>i. /\ \A day \in 0 .. Today : Cardinality(DialledOn(day)) <= Bound
      /\ Cardinality(DialledOn(Today)) + Cardinality(AboutToDial) <= Bound
  BY DEF LimitInv
<1>k. calls' = calls => DOMAIN calls' = DOMAIN calls /\ \A c \in DOMAIN calls : KeepsTimes(c)
  BY DEF KeepsTimes
<1>w. ASSUME NEW c \in DOMAIN calls, OnlyWrites(c), KeepsTimes(c)
      PROVE  DOMAIN calls' = DOMAIN calls /\ \A d \in DOMAIN calls : KeepsTimes(d)
  BY <1>w DEF KeepsTimes, OnlyWrites
<1>o. ASSUME NEW w, me'[w].pc \notin {"charge", "create", "dial"} PROVE w \notin AboutToDial'
  BY <1>o DEF AboutToDial
<1>1. ASSUME NEW p \in Passes, Quiet(p) PROVE LimitInv'
  <2>1. /\ OnlyMoves(p) /\ UNCHANGED <<now, calls, crashes>> /\ me[p].pc # "started"
        /\ me'[p].pc \notin {"charge", "create", "dial"}
    BY <1>1 DEF Quiet, InHand, PastGate, Holding, counters
  <2> QED
    BY <1>k, <1>o, <1>s, <1>t, <2>1, LimitMoves
<1>2. ASSUME NEW p \in Passes, SyncActive(p) PROVE LimitInv'
  <2>1. /\ OnlyMoves(p) /\ UNCHANGED <<now, crashes>> /\ me[p].pc # "started"
        /\ me'[p].pc \notin {"charge", "create", "dial"}
    BY <1>2, <1>t, SyncActiveDoes DEF counters
  <2>2. DOMAIN calls' = DOMAIN calls /\ \A c \in DOMAIN calls : KeepsTimes(c)
    <3>1. ASSUME NEW c \in DOMAIN calls, Synced(c) PROVE OnlyWrites(c) /\ KeepsTimes(c)
      BY <3>1 DEF Synced, KeepsOrder, KeepsTimes
    <3> QED
      BY <1>2, <1>k, <1>t, <1>w, <3>1, SyncActiveDoes
  <2> QED
    BY <1>o, <1>s, <1>t, <2>1, <2>2, LimitMoves
\* At the gate of a campaign call.
<1>3. ASSUME NEW w \in Workers, NEW l, NEW inCampaign, Gated(w, l, inCampaign), OnlyMoves(w), me[w].pc \in {"next", "idle"},
             UNCHANGED <<now, calls, crashes>>
      PROVE  LimitInv'
  <2>1. CASE me'[w].pc = "charge" /\ inCampaign
    <3>1. inCampaign = TRUE /\ GateReasons(GateInput(l, TRUE)) = {}
      BY <1>3, <2>1 DEF Gated
    <3>2. PICK today \in Nat : /\ today = CallsToday(TRUE) /\ today + 1 <= DailyLimit
      BY <1>t, <3>1, CountedToday, GateCounts
    <3>3. /\ Cardinality(Ringing) \in Nat
          /\ Cardinality(DialledOn(Today)) <= today + Cardinality(Ringing) + Cardinality(Lost)
      BY <1>t, <3>2, CountedToday
    <3>4. Cardinality(Ringing) + Cardinality(AboutToDial') <= Cardinality(Workers)
      <4>1. Ringing \subseteq Workers /\ AboutToDial' \subseteq Workers /\ Ringing \intersect AboutToDial' = {}
        BY <1>3 DEF Ringing, AboutToDial, OnlyMoves
      <4> QED
        BY <1>t, <4>1, Finite, Apart
    <3>5. AboutToDial' \subseteq AboutToDial \union {w}
      BY <1>3 DEF AboutToDial, OnlyMoves
    <3>6. Cardinality(AboutToDial') \in Nat
      BY <1>f, <3>5, OneMore
    <3>7. Cardinality(DialledOn(Today)) + Cardinality(AboutToDial') <= Bound
      <4>1. PICK dialled \in Nat : dialled = Cardinality(DialledOn(Today))
        BY <1>f
      <4>2. PICK ringing \in Nat : ringing = Cardinality(Ringing)
        BY <3>3
      <4>3. dialled <= today + ringing + crashes
        BY <1>f, <3>3, <4>1, <4>2
      <4>4. ringing + Cardinality(AboutToDial') <= Cardinality(Workers)
        BY <3>4, <4>2
      <4>5. dialled + Cardinality(AboutToDial') <= DailyLimit + crashes + Cardinality(Workers) - 1
        <5>1. DailyLimit \in Nat /\ crashes \in Nat /\ Cardinality(Workers) \in Nat
          BY <1>f
        <5>2. today + 1 <= DailyLimit
          BY <3>2
        <5> QED
          BY <3>6, <4>3, <4>4, <5>1, <5>2
      <4> QED
        BY <1>b, <4>1, <4>5
    <3>8. Lost' = Lost
      BY <1>3, <2>1 DEF Lost, InRing, Ringing, OnlyMoves
    <3>9. Bound' = Bound /\ Today' = Today /\ \A day : DialledOn(day)' = DialledOn(day)
      BY <1>3 DEF Bound, Today, DialledOn
    <3>10. DialledOn(Today)' = DialledOn(Today)
      BY <1>3 DEF Today, DialledOn
    <3>11. Cardinality(Lost') <= crashes' /\ \A day \in 0 .. Today' : Cardinality(DialledOn(day)') <= Bound'
      BY <1>3, <1>f, <1>i, <3>8, <3>9
    <3> QED
      BY <1>t, <3>7, <3>9, <3>10, <3>11 DEF LimitInv
  <2>2. CASE ~(me'[w].pc = "charge" /\ inCampaign)
    <3>1. w \notin AboutToDial'
      BY <1>3, <2>2 DEF Gated, AboutToDial
    <3> QED
      BY <1>3, <1>k, <1>t, <3>1, LimitMoves
  <2> QED
    BY <2>1, <2>2
<1>4. ASSUME NEW w \in Workers, Charge(w) PROVE LimitInv'
  <2>1. OnlyMoves(w) /\ UNCHANGED <<now, calls, crashes>> /\ KeepsCall(w) /\ me[w].pc = "charge"
    BY <1>4, <1>t, ChargeDoes DEF counters
  <2>2. w \in AboutToDial' => w \in AboutToDial
    BY <2>1 DEF AboutToDial, KeepsCall
  <2> QED
    BY <1>k, <1>t, <2>1, <2>2, LimitMoves
<1>5. ASSUME NEW w \in Workers, CreateCall(w) PROVE LimitInv'
  <2>0. PICK n \in Nat : n = Len(calls) + 1
    BY <1>t, Typed
  <2>1. /\ OnlyMoves(w) /\ UNCHANGED <<now, crashes>> /\ me[w].pc = "create" /\ DOMAIN calls' = 1 .. n
        /\ me'[w].campaign = me[w].campaign
        /\ \A c \in DOMAIN calls : calls'[c] = calls[c]
        /\ calls'[n] = [lead |-> me[w].lead, campaign |-> me[w].campaign, status |-> "QUEUED",
                        known |-> FALSE, startedAt |-> Null, credits |-> 1,
                        line |-> "none", dialledAt |-> Null, late |-> {}]
    BY <1>5, <1>t, <2>0, HasInHand, CreateCallDoes DEF counters
  <2>2. DOMAIN calls' = DOMAIN calls \union {n} /\ calls'[n].dialledAt = Null
    BY <1>t, <2>0, <2>1, Typed
  <2>3. Lost' \subseteq Lost
    BY <2>1, <2>2 DEF Lost, InRing, Ringing, OnlyMoves
  <2>4. AboutToDial' \subseteq AboutToDial
    BY <2>1 DEF AboutToDial, OnlyMoves
  <2>5. \A day : DialledOn(day)' \subseteq DialledOn(day)
    BY <2>1, <2>2 DEF DialledOn
  <2> QED
    BY <1>t, <2>1, <2>3, <2>4, <2>5, LimitKept
<1>6. ASSUME NEW w \in Workers, Dial(w) PROVE LimitInv'
  <2>0. PICK c \in DOMAIN calls : c = me[w].call
    BY <1>6, <1>t, HasInHand
  <2>1. /\ OnlyMoves(w) /\ UNCHANGED <<now, crashes>> /\ me[w].pc = "dial" /\ me'[w].call = c
        /\ \/ me'[w].pc = "refund" /\ calls' = calls
           \/ /\ me'[w].pc = "started" /\ OnlyWrites(c) /\ calls'[c].campaign = calls[c].campaign
              /\ calls'[c].dialledAt = now
    BY <1>6, <1>t, <2>0, HasInHand, DialDoes DEF KeepsCall, KeepsOrder
  <2>2. calls[c].campaign = me[w].campaign
    BY <1>t, <2>0, <2>1 DEF CallsInv, SoundHand, Holding
  <2>3. CASE me'[w].pc = "refund" /\ calls' = calls
    BY <1>k, <1>o, <1>t, <2>1, <2>3, LimitMoves
  <2>4. CASE me'[w].pc = "started" /\ OnlyWrites(c) /\ calls'[c].dialledAt = now
    <3>1. Lost' \subseteq Lost
      BY <2>0, <2>1, <2>4 DEF Lost, InRing, Ringing, OnlyMoves, OnlyWrites
    <3>2. CASE ~calls[c].campaign
      <4>1. \A day : DialledOn(day)' \subseteq DialledOn(day)
        BY <2>1, <2>4, <3>2 DEF DialledOn, OnlyWrites
      <4>2. AboutToDial' \subseteq AboutToDial
        BY <1>o, <2>1, <2>4 DEF AboutToDial, OnlyMoves
      <4> QED
        BY <1>t, <2>1, <3>1, <4>1, <4>2, LimitKept
    <3>3. CASE calls[c].campaign
      <4>1. w \in AboutToDial /\ AboutToDial' \subseteq AboutToDial \ {w}
        BY <1>o, <2>1, <2>2, <2>4, <3>3 DEF AboutToDial, OnlyMoves
      <4>2. Cardinality(AboutToDial') \in Nat /\ Cardinality(AboutToDial') + 1 <= Cardinality(AboutToDial)
        BY <1>f, <4>1, OneLess
      <4>3. ASSUME NEW day \in 0 .. Today
            PROVE  /\ Cardinality(DialledOn(day)') <= Bound
                   /\ day = Today => Cardinality(DialledOn(day)') + Cardinality(AboutToDial') <= Bound
        <5>1. CASE day = Today
          <6>1. DialledOn(day)' \subseteq DialledOn(day) \union {c}
            BY <2>4 DEF DialledOn, OnlyWrites
          <6>2. /\ Cardinality(DialledOn(day)') \in Nat /\ Cardinality(DialledOn(day)) \in Nat
                /\ Cardinality(DialledOn(day)') <= Cardinality(DialledOn(day)) + 1
            BY <1>f, <6>1, OneMore
          <6>3. Cardinality(DialledOn(day)) + Cardinality(AboutToDial) <= Bound
            BY <1>i, <5>1
          <6> QED
            BY <1>b, <1>f, <4>2, <6>2, <6>3
        <5>2. CASE day # Today
          <6>1. DialledOn(day)' \subseteq DialledOn(day)
            BY <2>1, <2>4, <5>2 DEF DialledOn, OnlyWrites, Today
          <6>2. /\ Cardinality(DialledOn(day)') \in Nat /\ Cardinality(DialledOn(day)) \in Nat
                /\ Cardinality(DialledOn(day)') <= Cardinality(DialledOn(day))
            BY <1>f, <6>1, Fewer
          <6> QED
            BY <1>b, <1>i, <5>2, <6>2
        <5> QED
          BY <5>1, <5>2
      <4>4. Bound' = Bound /\ Today' = Today
        BY <2>1 DEF Bound, Today
      <4>5. PICK today \in 0 .. Today : today = Today /\ today = Today'
        BY <1>f, <4>4
      <4>6. Cardinality(DialledOn(today)') + Cardinality(AboutToDial') <= Bound'
        BY <4>3, <4>4, <4>5
      <4>7. DialledOn(today)' = DialledOn(Today)'
        BY <4>5 DEF DialledOn
      <4>8. Cardinality(Lost') <= crashes'
        BY <1>f, <2>1, <3>1, Fewer
      <4>9. \A day \in 0 .. Today' : Cardinality(DialledOn(day)') <= Bound'
        BY <4>3, <4>4
      <4> QED
        BY <1>t, <4>6, <4>7, <4>8, <4>9 DEF LimitInv
    <3> QED
      BY <3>2, <3>3
  <2> QED
    BY <2>1, <2>3, <2>4
<1>7. ASSUME NEW w \in Workers, Refund(w) \/ RecordAttempt(w) PROVE LimitInv'
  <2>1. /\ OnlyMoves(w) /\ UNCHANGED <<now, calls, crashes>> /\ me[w].pc # "started"
        /\ me'[w].pc \notin {"charge", "create", "dial"}
    BY <1>7, <1>t, HasInHand, RefundDoes, RecordAttemptDoes DEF NextLead, counters
  <2> QED
    BY <1>k, <1>o, <1>t, <2>1, LimitMoves
<1>8. ASSUME NEW w \in Workers, MarkFailed(w) PROVE LimitInv'
  <2>0. PICK c \in DOMAIN calls : c = me[w].call
    BY <1>8, <1>t, HasInHand
  <2>1. /\ OnlyMoves(w) /\ UNCHANGED <<now, crashes>> /\ me[w].pc # "started" /\ OnlyWrites(c) /\ KeepsTimes(c)
        /\ me'[w].pc \notin {"charge", "create", "dial"}
    BY <1>8, <1>t, <2>0, HasInHand, MarkFailedDoes DEF counters, KeepsTimes, KeepsOrder
  <2> QED
    BY <1>o, <1>t, <1>w, <2>1, LimitMoves
<1>9. ASSUME NEW w \in Workers, MarkStarted(w) PROVE LimitInv'
  <2>0. PICK c \in DOMAIN calls : c = me[w].call
    BY <1>9, <1>t, HasInHand
  <2>1. /\ OnlyMoves(w) /\ UNCHANGED <<now, crashes>> /\ me[w].pc = "started" /\ OnlyWrites(c) /\ now \in Nat
        /\ me'[w].pc \notin {"charge", "create", "dial"} /\ calls'[c].campaign = calls[c].campaign
        /\ calls'[c].dialledAt = calls[c].dialledAt /\ calls'[c].startedAt = now
    BY <1>9, <1>t, <2>0, HasInHand, MarkStartedDoes, Typed DEF counters, KeepsOrder
  <2>2. calls'[c].startedAt # Null
    BY <2>1, RulesAssumption DEF RulesAssumption
  <2>3. Lost' \subseteq Lost
    BY <2>0, <2>1, <2>2 DEF Lost, InRing, Ringing, OnlyMoves, OnlyWrites
  <2>4. AboutToDial' \subseteq AboutToDial
    BY <1>o, <2>1 DEF AboutToDial, OnlyMoves
  <2>5. \A day : DialledOn(day)' \subseteq DialledOn(day)
    BY <2>1 DEF DialledOn, OnlyWrites
  <2> QED
    BY <1>t, <2>1, <2>3, <2>4, <2>5, LimitKept
<1>10. ASSUME NEW w \in Workers, Crash(w) PROVE LimitInv'
  <2>1. /\ OnlyMoves(w) /\ UNCHANGED <<now, calls>> /\ me'[w].pc \notin {"charge", "create", "dial"}
        /\ crashes' = crashes + 1
    BY <1>10, <1>t, CrashDoes
  <2>2. AboutToDial' \subseteq AboutToDial
    BY <1>o, <2>1 DEF AboutToDial, OnlyMoves
  <2>3. Lost' \subseteq Lost \union {me[w].call}
    BY <2>1 DEF Lost, InRing, Ringing, OnlyMoves
  <2>4. Cardinality(AboutToDial') \in Nat /\ Cardinality(AboutToDial') <= Cardinality(AboutToDial)
    BY <1>f, <2>2, Fewer
  <2>5. Cardinality(Lost') \in Nat /\ Cardinality(Lost') <= Cardinality(Lost) + 1
    BY <1>f, <2>3, OneMore
  <2>6. Bound' = Bound + 1 /\ Today' = Today /\ DialledOn(Today)' = DialledOn(Today)
        /\ \A day : DialledOn(day)' = DialledOn(day)
    BY <1>f, <2>1 DEF Bound, Today, DialledOn
  <2>7. Cardinality(Lost') <= crashes'
    BY <1>f, <2>1, <2>5
  <2>8. \A day \in 0 .. Today' : Cardinality(DialledOn(day)') <= Bound'
    BY <1>b, <1>f, <1>i, <2>6
  <2>9. Cardinality(DialledOn(Today)) + Cardinality(AboutToDial') <= Bound'
    BY <1>b, <1>f, <1>i, <2>4, <2>6
  <2> QED
    BY <1>t, <2>6, <2>7, <2>8, <2>9 DEF LimitInv
<1>11. ASSUME NEW c \in DOMAIN calls, Poll(c) \/ LineEnds(c) \/ HangUp(c) PROVE LimitInv'
  <2>1. OnlyWrites(c) /\ UNCHANGED <<now, crashes, me>> /\ KeepsTimes(c)
    BY <1>11, <1>t, PollDoes, LineEndsDoes, HangUpDoes DEF Synced, KeepsOrder, KeepsTimes, counters
  <2>2. Lost' \subseteq Lost /\ AboutToDial' \subseteq AboutToDial
    BY <2>1 DEF Lost, InRing, Ringing, AboutToDial, KeepsTimes, OnlyWrites
  <2>3. \A day : DialledOn(day)' \subseteq DialledOn(day)
    BY <2>1 DEF DialledOn, KeepsTimes, OnlyWrites
  <2> QED
    BY <1>t, <2>1, <2>2, <2>3, LimitKept
<1>12. CASE Pause \/ Resume \/ (\E l \in Leads : FlagDoNotCall(l)) \/ Tick \/ UNCHANGED vars
  <2>1. UNCHANGED <<calls, me, crashes>> /\ (now' = now \/ now' = now + 1)
    BY <1>12, <1>t, WorldDoes
  <2>2. Lost' = Lost /\ AboutToDial' = AboutToDial /\ Bound' = Bound /\ \A day : DialledOn(day)' = DialledOn(day)
    BY <2>1 DEF Lost, InRing, Ringing, AboutToDial, DialledOn, Bound
  <2>3. Today' \in {Today, Today + 1}
    BY <1>f, <2>1, Days DEF Today
  <2>4. CASE Today' = Today
    <3>1. DialledOn(Today)' = DialledOn(Today)
      BY <2>1, <2>4 DEF DialledOn
    <3>2. \A day \in 0 .. Today' : Cardinality(DialledOn(day)') <= Bound'
      BY <1>i, <2>2, <2>4
    <3>3. Cardinality(Lost') <= crashes'
      BY <1>f, <2>1, <2>2
    <3> QED
      BY <1>t, <1>i, <2>2, <3>1, <3>2, <3>3 DEF LimitInv
  <2>5. CASE Today' = Today + 1
    <3>1. ASSUME NEW c \in DOMAIN calls, calls[c].dialledAt # Null PROVE calls[c].dialledAt \div DayLength <= Today
      <4>1. calls[c] \in CallRow /\ SoundCall(c)
        BY <1>t, Typed DEF CallsInv
      <4>2. PICK m \in Nat : m = calls[c].dialledAt /\ m <= now
        BY <3>1, <4>1 DEF CallRow, Times, SoundCall
      <4>3. m \div DayLength <= now \div DayLength
        BY <1>f, <4>2, Days
      <4> QED
        BY <4>2, <4>3 DEF Today
    <3>2. DialledOn(Today)' = {}
      <4>1. ASSUME NEW c \in DOMAIN calls, calls[c].dialledAt # Null, calls[c].dialledAt \div DayLength = Today + 1 PROVE FALSE
        <5>1. Today + 1 <= Today
          BY <3>1, <4>1
        <5> QED
          BY <1>f, <5>1
      <4> QED
        BY <2>1, <2>5, <4>1 DEF DialledOn
    <3>3. Cardinality(DialledOn(Today)') = 0
      BY <3>2, FS_EmptySet
    <3>4. Cardinality(AboutToDial') <= Bound'
      BY <1>b, <1>f, <2>2
    <3>5. ASSUME NEW day \in 0 .. Today' PROVE Cardinality(DialledOn(day)') <= Bound'
      <4>1. CASE day \in 0 .. Today
        BY <1>i, <2>2, <4>1
      <4>2. CASE day = Today'
        <5>1. DialledOn(day)' = {}
          BY <3>2, <4>2 DEF DialledOn
        <5> QED
          BY <1>b, <2>2, <5>1, FS_EmptySet
      <4> QED
        BY <1>f, <2>5, <4>1, <4>2
    <3>6. Cardinality(Lost') <= crashes'
      BY <1>f, <2>1, <2>2
    <3>7. Cardinality(DialledOn(Today)') + Cardinality(AboutToDial') <= Bound'
      BY <1>b, <1>f, <2>2, <3>3, <3>4
    <3> QED
      BY <1>t, <3>5, <3>6, <3>7 DEF LimitInv
  <2> QED
    BY <2>3, <2>4, <2>5
<1>13. ASSUME NEW p \in Passes, DialNext(p) PROVE LimitInv'
  BY <1>3, <1>13, <1>s, <1>t, DialNextDoes DEF counters
<1>14. ASSUME NEW w \in Callers, ClickCall(w) PROVE LimitInv'
  BY <1>3, <1>14, <1>s, <1>t, ClickCallDoes DEF counters
<1> QED
  BY <1>1, <1>2, <1>4, <1>5, <1>6, <1>7, <1>8, <1>9, <1>10, <1>11, <1>12, <1>13, <1>14, <1>t, NextSteps

(* However many workers pass the gate at once and whatever a crash keeps     *)
(* from being recorded, a campaign dials no more of a day than its limit and *)
(* one call for each crash and each other worker.                            *)
THEOREM DailyLimitIsHeld == Spec => []DailyLimitHeld
<1>1. Init => LimitInv
  <2> SUFFICES ASSUME Init PROVE LimitInv
    OBVIOUS
  <2>1. Lost = {} /\ AboutToDial = {} /\ (\A day : DialledOn(day) = {}) /\ DialledOn(Today) = {} /\ crashes = 0
    BY DEF Init, Idle, Lost, AboutToDial, DialledOn
  <2>2. Cardinality({}) = 0
    BY FS_EmptySet
  <2>3. CallsInv /\ TypeOK
    BY CallsInvInit DEF CallsInv, TypeInv
  <2>4. Bound \in Nat
    BY <2>3, LimitTypes DEF Bound
  <2>5. Cardinality(Lost) <= crashes /\ \A day \in 0 .. Today : Cardinality(DialledOn(day)) <= Bound
    BY <2>1, <2>2, <2>4
  <2>6. Cardinality(DialledOn(Today)) + Cardinality(AboutToDial) <= Bound
    BY <2>1, <2>2, <2>4
  <2> QED
    BY <2>3, <2>5, <2>6 DEF LimitInv
<1>2. LimitInv => DailyLimitHeld
  BY DEF LimitInv, DailyLimitHeld, DialledOn, Bound, Today
<1> QED
  BY <1>1, <1>2, LimitInvStep, PTL DEF Spec

-------------------------------------------------------------------------------
(* A pass that has the campaign to itself *)

(* No second pass of the campaign and nobody clicking Call.  With either,    *)
(* what follows is false: the run dialer_doubled shows it.                   *)
Alone == Callers = {} /\ \A p, q \in Passes : p = q

OpenCall(c) == calls[c].status \in LiveStatuses

\* An open call's lead is claimed; what still rings is open, or was cancelled here and not over there.
Claimed(c) ==
    /\ calls[c].campaign
    /\ OpenCall(c) => member[calls[c].lead].state = "IN_PROGRESS"
    /\ calls[c].line = "live" => OpenCall(c) \/ calls[c].status = "CANCELLED"

OneOpen == \A c, d \in DOMAIN calls : OpenCall(c) /\ OpenCall(d) /\ calls[c].lead = calls[d].lead => c = d

\* What a pass has read has no open call, and what it has in hand only the call it is placing, the last one.
PassClaims(p) ==
    /\ \A l \in me[p].batch : ~OnTheLine(l)
    /\ me[p].pc \in {"next"} \union InHand => \A l \in me[p].batch : member[l].state = "IN_PROGRESS"
    /\ me[p].pc = "stale" => \A claim \in me[p].claims : ~OnTheLine(claim[1])
    /\ me[p].pc \in InHand => me[p].campaign /\ me[p].lead \notin me[p].batch
    /\ me[p].pc \in InHand \ {"record"} => member[me[p].lead].state = "IN_PROGRESS"
    /\ me[p].pc \in {"charge", "create", "unclaim"} => ~OnTheLine(me[p].lead)
    /\ me[p].pc \in Holding =>
          /\ me[p].call = Len(calls)
          /\ \A c \in DOMAIN calls : OpenCall(c) /\ calls[c].lead = me[p].lead => c = me[p].call
    /\ me[p].pc \in Holding \ {"record"} => OpenCall(me[p].call) \/ calls[me[p].call].status = "CANCELLED"

ClaimInv ==
    /\ CallsInv
    /\ \A c \in DOMAIN calls : Claimed(c)
    /\ OneOpen
    /\ \A p \in Passes : PassClaims(p)

\* With one pass, its place is all there is to look at.
LEMMA OnePass ==
    ASSUME Alone, CallsInv', \A c \in DOMAIN calls' : Claimed(c)', OneOpen', NEW p \in Passes, PassClaims(p)'
    PROVE  ClaimInv'
BY DEF Alone, ClaimInv

\* The pass reads, and neither a call nor the lead of an open one changes.
LEMMA PassReads ==
    ASSUME Alone, ClaimInv, CallsInv', NEW p \in Passes, calls' = calls, PassClaims(p)',
           \A c \in DOMAIN calls : OpenCall(c) => member'[calls[c].lead].state = "IN_PROGRESS"
    PROVE  ClaimInv'
<1>1. \A c \in DOMAIN calls' : Claimed(c)'
  BY DEF ClaimInv, Claimed, OpenCall
<1>2. OneOpen'
  BY DEF ClaimInv, OneOpen, OpenCall
<1> QED
  BY <1>1, <1>2, OnePass

\* A call ends, or is hung up, and its lead goes on: whatever the pass has read is not about that lead.
LEMMA ClaimSynced ==
    ASSUME Alone, ClaimInv, CallsInv', NEW c \in DOMAIN calls, Settleable(c), Synced(c),
           \A p \in Passes : /\ me'[p].pc = me[p].pc /\ KeepsCall(p)
                             /\ me'[p].claims = me[p].claims /\ me'[p].batch = me[p].batch
    PROVE  ClaimInv'
<1> DEFINE l == calls[c].lead
<1>t. TypeOK /\ HandsFull /\ Passes \subseteq Workers
  BY DEF ClaimInv, CallsInv, TypeInv, Workers
<1>1. /\ OnlyWrites(c) /\ KeepsOrder(c) /\ OpenCall(c) /\ ~OpenCall(c)' /\ calls[c].campaign
      /\ calls'[c].line = calls[c].line /\ calls[c].line \notin {"none", "live"} /\ calls[c].known
      /\ OnlySettles(l) /\ l \in Leads
  <2>1. calls[c].campaign /\ calls[c] \in CallRow
    BY <1>t, Typed DEF ClaimInv, Claimed
  <2> QED
    BY <2>1 DEF Synced, Settleable, OpenCall, LiveStatuses, CallRow
<1>2. DOMAIN calls' = DOMAIN calls /\ (\A d \in DOMAIN calls \ {c} : calls'[d] = calls[d])
      /\ (\A k \in Leads \ {l} : member'[k] = member[k])
      /\ calls'[c].campaign = calls[c].campaign /\ calls'[c].lead = calls[c].lead
  BY <1>1 DEF OnlyWrites, OnlySettles, KeepsOrder
<1>3. \A d \in DOMAIN calls' : OpenCall(d)' => OpenCall(d) /\ d # c /\ calls'[d] = calls[d] /\ calls[d].lead # l
  <2>1. \A d \in DOMAIN calls \ {c} : OpenCall(d) => calls[d].lead # l
    BY <1>1 DEF ClaimInv, OneOpen
  <2> QED
    BY <1>1, <1>2, <2>1 DEF OpenCall
<1>4. ASSUME NEW d \in DOMAIN calls' PROVE Claimed(d)'
  <2>1. Claimed(d) /\ d \in DOMAIN calls /\ calls[d].lead \in Leads
    BY <1>2, <1>4, <1>t, Typed DEF ClaimInv, CallRow
  <2>2. CASE d = c
    BY <1>1, <1>2, <2>2 DEF Claimed
  <2>3. CASE d # c
    BY <1>2, <1>3, <2>1, <2>3 DEF Claimed, OpenCall
  <2> QED
    BY <2>2, <2>3
<1>5. OneOpen'
  BY <1>2, <1>3 DEF ClaimInv, OneOpen
<1>6. \A k : OnTheLine(k)' => OnTheLine(k) /\ k # l
  BY <1>2, <1>3 DEF OnTheLine, OpenCall
<1>7. OnTheLine(l)
  BY <1>1 DEF OnTheLine, OpenCall
<1>8. ASSUME NEW p \in Passes PROVE PassClaims(p)'
  <2>8. PassClaims(p) /\ SoundHand(p)
    BY <1>t DEF ClaimInv, CallsInv
  <2>9. me[p].pc \in Holding \ {"record"} => me[p].lead # l /\ me[p].call # c
    <3>1. me[p].pc \in Holding \ {"record"} => me[p].call # c
      <4>1. me[p].pc \in Holding \ {"record"} => me[p].pc \in {"dial", "refund", "failed"} \/ me[p].pc = "started"
        BY DEF Holding
      <4> QED
        BY <1>1, <2>8, <4>1 DEF SoundHand
    <3> QED
      BY <1>1, <2>8, <3>1 DEF PassClaims
  <2>10. me[p].pc \in InHand \ {"record"} => me[p].lead # l /\ me[p].lead \in Leads
    BY <1>7, <2>8, <2>9, <1>t DEF PassClaims, InHand, PastGate, HandsFull
  <2>11. \A k \in me[p].batch : k # l /\ k \in Leads
    BY <1>7, <2>8, <1>t, Typed DEF PassClaims, WorkerRow
  <2>12. /\ me'[p].pc = me[p].pc /\ me'[p].campaign = me[p].campaign /\ me'[p].lead = me[p].lead
         /\ me'[p].call = me[p].call /\ me'[p].batch = me[p].batch /\ me'[p].claims = me[p].claims
         /\ Len(calls') = Len(calls)
    BY <1>1 DEF KeepsCall, OnlyWrites
  <2>13. me[p].pc \in Holding => me[p].call \in DOMAIN calls
    BY <1>t DEF HandsFull
  <2>14. PassClaims(p)'
    <3>1. \A k \in me'[p].batch : ~OnTheLine(k)'
      BY <1>6, <2>8, <2>12 DEF PassClaims
    <3>2. me'[p].pc \in {"next"} \union InHand => \A k \in me'[p].batch : member'[k].state = "IN_PROGRESS"
      BY <1>2, <2>8, <2>11, <2>12 DEF PassClaims
    <3>3. me'[p].pc = "stale" => \A claim \in me'[p].claims : ~OnTheLine(claim[1])'
      BY <1>6, <2>8, <2>12 DEF PassClaims
    <3>4. me'[p].pc \in InHand => me'[p].campaign /\ me'[p].lead \notin me'[p].batch
      BY <2>8, <2>12 DEF PassClaims
    <3>5. me'[p].pc \in InHand \ {"record"} => member'[me'[p].lead].state = "IN_PROGRESS"
      BY <1>2, <2>8, <2>10, <2>12 DEF PassClaims
    <3>6. me'[p].pc \in {"charge", "create", "unclaim"} => ~OnTheLine(me[p].lead)'
      BY <1>2, <1>3, <2>8, <2>12 DEF PassClaims, OnTheLine, OpenCall
    <3>7. me'[p].pc \in Holding =>
            /\ me'[p].call = Len(calls')
            /\ \A d \in DOMAIN calls' : OpenCall(d)' /\ calls'[d].lead = me'[p].lead => d = me'[p].call
      BY <1>2, <1>3, <2>8, <2>12 DEF PassClaims
    <3>8. me'[p].pc \in Holding \ {"record"} => OpenCall(me[p].call)' \/ calls'[me'[p].call].status = "CANCELLED"
      BY <1>2, <2>8, <2>9, <2>12, <2>13 DEF PassClaims, OpenCall
    <3> QED
      BY <3>1, <3>2, <3>3, <3>4, <3>5, <3>6, <3>7, <3>8 DEF PassClaims
  <2> QED
    BY <2>14
<1> QED
  BY <1>1, <1>2, <1>4, <1>5, <1>8 DEF ClaimInv

\* A call is hung up, or its line ends.
LEMMA ClaimCalm ==
    ASSUME Alone, ClaimInv, CallsInv', NEW c \in DOMAIN calls, OnlyWrites(c), KeepsOrder(c), UNCHANGED <<member, me>>,
           calls'[c].status \in {calls[c].status, "CANCELLED"},
           calls'[c].line = "live" => calls[c].line = "live"
    PROVE  ClaimInv'
<1>1. DOMAIN calls' = DOMAIN calls /\ Len(calls') = Len(calls) /\ (\A d \in DOMAIN calls \ {c} : calls'[d] = calls[d])
      /\ calls'[c].campaign = calls[c].campaign /\ calls'[c].lead = calls[c].lead
  BY DEF OnlyWrites, KeepsOrder
<1>2. \A d \in DOMAIN calls : /\ calls'[d].lead = calls[d].lead /\ calls'[d].campaign = calls[d].campaign
                              /\ calls'[d].status \in {calls[d].status, "CANCELLED"}
                              /\ calls'[d].line = "live" => calls[d].line = "live"
  BY <1>1
<1>3. \A d \in DOMAIN calls : OpenCall(d)' => OpenCall(d)
  BY <1>2 DEF OpenCall, LiveStatuses
<1>4. \A d \in DOMAIN calls' : Claimed(d)'
  BY <1>1, <1>2, <1>3 DEF ClaimInv, Claimed, OpenCall
<1>5. OneOpen'
  BY <1>1, <1>2, <1>3 DEF ClaimInv, OneOpen
<1>6. \A k : OnTheLine(k)' => OnTheLine(k)
  BY <1>1, <1>2, <1>3 DEF OnTheLine, OpenCall
<1>7. ASSUME NEW p \in Passes PROVE PassClaims(p)'
  <2>1. PassClaims(p) /\ me'[p] = me[p]
    BY DEF ClaimInv
  <2>2. me[p].pc \in Holding => me[p].call \in DOMAIN calls
    BY DEF ClaimInv, CallsInv, TypeInv, HandsFull, Workers
  <2>3. me[p].pc \in Holding \ {"record"} => OpenCall(me[p].call)' \/ calls'[me[p].call].status = "CANCELLED"
    BY <1>2, <2>1, <2>2 DEF PassClaims, OpenCall
  <2>4. me[p].pc \in {"charge", "create", "unclaim"} => ~OnTheLine(me[p].lead)'
    BY <1>1, <1>2, <1>3, <2>1 DEF PassClaims, OnTheLine, OpenCall
  <2>5. me[p].pc \in Holding =>
          /\ me[p].call = Len(calls')
          /\ \A d \in DOMAIN calls' : OpenCall(d)' /\ calls'[d].lead = me[p].lead => d = me[p].call
    BY <1>1, <1>2, <1>3, <2>1 DEF PassClaims
  <2>6. (\A l \in me[p].batch : ~OnTheLine(l)') /\ (me[p].pc = "stale" => \A claim \in me[p].claims : ~OnTheLine(claim[1])')
    BY <1>6, <2>1 DEF PassClaims
  <2> QED
    BY <2>1, <2>3, <2>4, <2>5, <2>6 DEF PassClaims
<1> QED
  BY <1>4, <1>5, <1>7 DEF ClaimInv

LEMMA ClaimInvStep ==
    ASSUME Alone, ClaimInv, [Next]_vars
    PROVE  ClaimInv'
<1>t. CallsInv /\ CallsInv' /\ TypeOK /\ HandsFull
  BY CallsInvStep DEF ClaimInv, CallsInv, TypeInv
<1>s. Workers = Passes /\ Callers = {}
  BY DEF Workers, Alone
<1>i. (\A c \in DOMAIN calls : Claimed(c)) /\ OneOpen /\ \A p \in Passes : PassClaims(p) /\ SoundHand(p)
  BY <1>s DEF ClaimInv, CallsInv
<1>l. \A c \in DOMAIN calls : /\ calls[c] \in CallRow /\ calls[c].lead \in Leads /\ calls[c].campaign
                              /\ OpenCall(c) => member[calls[c].lead].state = "IN_PROGRESS"
  BY <1>t, <1>i, Typed DEF CallRow, Claimed
<1>h. Idle.pc = "idle" /\ Idle.batch = {}
  BY DEF Idle
\* A pass with nothing in hand.
<1>e. ASSUME NEW p \in Passes, me'[p].batch = {}, me'[p].pc \notin {"stale"} \union InHand PROVE PassClaims(p)'
  BY <1>e DEF PassClaims, InHand, PastGate, Holding
<1>u. ASSUME NEW p \in Passes, UNCHANGED <<calls, member>>, PassClaims(p)' PROVE ClaimInv'
  BY <1>l, <1>t, <1>u, PassReads
\* A pass with leads to call and none in hand.
<1>b. ASSUME NEW p \in Passes, me'[p].pc \notin {"stale", "next"} \union InHand, calls' = calls,
             \A l \in me'[p].batch : ~OnTheLine(l)
      PROVE  PassClaims(p)'
  BY <1>b DEF PassClaims, InHand, PastGate, Holding, OnTheLine
<1>1. ASSUME NEW p \in Passes, StartPass(p) PROVE ClaimInv'
  BY <1>1, <1>b, <1>t, <1>u, StartPassDoes DEF InHand, PastGate, Holding
<1>2. ASSUME NEW p \in Passes, SyncActive(p) PROVE ClaimInv'
  <2>1. /\ me[p].pc = "sweep" /\ me'[p].pc = "sweep" /\ KeepsCall(p)
        /\ me'[p].claims = me[p].claims /\ me'[p].batch = me[p].batch
    BY <1>2, <1>t, SyncActiveDoes
  <2>2. CASE UNCHANGED <<member, calls>>
    BY <1>b, <1>i, <1>u, <2>1, <2>2 DEF PassClaims, InHand, PastGate, Holding
  <2>3. ASSUME NEW c \in DOMAIN calls, Settleable(c), Synced(c) PROVE ClaimInv'
    BY <1>t, <2>1, <2>3, ClaimSynced DEF Alone
  <2> QED
    BY <1>2, <1>t, <2>2, <2>3, SyncActiveDoes
<1>3. ASSUME NEW p \in Passes, ReadClaims(p) PROVE ClaimInv'
  <2>1. me'[p].pc \in {"claim", "live"} /\ me'[p].batch = me[p].batch /\ UNCHANGED <<member, calls>>
    BY <1>3, <1>t, ReadClaimsDoes
  <2>2. \A l \in me'[p].batch : ~OnTheLine(l)
    BY <1>i, <2>1 DEF PassClaims
  <2> QED
    BY <1>b, <1>u, <2>1, <2>2 DEF InHand, PastGate, Holding
<1>4. ASSUME NEW p \in Passes, ReadLiveCalls(p) PROVE ClaimInv'
  <2>1. /\ me'[p].pc = "stale" /\ me'[p].batch = me[p].batch /\ UNCHANGED <<member, calls>>
        /\ me'[p].claims = {x \in me[p].claims : ~OnTheLine(x[1])}
    BY <1>4, <1>t, ReadLiveCallsDoes
  <2>2. (\A l \in me'[p].batch : ~OnTheLine(l)) /\ \A claim \in me'[p].claims : ~OnTheLine(claim[1])
    BY <1>i, <2>1 DEF PassClaims
  <2>3. PassClaims(p)'
    BY <2>1, <2>2 DEF PassClaims, OnTheLine, InHand, PastGate, Holding
  <2> QED
    BY <1>u, <2>1, <2>3
<1>5. ASSUME NEW p \in Passes, ReleaseStaleClaim(p) PROVE ClaimInv'
  <2>1. /\ me[p].pc = "stale" /\ me'[p].pc = "stale" /\ me'[p].batch = me[p].batch /\ calls' = calls
        /\ me'[p].claims \subseteq me[p].claims
    BY <1>5, <1>t, ReleaseStaleClaimDoes
  <2>2. PICK claim \in me[p].claims : OnlySettles(claim[1])
    BY <1>5, <1>t, ReleaseStaleClaimDoes
  <2>3. ~OnTheLine(claim[1])
    BY <1>i, <2>1, <2>2 DEF PassClaims
  <2>4. \A c \in DOMAIN calls : OpenCall(c) => calls[c].lead # claim[1] /\ calls[c].lead \in Leads
    BY <1>l, <2>3 DEF OnTheLine, OpenCall
  <2>5. \A c \in DOMAIN calls : OpenCall(c) => member'[calls[c].lead].state = "IN_PROGRESS"
    BY <1>l, <2>2, <2>4 DEF OnlySettles
  <2>6. PassClaims(p)'
    BY <1>i, <2>1 DEF PassClaims, OnTheLine, InHand, PastGate, Holding
  <2> QED
    BY <1>t, <2>1, <2>5, <2>6, PassReads
<1>6. ASSUME NEW p \in Passes, ReadDueLeads(p) PROVE ClaimInv'
  <2>1. /\ UNCHANGED <<member, calls>>
        /\ \/ me'[p] = Idle
           \/ me'[p].pc = "take" /\ \A l \in me'[p].batch : l \in Leads /\ Due(l)
    BY <1>6, <1>t, ReadDueLeadsDoes
  <2>2. \A l : Due(l) => ~OnTheLine(l)
    BY <1>l DEF Due, OnTheLine, OpenCall
  <2>3. PassClaims(p)'
    BY <1>b, <1>h, <2>1, <2>2 DEF InHand, PastGate, Holding
  <2> QED
    BY <1>u, <2>1, <2>3
<1>7. ASSUME NEW p \in Passes, Claim(p) PROVE ClaimInv'
  <2>1. /\ calls' = calls
        /\ \/ me'[p] = Idle
           \/ me'[p].pc = "reread" /\ me'[p].batch = me[p].batch
        /\ \A l \in Leads : member'[l] = member[l] \/ member'[l].state = "IN_PROGRESS"
    BY <1>7, <1>t, ClaimDoes
  <2>2. \A c \in DOMAIN calls : OpenCall(c) => member'[calls[c].lead].state = "IN_PROGRESS"
    BY <1>l, <2>1
  <2>3. PassClaims(p)'
    <3>1. \A l \in me[p].batch : ~OnTheLine(l)
      BY <1>i DEF PassClaims
    <3> QED
      BY <1>b, <1>h, <2>1, <3>1 DEF InHand, PastGate, Holding
  <2> QED
    BY <1>t, <2>1, <2>2, <2>3, PassReads
<1>8. ASSUME NEW p \in Passes, RereadClaimed(p) PROVE ClaimInv'
  <2>1. /\ me'[p].pc = "next" /\ me'[p].batch = {l \in me[p].batch : member[l].state = "IN_PROGRESS"}
        /\ UNCHANGED <<member, calls>>
    BY <1>8, <1>t, RereadClaimedDoes
  <2>2. PassClaims(p)'
    BY <1>i, <2>1 DEF PassClaims, OnTheLine, InHand, PastGate, Holding
  <2> QED
    BY <1>u, <2>1, <2>2
<1>9. ASSUME NEW p \in Passes, EndPass(p) PROVE ClaimInv'
  BY <1>9, <1>b, <1>h, <1>t, <1>u, EndPassDoes DEF InHand, PastGate, Holding
<1>10. ASSUME NEW p \in Passes, DialNext(p) PROVE ClaimInv'
  <2>1. PICK l \in me[p].batch : Gated(p, l, TRUE)
    BY <1>10, <1>t, DialNextDoes
  <2>2. /\ me[p].pc = "next" /\ UNCHANGED <<member, calls>> /\ me'[p].pc \in {"charge", "unclaim"}
        /\ me'[p].lead = l /\ me'[p].campaign /\ me'[p].batch = me[p].batch \ {l}
    BY <1>10, <1>t, <2>1, DialNextDoes DEF Gated
  <2>3. PassClaims(p)'
    BY <1>i, <2>1, <2>2 DEF PassClaims, OnTheLine, Holding
  <2> QED
    BY <1>u, <2>2, <2>3
<1>11. ASSUME NEW p \in Passes, Charge(p) PROVE ClaimInv'
  <2>1. /\ KeepsCall(p) /\ KeepsReads(p) /\ me[p].pc = "charge" /\ UNCHANGED <<member, calls>>
        /\ me'[p].pc \in {"create", "unclaim"}
    BY <1>11, <1>s, <1>t, ChargeDoes
  <2>2. PassClaims(p)'
    BY <1>i, <2>1 DEF PassClaims, OnTheLine, KeepsCall, KeepsReads, InHand, PastGate, Holding
  <2> QED
    BY <1>u, <2>1, <2>2
<1>12. ASSUME NEW p \in Passes, CreateCall(p) PROVE ClaimInv'
  <2>0. PICK n \in Nat : n = Len(calls) + 1
    BY <1>t, Typed
  <2>1. /\ KeepsReads(p) /\ me[p].pc = "create" /\ me'[p].pc = "dial" /\ me[p].lead \in Leads /\ member' = member
        /\ me'[p].lead = me[p].lead /\ me'[p].campaign = me[p].campaign /\ me'[p].call = n
        /\ Len(calls') = n /\ DOMAIN calls' = 1 .. n /\ \A c \in DOMAIN calls : calls'[c] = calls[c]
        /\ calls'[n] = [lead |-> me[p].lead, campaign |-> me[p].campaign, status |-> "QUEUED",
                        known |-> FALSE, startedAt |-> Null, credits |-> 1,
                        line |-> "none", dialledAt |-> Null, late |-> {}]
    BY <1>12, <1>s, <1>t, <2>0, HasInHand, CreateCallDoes
  <2>2. DOMAIN calls' = DOMAIN calls \union {n} /\ n \notin DOMAIN calls
    BY <1>t, <2>0, <2>1, Typed
  <2>3. /\ calls'[n].lead = me[p].lead /\ calls'[n].campaign = me[p].campaign /\ calls'[n].line = "none"
        /\ OpenCall(n)'
    BY <2>1 DEF OpenCall, LiveStatuses
  <2>4. /\ me[p].campaign /\ me[p].lead \notin me[p].batch /\ member[me[p].lead].state = "IN_PROGRESS"
        /\ ~OnTheLine(me[p].lead) /\ (\A l \in me[p].batch : ~OnTheLine(l))
        /\ (\A l \in me[p].batch : member[l].state = "IN_PROGRESS")
    BY <1>i, <2>1 DEF PassClaims, InHand, PastGate
  <2>5. \A c \in DOMAIN calls : OpenCall(c) => calls[c].lead # me[p].lead
    BY <1>l, <2>4 DEF OnTheLine, OpenCall
  <2>6. \A c \in DOMAIN calls : (OpenCall(c)' <=> OpenCall(c)) /\ calls'[c] = calls[c]
    BY <2>1 DEF OpenCall
  <2>7. \A c \in DOMAIN calls' : Claimed(c)'
    <3>1. \A c \in DOMAIN calls : Claimed(c)'
      BY <1>i, <2>1, <2>6 DEF Claimed
    <3>2. Claimed(n)'
      BY <2>1, <2>3, <2>4 DEF Claimed
    <3> QED
      BY <2>2, <3>1, <3>2
  <2>8. OneOpen'
    BY <1>i, <2>2, <2>3, <2>5, <2>6 DEF OneOpen
  <2>9. \A l \in me[p].batch : ~OnTheLine(l)'
    BY <2>2, <2>3, <2>4, <2>6 DEF OnTheLine, OpenCall
  <2>10. \A c \in DOMAIN calls' : OpenCall(c)' /\ calls'[c].lead = me[p].lead => c = n
    BY <2>2, <2>5, <2>6
  <2>11. PassClaims(p)'
    BY <2>1, <2>3, <2>4, <2>9, <2>10 DEF PassClaims, KeepsReads, InHand, PastGate, Holding
  <2> QED
    BY <1>t, <2>7, <2>8, <2>11, OnePass
\* A worker writes the call it has in hand, and leaves it as open as it was or cancelled, or reopens it.
<1>13. ASSUME NEW p \in Passes, NEW c \in DOMAIN calls, c = me[p].call, me[p].pc \in Holding \ {"record"},
              me'[p].pc \in Holding, KeepsCall(p), KeepsReads(p), member' = member, OnlyWrites(c), KeepsOrder(c),
              calls'[c].status \in {calls[c].status, "DIALING"}
       PROVE  ClaimInv'
  <2>1. /\ DOMAIN calls' = DOMAIN calls /\ Len(calls') = Len(calls) /\ (\A d \in DOMAIN calls \ {c} : calls'[d] = calls[d])
        /\ calls'[c].campaign = calls[c].campaign /\ calls'[c].lead = calls[c].lead
    BY <1>13 DEF OnlyWrites, KeepsOrder
  <2>2. /\ me'[p].campaign = me[p].campaign /\ me'[p].lead = me[p].lead /\ me'[p].call = c
        /\ me'[p].batch = me[p].batch
    BY <1>13 DEF KeepsCall, KeepsReads
  <2>3. /\ me[p].campaign /\ me[p].lead \notin me[p].batch /\ member[me[p].lead].state = "IN_PROGRESS"
        /\ (\A l \in me[p].batch : ~OnTheLine(l)) /\ (\A l \in me[p].batch : member[l].state = "IN_PROGRESS")
        /\ c = Len(calls) /\ (\A d \in DOMAIN calls : OpenCall(d) /\ calls[d].lead = me[p].lead => d = c)
        /\ OpenCall(c) \/ calls[c].status = "CANCELLED"
    BY <1>i, <1>13 DEF PassClaims, InHand, PastGate
  <2>4. calls[c].lead = me[p].lead
    BY <1>i, <1>13 DEF SoundHand, Holding
  <2>5. OpenCall(c)' \/ calls'[c].status = "CANCELLED"
    BY <1>13, <2>3 DEF OpenCall, LiveStatuses
  <2>6. \A d \in DOMAIN calls \ {c} : (OpenCall(d)' <=> OpenCall(d)) /\ calls'[d] = calls[d]
    BY <2>1 DEF OpenCall
  <2>7. \A d \in DOMAIN calls' : Claimed(d)'
    <3>1. \A d \in DOMAIN calls \ {c} : Claimed(d)'
      BY <1>i, <1>13, <2>6 DEF Claimed
    <3>2. Claimed(c)'
      BY <1>13, <1>l, <2>1, <2>3, <2>4, <2>5 DEF Claimed
    <3> QED
      BY <2>1, <3>1, <3>2
  <2>8. \A d \in DOMAIN calls' : OpenCall(d)' /\ calls'[d].lead = me[p].lead => d = c
    BY <2>1, <2>3, <2>6
  <2>9. OneOpen'
    BY <1>i, <2>1, <2>4, <2>6, <2>8 DEF OneOpen
  <2>10. \A l \in me[p].batch : ~OnTheLine(l)'
    BY <2>1, <2>3, <2>4, <2>6 DEF OnTheLine, OpenCall
  <2>11. PassClaims(p)'
    <3>1. me'[p].pc \in Holding => /\ me'[p].call = Len(calls')
                                   /\ \A d \in DOMAIN calls' : OpenCall(d)' /\ calls'[d].lead = me'[p].lead => d = me'[p].call
      BY <2>1, <2>2, <2>3, <2>8
    <3>2. OpenCall(me[p].call)' \/ calls'[me'[p].call].status = "CANCELLED"
      BY <2>2, <2>5 DEF OpenCall
    <3>3. me'[p].pc \notin {"stale", "charge", "create", "unclaim"}
      BY <1>13 DEF Holding
    <3>4. member'[me'[p].lead].state = "IN_PROGRESS" /\ me'[p].campaign /\ me'[p].lead \notin me'[p].batch
          /\ \A l \in me'[p].batch : member'[l].state = "IN_PROGRESS"
      BY <1>13, <2>2, <2>3
    <3> QED
      BY <2>2, <2>10, <3>1, <3>2, <3>3, <3>4 DEF PassClaims
  <2> QED
    BY <1>t, <2>7, <2>9, <2>11, OnePass
<1>14. ASSUME NEW p \in Passes, Dial(p) PROVE ClaimInv'
  <2>0. PICK c \in DOMAIN calls : c = me[p].call
    BY <1>14, <1>s, <1>t, HasInHand
  <2>1. /\ KeepsCall(p) /\ KeepsReads(p) /\ me[p].pc = "dial" /\ member' = member
        /\ \/ me'[p].pc = "started" /\ OnlyWrites(c) /\ KeepsOrder(c) /\ calls'[c].status = calls[c].status
           \/ me'[p].pc = "refund" /\ calls' = calls
    BY <1>14, <1>s, <1>t, <2>0, HasInHand, DialDoes
  <2>2. OnlyWrites(c) /\ KeepsOrder(c) /\ calls'[c].status = calls[c].status /\ me'[p].pc \in Holding
    BY <2>1 DEF OnlyWrites, KeepsOrder, Holding
  <2> QED
    BY <1>13, <2>0, <2>1, <2>2 DEF Holding
<1>15. ASSUME NEW p \in Passes, Refund(p) PROVE ClaimInv'
  <2>0. PICK c \in DOMAIN calls : c = me[p].call
    BY <1>15, <1>s, <1>t, HasInHand
  <2>1. /\ KeepsCall(p) /\ KeepsReads(p) /\ me[p].pc = "refund" /\ me'[p].pc = "failed" /\ UNCHANGED <<member, calls>>
    BY <1>15, <1>s, <1>t, <2>0, HasInHand, RefundDoes
  <2>2. OnlyWrites(c) /\ KeepsOrder(c) /\ calls'[c].status = calls[c].status /\ me'[p].pc \in Holding
    BY <2>1 DEF OnlyWrites, KeepsOrder, Holding
  <2> QED
    BY <1>13, <2>0, <2>1, <2>2 DEF Holding
<1>16. ASSUME NEW p \in Passes, MarkStarted(p) PROVE ClaimInv'
  <2>0. PICK c \in DOMAIN calls : c = me[p].call
    BY <1>16, <1>s, <1>t, HasInHand
  <2>1. /\ KeepsCall(p) /\ KeepsReads(p) /\ me[p].pc = "started" /\ me'[p].pc = "record" /\ member' = member
        /\ OnlyWrites(c) /\ KeepsOrder(c) /\ calls'[c].status = "DIALING"
    BY <1>16, <1>s, <1>t, <2>0, HasInHand, MarkStartedDoes
  <2> QED
    BY <1>13, <2>0, <2>1 DEF Holding
<1>17. ASSUME NEW p \in Passes, MarkFailed(p) PROVE ClaimInv'
  <2>0. PICK c \in DOMAIN calls : c = me[p].call
    BY <1>17, <1>s, <1>t, HasInHand
  <2>1. /\ KeepsReads(p) /\ me[p].pc = "failed" /\ me'[p].pc = "unclaim" /\ member' = member
        /\ me'[p].campaign = me[p].campaign /\ me'[p].lead = me[p].lead
        /\ OnlyWrites(c) /\ KeepsOrder(c) /\ calls'[c].status = "FAILED" /\ calls'[c].line = calls[c].line
    BY <1>17, <1>s, <1>t, <2>0, HasInHand, MarkFailedDoes
  <2>2. /\ DOMAIN calls' = DOMAIN calls /\ (\A d \in DOMAIN calls \ {c} : calls'[d] = calls[d])
        /\ calls'[c].campaign = calls[c].campaign /\ calls'[c].lead = calls[c].lead /\ ~OpenCall(c)'
    BY <2>1 DEF OnlyWrites, KeepsOrder, OpenCall, LiveStatuses
  <2>3. /\ me[p].campaign /\ me[p].lead \notin me[p].batch /\ member[me[p].lead].state = "IN_PROGRESS"
        /\ (\A l \in me[p].batch : ~OnTheLine(l)) /\ (\A l \in me[p].batch : member[l].state = "IN_PROGRESS")
        /\ (\A d \in DOMAIN calls : OpenCall(d) /\ calls[d].lead = me[p].lead => d = c)
    BY <1>i, <2>0, <2>1 DEF PassClaims, InHand, PastGate, Holding
  <2>4. calls[c].line = "none" /\ calls[c].lead = me[p].lead
    BY <1>i, <2>0, <2>1 DEF SoundHand, Holding
  <2>5. \A d \in DOMAIN calls : OpenCall(d)' => OpenCall(d) /\ d # c /\ calls'[d] = calls[d]
    BY <2>2 DEF OpenCall
  <2>6. \A d \in DOMAIN calls' : Claimed(d)'
    <3>1. \A d \in DOMAIN calls \ {c} : Claimed(d)'
      BY <1>i, <2>1, <2>2 DEF Claimed, OpenCall
    <3>2. Claimed(c)'
      BY <1>l, <2>1, <2>2, <2>4 DEF Claimed
    <3> QED
      BY <2>2, <3>1, <3>2
  <2>7. OneOpen'
    BY <1>i, <2>2, <2>5 DEF OneOpen
  <2>8. \A l \in me[p].batch : ~OnTheLine(l)'
    BY <2>2, <2>3, <2>5 DEF OnTheLine, OpenCall
  <2>9. ~OnTheLine(me[p].lead)'
    BY <2>1, <2>2, <2>3, <2>5 DEF OnTheLine, OpenCall
  <2>10. PassClaims(p)'
    BY <2>1, <2>3, <2>8, <2>9 DEF PassClaims, KeepsReads, Holding
  <2> QED
    BY <1>t, <2>6, <2>7, <2>10, OnePass
<1>18. ASSUME NEW p \in Passes, RecordAttempt(p) PROVE ClaimInv'
  <2>1. /\ KeepsReads(p) /\ me[p].pc = "record" /\ me'[p].pc = "next" /\ OnlySettles(me[p].lead) /\ calls' = calls
        /\ ~me[p].campaign \/ member'[me[p].lead].state = "IN_PROGRESS"
    BY <1>18, <1>s, <1>t, HasInHand, RecordAttemptDoes DEF NextLead
  <2>2. /\ me[p].campaign /\ me[p].lead \notin me[p].batch /\ (\A l \in me[p].batch : ~OnTheLine(l))
        /\ (\A l \in me[p].batch : member[l].state = "IN_PROGRESS") /\ me[p].batch \subseteq Leads
    BY <1>i, <1>s, <1>t, <2>1, Typed DEF PassClaims, InHand, PastGate, Holding, WorkerRow
  <2>3. \A l \in Leads : member[l].state = "IN_PROGRESS" => member'[l].state = "IN_PROGRESS"
    BY <2>1, <2>2 DEF OnlySettles
  <2>4. \A c \in DOMAIN calls : OpenCall(c) => member'[calls[c].lead].state = "IN_PROGRESS"
    BY <1>l, <2>3
  <2>5. PassClaims(p)'
    BY <2>1, <2>2, <2>3 DEF PassClaims, OnTheLine, KeepsReads, InHand, PastGate, Holding
  <2> QED
    BY <1>t, <2>1, <2>4, <2>5, PassReads
<1>19. ASSUME NEW p \in Passes, ReleaseClaim(p) PROVE ClaimInv'
  <2>0. me[p].pc = "unclaim" /\ me[p].lead \in Leads
    BY <1>19, <1>s, <1>t DEF ReleaseClaim, At, HandsFull, InHand
  <2>1. /\ OnlySettles(me[p].lead) /\ calls' = calls
        /\ \/ me'[p] = Idle
           \/ me'[p].pc = "next" /\ me'[p].batch = me[p].batch
    BY <1>19, <1>t, <2>0, ReleaseClaimDoes
  <2>2. /\ me[p].lead \notin me[p].batch /\ (\A l \in me[p].batch : ~OnTheLine(l)) /\ ~OnTheLine(me[p].lead)
        /\ (\A l \in me[p].batch : member[l].state = "IN_PROGRESS") /\ me[p].batch \subseteq Leads
    BY <1>i, <1>s, <1>t, <2>0, Typed DEF PassClaims, InHand, PastGate, Holding, WorkerRow
  <2>3. \A l \in Leads \ {me[p].lead} : member'[l] = member[l]
    BY <2>1 DEF OnlySettles
  <2>4. \A c \in DOMAIN calls : OpenCall(c) => calls[c].lead # me[p].lead
    BY <1>l, <2>2 DEF OnTheLine, OpenCall
  <2>5. \A c \in DOMAIN calls : OpenCall(c) => member'[calls[c].lead].state = "IN_PROGRESS"
    BY <1>l, <2>3, <2>4
  <2>6. PassClaims(p)'
    <3>1. CASE me'[p] = Idle
      BY <1>e, <1>h, <3>1 DEF InHand, PastGate, Holding
    <3>2. CASE me'[p].pc = "next" /\ me'[p].batch = me[p].batch
      BY <2>1, <2>2, <2>3, <3>2 DEF PassClaims, OnTheLine, InHand, PastGate, Holding
    <3> QED
      BY <2>1, <3>1, <3>2
  <2> QED
    BY <1>t, <2>1, <2>5, <2>6, PassReads
<1>20. ASSUME NEW p \in Passes, Crash(p) PROVE ClaimInv'
  <2>1. me'[p].pc \in {"idle", "done"} /\ me'[p].batch = {} /\ UNCHANGED <<member, calls>>
    BY <1>20, <1>s, <1>t, CrashDoes
  <2> QED
    BY <1>e, <1>u, <2>1 DEF InHand, PastGate, Holding
<1>21. ASSUME NEW c \in DOMAIN calls, Poll(c) PROVE ClaimInv'
  <2>1. Settleable(c) /\ Synced(c) /\ me' = me
    BY <1>21, <1>t, PollDoes
  <2> QED
    BY <1>t, <2>1, ClaimSynced DEF KeepsCall
<1>22. ASSUME NEW c \in DOMAIN calls, LineEnds(c) PROVE ClaimInv'
  BY <1>22, <1>t, LineEndsDoes, ClaimCalm
<1>23. ASSUME NEW c \in DOMAIN calls, HangUp(c) PROVE ClaimInv'
  BY <1>23, <1>t, HangUpDoes, ClaimCalm
<1>24. CASE Pause \/ Resume \/ (\E l \in Leads : FlagDoNotCall(l)) \/ Tick \/ UNCHANGED vars
  <2>1. UNCHANGED <<calls, me, member>>
    BY <1>24, <1>t, WorldDoes
  <2>2. (\A c \in DOMAIN calls' : Claimed(c)') /\ OneOpen' /\ \A p \in Passes : PassClaims(p)'
    BY <1>i, <2>1 DEF Claimed, OneOpen, PassClaims, OpenCall, OnTheLine
  <2> QED
    BY <1>t, <2>2 DEF ClaimInv
<1> QED
  BY <1>1, <1>2, <1>3, <1>4, <1>5, <1>6, <1>7, <1>8, <1>9, <1>10, <1>11, <1>12, <1>14, <1>15, <1>16, <1>17, <1>18,
     <1>19, <1>20, <1>21, <1>22, <1>23, <1>24, <1>s DEF Next, PassStep, PlaceCallStep

LEMMA ClaimInvInit == Init => ClaimInv
<1> SUFFICES ASSUME Init PROVE ClaimInv
  OBVIOUS
<1>1. DOMAIN calls = {} /\ \A p \in Passes : me[p].pc = "idle" /\ me[p].batch = {}
  BY DEF Init, Idle, Workers
<1> QED
  BY <1>1, CallsInvInit DEF ClaimInv, OneOpen, PassClaims, InHand, PastGate, Holding

LEMMA AtMostOne ==
    ASSUME NEW S, \A x, y \in S : x = y
    PROVE  Cardinality(S) <= 1
<1>1. CASE S = {}
  BY <1>1, FS_EmptySet
<1>2. ASSUME NEW x \in S PROVE Cardinality(S) <= 1
  <2>1. S = {x}
    OBVIOUS
  <2> QED
    BY <2>1, FS_Singleton
<1> QED
  BY <1>1, <1>2

(* A pass that has the campaign to itself never rings a lead on two lines,   *)
(* wherever crashes, polls and hang-ups fall, but for a line hung up before  *)
(* the provider's id was known.                                              *)
THEOREM AloneRingsOnce == ASSUME Alone PROVE Spec => []OneLiveLine
<1>1. ClaimInv => OneLiveLine
  <2> SUFFICES ASSUME ClaimInv, NEW l \in Leads
               PROVE  Cardinality({c \in Dialled(l) : calls[c].line = "live" /\ calls[c].status # "CANCELLED"}) <= 1
    BY DEF OneLiveLine
  <2> DEFINE live == {c \in Dialled(l) : calls[c].line = "live" /\ calls[c].status # "CANCELLED"}
  <2>1. \A c \in live : c \in DOMAIN calls /\ calls[c].lead = l /\ OpenCall(c)
    BY DEF ClaimInv, Claimed, Dialled
  <2>2. \A c, d \in live : c = d
    BY <2>1 DEF ClaimInv, OneOpen
  <2> QED
    BY <2>2, AtMostOne
<1>2. ClaimInv /\ [Next]_vars => ClaimInv'
  BY ClaimInvStep
<1> QED
  BY <1>1, <1>2, ClaimInvInit, PTL DEF Spec

\* What only the pass that dialled a lead takes out of COMPLETED.
LEMMA CompletedStays ==
    ASSUME Alone, ClaimInv, [Next]_vars, NEW l \in Leads, member[l].state = "COMPLETED", member'[l].state # "COMPLETED"
    PROVE  \E w \in Workers : At(w, "record") /\ me[w].lead = l
<1>t. TypeOK /\ HandsFull /\ member \in [Leads -> MemberRow]
  BY Typed DEF ClaimInv, CallsInv, TypeInv
<1>s. Workers = Passes /\ Callers = {}
  BY DEF Workers, Alone
<1>1. ASSUME NEW c \in DOMAIN calls, Settleable(c), Synced(c) PROVE FALSE
  <2>1. member[calls[c].lead].state = "IN_PROGRESS"
    BY <1>1 DEF ClaimInv, Claimed, OpenCall, Settleable
  <2> QED
    BY <1>1, <2>1 DEF Synced, OnlySettles
<1>2. ASSUME NEW p \in Passes, SyncActive(p) PROVE FALSE
  BY <1>1, <1>2, <1>t, SyncActiveDoes
<1>3. ASSUME NEW c \in DOMAIN calls, Poll(c) PROVE FALSE
  BY <1>1, <1>3, <1>t, PollDoes
<1>4. ASSUME NEW p \in Passes, ReleaseStaleClaim(p) PROVE FALSE
  <2>1. PICK claim \in me[p].claims : OnlySettles(claim[1]) /\ (member' = member \/ member[claim[1]].state = "IN_PROGRESS")
    BY <1>4, <1>t, ReleaseStaleClaimDoes
  <2> QED
    BY <2>1 DEF OnlySettles
<1>5. ASSUME NEW p \in Passes, Claim(p) PROVE FALSE
  BY <1>5, <1>t, ClaimDoes
<1>6. ASSUME NEW p \in Passes, ReleaseClaim(p) PROVE FALSE
  <2>1. me[p].pc = "unclaim" /\ me[p].lead \in Leads
    BY <1>6, <1>s, <1>t DEF ReleaseClaim, At, HandsFull, InHand
  <2>2. member[me[p].lead].state = "IN_PROGRESS"
    BY <2>1 DEF ClaimInv, PassClaims, InHand
  <2>3. OnlySettles(me[p].lead)
    BY <1>6, <1>t, <2>1, ReleaseClaimDoes
  <2> QED
    BY <2>2, <2>3 DEF OnlySettles
<1>7. ASSUME NEW p \in Passes, RecordAttempt(p) PROVE \E w \in Workers : At(w, "record") /\ me[w].lead = l
  <2>1. me[p].pc = "record" /\ OnlySettles(me[p].lead)
    BY <1>7, <1>s, <1>t, HasInHand, RecordAttemptDoes
  <2>2. me[p].lead = l
    BY <2>1 DEF OnlySettles
  <2> QED
    BY <1>s, <2>1, <2>2 DEF At
<1>8. member' # member
  OBVIOUS
<1>9. /\ \A p \in Passes : /\ StartPass(p) \/ ReadClaims(p) \/ ReadLiveCalls(p) \/ ReadDueLeads(p) => member' = member
                           /\ RereadClaimed(p) \/ EndPass(p) \/ DialNext(p) \/ Charge(p) \/ CreateCall(p) => member' = member
                           /\ Dial(p) \/ Refund(p) \/ MarkFailed(p) \/ MarkStarted(p) \/ Crash(p) => member' = member
      /\ \A c \in DOMAIN calls : LineEnds(c) \/ HangUp(c) => member' = member
      /\ (\A k \in Leads : FlagDoNotCall(k) => member' = member)
      /\ Pause \/ Resume \/ Tick \/ UNCHANGED vars => member' = member
  BY DEF StartPass, ReadClaims, ReadLiveCalls, ReadDueLeads, RereadClaimed, EndPass, DialNext, Charge, CreateCall,
         Dial, Refund, MarkFailed, MarkStarted, Crash, LineEnds, HangUp, FlagDoNotCall, Pause, Resume, Tick, vars
<1> QED
  BY <1>2, <1>3, <1>4, <1>5, <1>6, <1>7, <1>8, <1>9, <1>s DEF Next, PassStep, PlaceCallStep

(* Under a pass that has the campaign to itself a reached lead stays         *)
(* COMPLETED, but for that pass recording the attempt that reached it.       *)
THEOREM AloneKeepsCompleted == ASSUME Alone PROVE Spec => CompletedIsKept
<1>1. ClaimInv /\ [Next]_vars =>
         (\A l \in Leads : member[l].state = "COMPLETED" /\ member'[l].state # "COMPLETED"
              => \E w \in Workers : At(w, "record") /\ me[w].lead = l)
  BY CompletedStays
<1>2. ClaimInv /\ [Next]_vars => ClaimInv'
  BY ClaimInvStep
<1> QED
  BY <1>1, <1>2, ClaimInvInit, PTL DEF Spec, CompletedIsKept

-------------------------------------------------------------------------------
(* The retry delay *)

\* The delay since call c was dialled is over, or its lead's row still says when it will be.
Rested(c) == now >= calls[c].dialledAt + RetryDelay
Marked(c) == LET m == member[calls[c].lead] IN m.lastAttemptAt # Null /\ m.lastAttemptAt >= calls[c].dialledAt
Noted(c) == LET m == member[calls[c].lead] IN
            m.nextAttemptAt # Null /\ m.nextAttemptAt >= calls[c].dialledAt + RetryDelay

\* A dialled call and its lead's row.
RowKnows(c) == calls[c].line # "none" => Rested(c) \/ Marked(c) \/ Noted(c) \/ member[calls[c].lead].state # "PENDING"

\* A dialled call and the pass that has its lead in its batch, or in hand again.
PassKnows(p, c) ==
    calls[c].line # "none" =>
       /\ calls[c].lead \in me[p].batch => Rested(c) \/ Marked(c)
       /\ me[p].pc \in InHand /\ calls[c].lead = me[p].lead /\ (me[p].pc \in Holding => c # me[p].call) =>
             Rested(c) \/ (me[p].pc = "unclaim" /\ Marked(c))

RestInv ==
    /\ ClaimInv
    /\ \A c \in DOMAIN calls : RowKnows(c)
    /\ \A p \in Passes, c \in DOMAIN calls : PassKnows(p, c)
    /\ RetrySpacing

\* The gate lets nobody past before the delay is over.
LEMMA GateRests ==
    ASSUME TypeOK, NEW l \in Leads, GateReasons(GateInput(l, TRUE)) = {}, member[l].lastAttemptAt # Null
    PROVE  now >= member[l].lastAttemptAt + RetryDelay
<1>1. member[l].lastAttemptAt \in Nat /\ now \in Nat /\ RetryDelay \in Nat
  BY Typed, DialerAssumption DEF MemberRow, Times, DialerAssumption
<1>2. CASE now - member[l].lastAttemptAt < RetryDelay
  <2>1. "RETRY_TOO_SOON" \in GateReasons(GateInput(l, TRUE))
    BY <1>2 DEF GateReasons, GateInput, BlockReasons
  <2> QED
    BY <2>1
<1> QED
  BY <1>1, <1>2

\* The call was dialled when it was, if it was.
KeepsDial(c) ==
    /\ KeepsOrder(c) /\ calls'[c].dialledAt = calls[c].dialledAt
    /\ calls'[c].line = "none" <=> calls[c].line = "none"

LEMMA DialledTimes ==
    ASSUME CallsInv
    PROVE  /\ now \in Nat /\ RetryDelay \in Nat
           /\ \A c \in DOMAIN calls : /\ calls[c].lead \in Leads
                                      /\ calls[c].line # "none" => calls[c].dialledAt \in Nat /\ calls[c].dialledAt <= now
           /\ \A l \in Leads : member[l].lastAttemptAt \in Times /\ member[l].nextAttemptAt \in Times
<1>1. now \in Nat /\ RetryDelay \in Nat /\ member \in [Leads -> MemberRow] /\ \A c \in DOMAIN calls : calls[c] \in CallRow
  BY Typed, DialerAssumption DEF CallsInv, TypeInv, DialerAssumption
<1>2. \A c \in DOMAIN calls : /\ calls[c].lead \in Leads
                              /\ calls[c].line # "none" => calls[c].dialledAt \in Nat /\ calls[c].dialledAt <= now
  BY <1>1 DEF CallRow, Times, CallsInv, SoundCall
<1> QED
  BY <1>1, <1>2 DEF MemberRow

LEMMA SpacingKept ==
    ASSUME RetrySpacing, DOMAIN calls' = DOMAIN calls, \A c \in DOMAIN calls : KeepsDial(c)
    PROVE  RetrySpacing'
<1>1. \A l \in Leads : Dialled(l)' = Dialled(l)
  BY DEF Dialled, KeepsDial, KeepsOrder
<1> QED
  BY <1>1 DEF RetrySpacing, KeepsDial, Dialled

\* A row that goes back into the queue notes the delay.
LEMMA RowKept ==
    ASSUME CallsInv, NEW c \in DOMAIN calls, RowKnows(c), KeepsDial(c), now' = now,
           \/ member'[calls[c].lead] = member[calls[c].lead]
           \/ member'[calls[c].lead].state # "PENDING"
           \/ member'[calls[c].lead].nextAttemptAt = now + RetryDelay
    PROVE  RowKnows(c)'
<1> DEFINE l == calls[c].lead
<1>1. now \in Nat /\ RetryDelay \in Nat /\ (calls[c].line # "none" => calls[c].dialledAt \in Nat /\ calls[c].dialledAt <= now)
  BY DialledTimes
<1>2. calls'[c].lead = l /\ calls'[c].dialledAt = calls[c].dialledAt /\ (calls'[c].line # "none" => calls[c].line # "none")
  BY DEF KeepsDial, KeepsOrder
<1>3. CASE member'[l] = member[l]
  BY <1>2, <1>3 DEF RowKnows, Rested, Marked, Noted
<1>4. CASE member'[l].state # "PENDING"
  BY <1>2, <1>4 DEF RowKnows
<1>5. CASE member'[l].nextAttemptAt = now + RetryDelay
  <2>1. now + RetryDelay # Null
    BY <1>1, RulesAssumption DEF RulesAssumption
  <2>2. calls[c].line # "none" => now + RetryDelay >= calls[c].dialledAt + RetryDelay
    BY <1>1
  <2> QED
    BY <1>2, <1>5, <2>1, <2>2 DEF RowKnows, Noted
<1> QED
  BY <1>3, <1>4, <1>5

\* What was rested stays so, and the mark of an attempt stays or is renewed.
LEMMA StaysRested ==
    ASSUME CallsInv, NEW c \in DOMAIN calls, KeepsDial(c), calls[c].line # "none", now' = now
    PROVE  /\ Rested(c) => Rested(c)'
           /\ Marked(c) /\ member'[calls[c].lead].lastAttemptAt = member[calls[c].lead].lastAttemptAt => Marked(c)'
BY DEF KeepsDial, KeepsOrder, Rested, Marked

\* A pass that has no lead in hand, and in its batch no more than before.
LEMMA BatchKnows ==
    ASSUME CallsInv, NEW p \in Passes, NEW c \in DOMAIN calls, PassKnows(p, c), KeepsDial(c), now' = now,
           me'[p].pc \notin InHand, me'[p].batch \subseteq me[p].batch,
           calls[c].lead \in me'[p].batch =>
              member'[calls[c].lead].lastAttemptAt = member[calls[c].lead].lastAttemptAt
    PROVE  PassKnows(p, c)'
<1>1. calls'[c].lead = calls[c].lead /\ (calls'[c].line # "none" => calls[c].line # "none")
  BY DEF KeepsDial, KeepsOrder
<1>2. calls[c].line # "none" /\ calls[c].lead \in me'[p].batch => Rested(c)' \/ Marked(c)'
  BY StaysRested DEF PassKnows
<1> QED
  BY <1>1, <1>2 DEF PassKnows

\* A pass that keeps the lead it has in hand, and the call or its lack of one.
LEMMA HandKnows ==
    ASSUME CallsInv, NEW p \in Passes, NEW c \in DOMAIN calls, PassKnows(p, c), KeepsDial(c), UNCHANGED <<now, member>>,
           me[p].pc \in InHand \ {"unclaim"}, me'[p].batch = me[p].batch, me'[p].lead = me[p].lead,
           me[p].pc \in Holding => c # me[p].call \/ (me'[p].pc \in Holding /\ me'[p].call = c) \/ calls[c].line = "none"
    PROVE  PassKnows(p, c)'
<1>1. calls'[c].lead = calls[c].lead /\ (calls'[c].line # "none" => calls[c].line # "none")
  BY DEF KeepsDial, KeepsOrder
<1>2. calls[c].line # "none" => (Rested(c) => Rested(c)') /\ (Marked(c) => Marked(c)')
  BY StaysRested
<1> QED
  BY <1>1, <1>2 DEF PassKnows

LEMMA RestInvStep ==
    ASSUME Alone, RestInv, [Next]_vars
    PROVE  RestInv'
<1>t. CallsInv /\ TypeOK /\ HandsFull /\ ClaimInv /\ ClaimInv' /\ RetrySpacing
  BY ClaimInvStep DEF RestInv, ClaimInv, CallsInv, TypeInv
<1>s. Workers = Passes /\ Callers = {} /\ \A p, q \in Passes : p = q
  BY DEF Workers, Alone
<1>i. (\A c \in DOMAIN calls : RowKnows(c)) /\ \A p \in Passes, c \in DOMAIN calls : PassKnows(p, c)
  BY DEF RestInv
<1>d. /\ now \in Nat /\ RetryDelay \in Nat
      /\ \A c \in DOMAIN calls : /\ calls[c].lead \in Leads
                                 /\ calls[c].line # "none" => calls[c].dialledAt \in Nat /\ calls[c].dialledAt <= now
  BY <1>t, DialledTimes
<1>k. calls' = calls => DOMAIN calls' = DOMAIN calls /\ \A c \in DOMAIN calls : KeepsDial(c)
  BY DEF KeepsDial, KeepsOrder
<1>w. ASSUME NEW c \in DOMAIN calls, OnlyWrites(c), KeepsDial(c)
      PROVE  DOMAIN calls' = DOMAIN calls /\ \A d \in DOMAIN calls : KeepsDial(d)
  BY <1>w DEF KeepsDial, KeepsOrder, OnlyWrites
<1>h. Idle.pc = "idle" /\ Idle.batch = {}
  BY DEF Idle
\* What has to be shown of a step of the pass that dials nothing.
<1>p. ASSUME NEW p \in Passes, now' = now, DOMAIN calls' = DOMAIN calls, \A c \in DOMAIN calls : KeepsDial(c),
             \A c \in DOMAIN calls : \/ member'[calls[c].lead] = member[calls[c].lead]
                                     \/ member'[calls[c].lead].state # "PENDING"
                                     \/ member'[calls[c].lead].nextAttemptAt = now + RetryDelay
                                     \/ RowKnows(c)',
             \A c \in DOMAIN calls : PassKnows(p, c)'
      PROVE  RestInv'
  <2>1. RetrySpacing'
    BY <1>p, <1>t, SpacingKept
  <2>2. \A c \in DOMAIN calls' : RowKnows(c)'
    BY <1>i, <1>p, <1>t, RowKept
  <2>3. \A q \in Passes : q = p
    BY <1>s
  <2> QED
    BY <1>p, <1>t, <2>1, <2>2, <2>3 DEF RestInv
\* A pass that goes on without a lead in hand.
<1>q. ASSUME NEW p \in Passes, now' = now, DOMAIN calls' = DOMAIN calls, \A c \in DOMAIN calls : KeepsDial(c),
             \A c \in DOMAIN calls : \/ member'[calls[c].lead] = member[calls[c].lead]
                                     \/ member'[calls[c].lead].state # "PENDING"
                                     \/ member'[calls[c].lead].nextAttemptAt = now + RetryDelay
                                     \/ RowKnows(c)',
             me'[p].pc \notin InHand, me'[p].batch \subseteq me[p].batch,
             \A l \in Leads : l \in me'[p].batch => member'[l].lastAttemptAt = member[l].lastAttemptAt
      PROVE  RestInv'
  <2>1. \A c \in DOMAIN calls : PassKnows(p, c)'
    BY <1>d, <1>i, <1>q, <1>t, BatchKnows
  <2> QED
    BY <1>p, <1>q, <2>1
<1>1. ASSUME NEW p \in Passes, \/ StartPass(p) \/ ReadClaims(p) \/ ReadLiveCalls(p) \/ RereadClaimed(p) \/ EndPass(p)
                               \/ Crash(p)
      PROVE  RestInv'
  <2>1. /\ UNCHANGED <<now, member, calls>>
        /\ me'[p].pc \notin InHand /\ me'[p].batch \subseteq me[p].batch
    BY <1>1, <1>h, <1>s, <1>t, StartPassDoes, ReadClaimsDoes, ReadLiveCallsDoes, RereadClaimedDoes, EndPassDoes, CrashDoes
       DEF InHand, PastGate, Holding
  <2> QED
    BY <1>k, <1>q, <2>1
<1>y. ASSUME NEW c \in DOMAIN calls, Synced(c)
      PROVE  /\ DOMAIN calls' = DOMAIN calls /\ \A d \in DOMAIN calls : KeepsDial(d)
             /\ \A l \in Leads : /\ member'[l].lastAttemptAt = member[l].lastAttemptAt
                                 /\ \/ member'[l] = member[l]
                                    \/ member'[l].state # "PENDING"
                                    \/ member'[l].nextAttemptAt = now + RetryDelay
  <2>1. OnlyWrites(c) /\ KeepsDial(c)
    BY <1>y DEF Synced, KeepsDial
  <2>2. \A l \in Leads : /\ member'[l].lastAttemptAt = member[l].lastAttemptAt
                         /\ \/ member'[l] = member[l]
                            \/ member'[l].state # "PENDING"
                            \/ member'[l].nextAttemptAt = now + RetryDelay
    BY <1>y DEF Synced, OnlySettles
  <2> QED
    BY <1>w, <2>1, <2>2
<1>2. ASSUME NEW p \in Passes, SyncActive(p) PROVE RestInv'
  <2>1. me'[p].pc \notin InHand /\ me'[p].batch = me[p].batch /\ now' = now
    BY <1>2, <1>t, SyncActiveDoes DEF InHand, PastGate, Holding
  <2>2. CASE UNCHANGED <<member, calls>>
    BY <1>k, <1>q, <2>1, <2>2
  <2>3. ASSUME NEW c \in DOMAIN calls, Synced(c) PROVE RestInv'
    BY <1>d, <1>q, <1>y, <2>1, <2>3
  <2> QED
    BY <1>2, <1>t, <2>2, <2>3, SyncActiveDoes
<1>3. ASSUME NEW p \in Passes, ReleaseStaleClaim(p) PROVE RestInv'
  <2>1. me'[p].pc \notin InHand /\ me'[p].batch = me[p].batch /\ UNCHANGED <<now, calls>>
    BY <1>3, <1>t, ReleaseStaleClaimDoes DEF InHand, PastGate, Holding
  <2>2. \A l \in Leads : /\ member'[l].lastAttemptAt = member[l].lastAttemptAt
                         /\ \/ member'[l] = member[l]
                            \/ member'[l].state # "PENDING"
                            \/ member'[l].nextAttemptAt = now + RetryDelay
    BY <1>3, <1>t, ReleaseStaleClaimDoes DEF OnlySettles
  <2> QED
    BY <1>d, <1>k, <1>q, <2>1, <2>2
<1>4. ASSUME NEW p \in Passes, ReadDueLeads(p) PROVE RestInv'
  <2>1. /\ UNCHANGED <<now, member, calls>> /\ me'[p].pc \notin InHand
        /\ \A l \in me'[p].batch : l \in Leads /\ Due(l)
    BY <1>4, <1>h, <1>t, ReadDueLeadsDoes DEF InHand, PastGate, Holding
  <2>2. ASSUME NEW c \in DOMAIN calls PROVE PassKnows(p, c)'
    <3>1. ASSUME calls[c].line # "none", Due(calls[c].lead) PROVE Rested(c) \/ Marked(c)
      <4>1. RowKnows(c) /\ calls[c].lead \in Leads /\ calls[c].dialledAt \in Nat
        BY <1>d, <1>i, <3>1
      <4>2. member[calls[c].lead].state \in {"PENDING", "QUEUED"} /\ member[calls[c].lead].state \in MemberStates
        BY <1>t, <3>1, <4>1, Typed DEF Due, MemberRow
      <4>3. member[calls[c].lead].state = "PENDING"
        BY <4>2 DEF MemberStates
      <4>4. Noted(c) => Rested(c)
        <5>1. PICK due \in Times : due = member[calls[c].lead].nextAttemptAt
          BY <1>t, <4>1, Typed DEF MemberRow
        <5>2. Noted(c) => due \in Nat /\ due >= calls[c].dialledAt + RetryDelay /\ due <= now
          BY <3>1, <5>1 DEF Noted, Due, Times
        <5> QED
          BY <1>d, <4>1, <5>2 DEF Rested
      <4> QED
        BY <3>1, <4>1, <4>3, <4>4 DEF RowKnows
    <3>2. (Rested(c) => Rested(c)') /\ (Marked(c) => Marked(c)')
      BY <2>1 DEF Rested, Marked
    <3> QED
      BY <2>1, <3>1, <3>2 DEF PassKnows
  <2> QED
    BY <1>k, <1>p, <2>1, <2>2
<1>5. ASSUME NEW p \in Passes, Claim(p) PROVE RestInv'
  <2>1. me'[p].pc \notin InHand /\ me'[p].batch \subseteq me[p].batch /\ UNCHANGED <<now, calls>>
    BY <1>5, <1>h, <1>t, ClaimDoes DEF InHand, PastGate, Holding
  <2>2. \A l \in Leads : /\ member'[l].lastAttemptAt = member[l].lastAttemptAt
                         /\ member'[l] = member[l] \/ member'[l].state # "PENDING"
    BY <1>5, <1>t, ClaimDoes
  <2> QED
    BY <1>d, <1>k, <1>q, <2>1, <2>2
<1>6. ASSUME NEW p \in Passes, DialNext(p) PROVE RestInv'
  <2>1. PICK l \in me[p].batch : Gated(p, l, TRUE)
    BY <1>6, <1>t, DialNextDoes
  <2>2. UNCHANGED <<now, member, calls>> /\ me[p].pc = "next" /\ l \in Leads
    BY <1>6, <1>t, <2>1, DialNextDoes DEF Gated
  <2>3. /\ me'[p].lead = l /\ me'[p].batch = me[p].batch \ {l} /\ me'[p].pc \notin Holding
        /\ \/ me'[p].pc = "unclaim"
           \/ me'[p].pc = "charge" /\ GateReasons(GateInput(l, TRUE)) = {}
    BY <2>1 DEF Gated, Holding
  <2>4. ASSUME NEW c \in DOMAIN calls PROVE PassKnows(p, c)'
    <3>1. PassKnows(p, c)
      BY <1>i
    <3>2. (Rested(c) => Rested(c)') /\ (Marked(c) => Marked(c)')
      BY <2>2 DEF Rested, Marked
    <3>3. ASSUME calls[c].line # "none", calls[c].lead = l PROVE Rested(c)' \/ (me'[p].pc = "unclaim" /\ Marked(c)')
      <4>1. Rested(c) \/ Marked(c)
        BY <3>1, <3>3, <2>1 DEF PassKnows
      <4>2. CASE Marked(c) /\ GateReasons(GateInput(l, TRUE)) = {}
        <5>1. PICK last \in Times : last = member[l].lastAttemptAt
          BY <1>t, <2>2, Typed DEF MemberRow
        <5>2. last # Null /\ last >= calls[c].dialledAt /\ now >= last + RetryDelay
          BY <1>t, <2>2, <3>3, <4>2, <5>1, GateRests DEF Marked
        <5>3. calls[c].dialledAt \in Nat /\ last \in Nat
          BY <1>d, <3>3, <5>2 DEF Times
        <5>4. Rested(c)
          BY <1>d, <5>2, <5>3 DEF Rested
        <5> QED
          BY <3>2, <5>4
      <4> QED
        BY <2>3, <3>2, <4>1, <4>2
    <3>4. calls[c].line # "none" /\ calls[c].lead \in me'[p].batch => Rested(c)' \/ Marked(c)'
      BY <2>3, <3>1, <3>2 DEF PassKnows
    <3> QED
      BY <2>2, <2>3, <3>3, <3>4 DEF PassKnows
  <2> QED
    BY <1>k, <1>p, <2>2, <2>4
<1>7. ASSUME NEW p \in Passes, Charge(p) PROVE RestInv'
  <2>1. /\ KeepsCall(p) /\ KeepsReads(p) /\ me[p].pc = "charge" /\ UNCHANGED <<now, member, calls>>
    BY <1>7, <1>s, <1>t, ChargeDoes
  <2>2. \A c \in DOMAIN calls : PassKnows(p, c)'
    BY <1>i, <1>k, <1>t, <2>1, HandKnows DEF KeepsCall, KeepsReads, InHand, PastGate, Holding
  <2> QED
    BY <1>k, <1>p, <2>1, <2>2
<1>8. ASSUME NEW p \in Passes, CreateCall(p) PROVE RestInv'
  <2>0. PICK n \in Nat : n = Len(calls) + 1
    BY <1>t, Typed
  <2>1. /\ KeepsReads(p) /\ me[p].pc = "create" /\ me'[p].pc = "dial" /\ UNCHANGED <<now, member>>
        /\ me'[p].lead = me[p].lead /\ me'[p].call = n
        /\ DOMAIN calls' = 1 .. n /\ \A c \in DOMAIN calls : calls'[c] = calls[c]
        /\ calls'[n] = [lead |-> me[p].lead, campaign |-> me[p].campaign, status |-> "QUEUED",
                        known |-> FALSE, startedAt |-> Null, credits |-> 1,
                        line |-> "none", dialledAt |-> Null, late |-> {}]
    BY <1>8, <1>s, <1>t, <2>0, HasInHand, CreateCallDoes
  <2>2. DOMAIN calls' = DOMAIN calls \union {n} /\ n \notin DOMAIN calls /\ calls'[n].line = "none"
    BY <1>t, <2>0, <2>1, Typed
  <2>3. \A c \in DOMAIN calls : KeepsDial(c)
    BY <2>1 DEF KeepsDial, KeepsOrder
  <2>4. \A c \in DOMAIN calls' : RowKnows(c)'
    <3>1. \A c \in DOMAIN calls : RowKnows(c)'
      BY <1>i, <1>t, <2>1, <2>3, RowKept
    <3> QED
      BY <2>2, <3>1 DEF RowKnows
  <2>5. \A c \in DOMAIN calls' : PassKnows(p, c)'
    <3>1. \A c \in DOMAIN calls : PassKnows(p, c)'
      BY <1>i, <1>t, <2>1, <2>3, HandKnows DEF KeepsReads, InHand, PastGate, Holding
    <3> QED
      BY <2>2, <3>1 DEF PassKnows
  <2>6. RetrySpacing'
    <3>1. \A l \in Leads : Dialled(l)' = Dialled(l)
      BY <2>2, <2>3 DEF Dialled, KeepsDial, KeepsOrder
    <3> QED
      BY <1>t, <2>3, <3>1 DEF RetrySpacing, KeepsDial, Dialled
  <2>7. \A q \in Passes : q = p
    BY <1>s
  <2> QED
    BY <1>t, <2>4, <2>5, <2>6, <2>7 DEF RestInv
<1>9. ASSUME NEW p \in Passes, Dial(p) PROVE RestInv'
  <2>0. PICK c \in DOMAIN calls : c = me[p].call
    BY <1>9, <1>s, <1>t, HasInHand
  <2>1. /\ KeepsCall(p) /\ KeepsReads(p) /\ me[p].pc = "dial" /\ UNCHANGED <<now, member>>
        /\ \/ /\ me'[p].pc = "started" /\ OnlyWrites(c) /\ KeepsOrder(c)
              /\ calls'[c].line = "live" /\ calls'[c].dialledAt = now
           \/ me'[p].pc = "refund" /\ calls' = calls
    BY <1>9, <1>s, <1>t, <2>0, HasInHand, DialDoes
  <2>2. /\ me'[p].lead = me[p].lead /\ me'[p].call = c /\ me'[p].batch = me[p].batch /\ me'[p].pc \in Holding
    BY <2>0, <2>1 DEF KeepsCall, KeepsReads, Holding
  <2>3. CASE me'[p].pc = "refund" /\ calls' = calls
    <3>1. \A d \in DOMAIN calls : PassKnows(p, d)'
      BY <1>i, <1>k, <1>t, <2>0, <2>1, <2>2, <2>3, HandKnows DEF InHand, PastGate, Holding
    <3> QED
      BY <1>k, <1>p, <2>1, <2>3, <3>1
  <2>4. CASE me'[p].pc = "started" /\ OnlyWrites(c) /\ KeepsOrder(c) /\ calls'[c].dialledAt = now
    <3>1. DOMAIN calls' = DOMAIN calls /\ calls'[c].lead = calls[c].lead /\ (\A d \in DOMAIN calls \ {c} : calls'[d] = calls[d])
      BY <2>4 DEF OnlyWrites, KeepsOrder
    <3>2. \A d \in DOMAIN calls \ {c} : KeepsDial(d)
      BY <3>1 DEF KeepsDial, KeepsOrder
    <3>3. /\ me[p].lead \notin me[p].batch /\ member[me[p].lead].state = "IN_PROGRESS" /\ calls[c].lead = me[p].lead
          /\ c = Len(calls) /\ DOMAIN calls = 1 .. Len(calls) /\ Len(calls) \in Nat
      BY <1>s, <1>t, <2>0, <2>1, Typed DEF ClaimInv, PassClaims, CallsInv, SoundHand, InHand, PastGate, Holding
    <3>4. \A d \in DOMAIN calls' : RowKnows(d)'
      <4>1. \A d \in DOMAIN calls \ {c} : RowKnows(d)'
        BY <1>i, <1>t, <2>1, <3>2, RowKept
      <4>2. RowKnows(c)'
        BY <2>1, <3>1, <3>3 DEF RowKnows
      <4> QED
        BY <3>1, <4>1, <4>2
    <3>5. \A d \in DOMAIN calls' : PassKnows(p, d)'
      <4>1. \A d \in DOMAIN calls \ {c} : PassKnows(p, d)'
        BY <1>i, <1>t, <2>0, <2>1, <2>2, <3>2, HandKnows DEF InHand, PastGate, Holding
      <4>2. PassKnows(p, c)'
        BY <2>2, <3>1, <3>3 DEF PassKnows
      <4> QED
        BY <3>1, <4>1, <4>2
    <3>6. RetrySpacing'
      <4> SUFFICES ASSUME NEW l \in Leads, NEW b \in Dialled(l)', NEW d \in Dialled(l)', b < d
                   PROVE  calls'[d].dialledAt - calls'[b].dialledAt >= RetryDelay
        BY DEF RetrySpacing
      <4>1. b \in DOMAIN calls /\ d \in DOMAIN calls /\ calls'[b].lead = l /\ calls'[d].lead = l /\ calls'[b].campaign
            /\ calls'[d].campaign /\ calls'[b].line # "none" /\ calls'[d].line # "none"
        BY <3>1 DEF Dialled
      <4>2. b # c /\ b \in Dialled(l) /\ calls'[b] = calls[b]
        <5>1. b # c
          BY <3>3, <4>1
        <5> QED
          BY <3>1, <4>1, <5>1 DEF Dialled
      <4>3. CASE d # c
        <5>1. d \in Dialled(l) /\ calls'[d] = calls[d]
          BY <3>1, <4>1, <4>3 DEF Dialled
        <5> QED
          BY <1>t, <4>2, <5>1 DEF RetrySpacing
      <4>4. CASE d = c
        <5>1. calls[b].lead = me[p].lead /\ calls[b].line # "none" /\ calls[b].dialledAt \in Nat
          BY <1>d, <3>1, <3>3, <4>1, <4>2, <4>4
        <5>2. Rested(b)
          BY <1>i, <2>0, <2>1, <4>1, <4>2, <5>1 DEF PassKnows, InHand, PastGate, Holding
        <5> QED
          BY <1>d, <2>4, <4>2, <4>4, <5>1, <5>2 DEF Rested
      <4> QED
        BY <4>3, <4>4
    <3>7. \A q \in Passes : q = p
      BY <1>s
    <3> QED
      BY <1>t, <3>4, <3>5, <3>6, <3>7 DEF RestInv
  <2> QED
    BY <2>1, <2>3, <2>4
<1>10. ASSUME NEW p \in Passes, Refund(p) \/ MarkStarted(p) PROVE RestInv'
  <2>0. PICK c \in DOMAIN calls : c = me[p].call
    BY <1>10, <1>s, <1>t, HasInHand
  <2>1. /\ KeepsCall(p) /\ KeepsReads(p) /\ me[p].pc \in {"refund", "started"} /\ me'[p].pc \in Holding
        /\ UNCHANGED <<now, member>>
        /\ calls' = calls \/ (OnlyWrites(c) /\ KeepsDial(c))
    BY <1>10, <1>s, <1>t, <2>0, HasInHand, RefundDoes, MarkStartedDoes DEF Holding, KeepsDial
  <2>2. DOMAIN calls' = DOMAIN calls /\ \A d \in DOMAIN calls : KeepsDial(d)
    BY <1>k, <1>w, <2>1
  <2>3. \A d \in DOMAIN calls : PassKnows(p, d)'
    BY <1>i, <1>t, <2>0, <2>1, <2>2, HandKnows DEF KeepsCall, KeepsReads, InHand, PastGate, Holding
  <2> QED
    BY <1>p, <2>1, <2>2, <2>3
<1>11. ASSUME NEW p \in Passes, MarkFailed(p) PROVE RestInv'
  <2>0. PICK c \in DOMAIN calls : c = me[p].call
    BY <1>11, <1>s, <1>t, HasInHand
  <2>1. /\ KeepsReads(p) /\ me[p].pc = "failed" /\ me'[p].lead = me[p].lead
        /\ UNCHANGED <<now, member>> /\ OnlyWrites(c) /\ KeepsDial(c)
    BY <1>11, <1>s, <1>t, <2>0, HasInHand, MarkFailedDoes DEF KeepsDial
  <2>2. DOMAIN calls' = DOMAIN calls /\ \A d \in DOMAIN calls : KeepsDial(d)
    BY <1>w, <2>1
  <2>3. calls[c].line = "none"
    BY <1>s, <1>t, <2>0, <2>1 DEF CallsInv, SoundHand
  <2>4. \A d \in DOMAIN calls : PassKnows(p, d)'
    BY <1>i, <1>t, <2>0, <2>1, <2>2, <2>3, HandKnows DEF KeepsReads, InHand, PastGate, Holding
  <2> QED
    BY <1>p, <2>1, <2>2, <2>4
<1>12. ASSUME NEW p \in Passes, RecordAttempt(p) PROVE RestInv'
  <2>1. /\ KeepsReads(p) /\ me[p].pc = "record" /\ me'[p].pc \notin InHand /\ OnlySettles(me[p].lead) /\ UNCHANGED <<now, calls>>
        /\ ~me[p].campaign \/ member'[me[p].lead].state = "IN_PROGRESS"
    BY <1>12, <1>s, <1>t, HasInHand, RecordAttemptDoes DEF NextLead, InHand, PastGate, Holding
  <2>2. me[p].campaign /\ me[p].lead \notin me[p].batch
    BY <1>t, <2>1 DEF ClaimInv, PassClaims, InHand, PastGate, Holding
  <2>3. \A l \in Leads : member'[l] = member[l] \/ member'[l].state # "PENDING"
    BY <2>1, <2>2 DEF OnlySettles
  <2>4. \A l \in Leads : l \in me'[p].batch => member'[l].lastAttemptAt = member[l].lastAttemptAt
    BY <2>1, <2>2 DEF OnlySettles, KeepsReads
  <2> QED
    BY <1>d, <1>k, <1>q, <2>1, <2>3, <2>4 DEF KeepsReads
<1>13. ASSUME NEW p \in Passes, ReleaseClaim(p) PROVE RestInv'
  <2>0. me[p].pc = "unclaim" /\ me[p].lead \in Leads
    BY <1>13, <1>s, <1>t DEF ReleaseClaim, At, HandsFull, InHand
  <2>1. /\ UNCHANGED <<now, calls>> /\ me'[p].pc \notin InHand /\ me'[p].batch \subseteq me[p].batch
        /\ \A l \in Leads : member'[l].lastAttemptAt = member[l].lastAttemptAt /\ (l # me[p].lead => member'[l] = member[l])
    BY <1>13, <1>h, <1>t, <2>0, ReleaseClaimDoes DEF OnlySettles, InHand, PastGate, Holding
  <2>2. ASSUME NEW c \in DOMAIN calls, calls[c].lead = me[p].lead PROVE RowKnows(c)'
    <3>1. calls[c].line # "none" => Rested(c) \/ Marked(c)
      BY <1>i, <2>0, <2>2 DEF PassKnows, InHand, Holding
    <3>2. calls[c].line # "none" => Rested(c)' \/ Marked(c)'
      BY <1>d, <1>k, <1>t, <2>1, <3>1, StaysRested
    <3> QED
      BY <2>1, <3>2 DEF RowKnows
  <2> QED
    BY <1>d, <1>k, <1>q, <2>1, <2>2
<1>14. ASSUME NEW c \in DOMAIN calls, Poll(c) \/ LineEnds(c) \/ HangUp(c) PROVE RestInv'
  <2>1. /\ UNCHANGED <<now, me>> /\ DOMAIN calls' = DOMAIN calls /\ \A d \in DOMAIN calls : KeepsDial(d)
        /\ \A l \in Leads : /\ member'[l].lastAttemptAt = member[l].lastAttemptAt
                            /\ \/ member'[l] = member[l]
                               \/ member'[l].state # "PENDING"
                               \/ member'[l].nextAttemptAt = now + RetryDelay
    <3>1. CASE Poll(c)
      BY <1>t, <1>y, <3>1, PollDoes
    <3>2. CASE LineEnds(c) \/ HangUp(c)
      <4>1. UNCHANGED <<now, member, me>> /\ OnlyWrites(c) /\ KeepsDial(c)
        BY <1>t, <3>2, LineEndsDoes, HangUpDoes DEF KeepsDial
      <4> QED
        BY <1>w, <4>1
    <3> QED
      BY <1>14, <3>1, <3>2
  <2>2. \A d \in DOMAIN calls' : RowKnows(d)'
    BY <1>d, <1>i, <1>t, <2>1, RowKept
  <2>3. ASSUME NEW p \in Passes, NEW d \in DOMAIN calls PROVE PassKnows(p, d)'
    <3>1. calls'[d].lead = calls[d].lead /\ (calls'[d].line # "none" => calls[d].line # "none") /\ PassKnows(p, d)
      BY <1>i, <2>1 DEF KeepsDial, KeepsOrder
    <3>2. calls[d].line # "none" => (Rested(d) => Rested(d)') /\ (Marked(d) => Marked(d)')
      BY <1>d, <1>t, <2>1, StaysRested
    <3> QED
      BY <2>1, <3>1, <3>2 DEF PassKnows
  <2>4. RetrySpacing'
    BY <1>t, <2>1, SpacingKept
  <2> QED
    BY <1>t, <2>1, <2>2, <2>3, <2>4 DEF RestInv
<1>15. CASE Pause \/ Resume \/ (\E l \in Leads : FlagDoNotCall(l)) \/ Tick \/ UNCHANGED vars
  <2>1. UNCHANGED <<calls, me, member>> /\ now' \in {now, now + 1}
    BY <1>15, <1>t, WorldDoes
  <2>2. ASSUME NEW c \in DOMAIN calls, calls[c].line # "none"
        PROVE  (Rested(c) => Rested(c)') /\ (Marked(c) <=> Marked(c)') /\ (Noted(c) <=> Noted(c)')
    BY <1>d, <2>1, <2>2 DEF Rested, Marked, Noted
  <2>3. (\A c \in DOMAIN calls' : RowKnows(c)') /\ \A p \in Passes, c \in DOMAIN calls' : PassKnows(p, c)'
    BY <1>i, <2>1, <2>2 DEF RowKnows, PassKnows
  <2>4. RetrySpacing'
    BY <1>k, <1>t, <2>1, SpacingKept
  <2> QED
    BY <1>t, <2>3, <2>4 DEF RestInv
<1> QED
  BY <1>1, <1>2, <1>3, <1>4, <1>5, <1>6, <1>7, <1>8, <1>9, <1>10, <1>11, <1>12, <1>13, <1>14, <1>15, <1>s
     DEF Next, PassStep, PlaceCallStep

(* A pass that has the campaign to itself never dials a lead again before    *)
(* the retry delay is over, also when a crash kept the first call from being *)
(* recorded or a hang-up ended it.                                           *)
THEOREM AloneRetriesLate == ASSUME Alone PROVE Spec => []RetrySpacing
<1>1. Init => RestInv
  <2> SUFFICES ASSUME Init PROVE RestInv
    OBVIOUS
  <2>1. DOMAIN calls = {}
    BY DEF Init
  <2> QED
    BY <2>1, ClaimInvInit DEF RestInv, RetrySpacing, Dialled
<1>2. RestInv /\ [Next]_vars => RestInv'
  BY RestInvStep
<1>3. RestInv => RetrySpacing
  BY DEF RestInv
<1> QED
  BY <1>1, <1>2, <1>3, PTL DEF Spec
===============================================================================
