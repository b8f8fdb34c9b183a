---------------------------- MODULE CallSyncProofs ----------------------------
(***************************************************************************)
(* What holds of CallSync for every set of syncers, every wallet and any   *)
(* number of crashes and hang-ups.                                         *)
(***************************************************************************)
EXTENDS CallSync, TLAPS

-------------------------------------------------------------------------------
(* Types *)

LEMMA IdleIsState == Ringing \in Lines /\ Idle \in SyncerStates
<1>1. Ringing \in Lines
  BY DEF Ringing, Lines, LiveStates
<1> QED
  BY <1>1 DEF Idle, SyncerStates, Steps

\* What a syncer's moves leave of me.
LEMMA Moves ==
    ASSUME TypeOK, NEW s \in Syncers, NEW record \in SyncerStates, me' = [me EXCEPT ![s] = record]
    PROVE  me' \in [Syncers -> SyncerStates]
BY DEF TypeOK

LEMMA GotoMoves ==
    ASSUME TypeOK, NEW s \in Syncers, NEW step \in Steps, Goto(s, step)
    PROVE  me' \in [Syncers -> SyncerStates]
<1>1. me[s] \in SyncerStates
  BY DEF TypeOK
<1>2. [me[s] EXCEPT !.pc = step] \in SyncerStates
  BY <1>1 DEF SyncerStates
<1>3. me' = [me EXCEPT ![s] = [me[s] EXCEPT !.pc = step]]
  BY DEF Goto
<1> QED
  BY <1>2, <1>3, Moves

LEMMA LeaveMoves ==
    ASSUME TypeOK, NEW s \in Syncers, Leave(s)
    PROVE  me' \in [Syncers -> SyncerStates]
BY IdleIsState, Moves DEF Leave

LEMMA TypeInit == Init => TypeOK
<1> SUFFICES ASSUME Init PROVE TypeOK
  OBVIOUS
<1>1. line \in Lines /\ me \in [Syncers -> SyncerStates]
  BY IdleIsState DEF Init
<1>2. call \in CallRows
  BY DEF Init, CallRows, LiveStates
<1>3. balance \in Nat
  BY SyncAssumption DEF SyncAssumption, Init
<1> QED
  BY <1>1, <1>2, <1>3 DEF Init, TypeOK

LEMMA TypeStep == TypeOK /\ [Next]_vars => TypeOK'
<1> SUFFICES ASSUME TypeOK, [Next]_vars PROVE TypeOK'
  OBVIOUS
<1> USE DEF money, results, others, disturbances
<1>1. ASSUME NEW s \in Syncers, ReadCall(s) PROVE TypeOK'
  <2>1. me[s] \in SyncerStates /\ call.credits \in {0, 1}
    BY DEF TypeOK, CallRows
  <2>2. [me[s] EXCEPT !.pc = "ask", !.credits = call.credits] \in SyncerStates
    BY <2>1 DEF SyncerStates, Steps
  <2>3. me' = [me EXCEPT ![s] = [me[s] EXCEPT !.pc = "ask", !.credits = call.credits]]
    BY <1>1 DEF ReadCall, TypeOK
  <2>4. me' \in [Syncers -> SyncerStates]
    BY <2>2, <2>3, Moves
  <2> QED
    BY <1>1, <2>4 DEF ReadCall, TypeOK
<1>2. ASSUME NEW s \in Syncers, AskProvider(s) PROVE TypeOK'
  <2>1. me[s] \in SyncerStates /\ line \in Lines
    BY DEF TypeOK
  <2>2. [me[s] EXCEPT !.pc = "write", !.answer = line] \in SyncerStates
    BY <2>1 DEF SyncerStates, Steps
  <2>3. me' = [me EXCEPT ![s] = [me[s] EXCEPT !.pc = "write", !.answer = line]]
    BY <1>2 DEF AskProvider, TypeOK
  <2>4. me' \in [Syncers -> SyncerStates]
    BY <2>2, <2>3, Moves
  <2> QED
    BY <1>2, <2>4 DEF AskProvider, TypeOK
<1>3. ASSUME NEW s \in Syncers, WriteStatus(s) PROVE TypeOK'
  <2>1. AfterWrite(me[s].answer, me[s].credits) \in Steps
    BY DEF AfterWrite, Steps
  <2>2. me' \in [Syncers -> SyncerStates]
    BY <1>3, <2>1, GotoMoves, LeaveMoves DEF WriteStatus
  <2>3. call' \in CallRows
    BY <1>3 DEF WriteStatus, TypeOK, CallRows, SyncerStates, Lines
  <2> QED
    BY <1>3, <2>2, <2>3 DEF WriteStatus, TypeOK
<1>4. ASSUME NEW s \in Syncers, Refund(s) PROVE TypeOK'
  <2>1. me' \in [Syncers -> SyncerStates]
    BY <1>4, GotoMoves DEF Refund, Steps
  <2> QED
    BY <1>4, <2>1 DEF Refund, TypeOK
<1>5. ASSUME NEW s \in Syncers, ZeroCredits(s) PROVE TypeOK'
  <2>1. me' \in [Syncers -> SyncerStates]
    BY <1>5, GotoMoves DEF ZeroCredits, Steps
  <2>2. call' \in CallRows
    BY <1>5 DEF ZeroCredits, CreditsAfterRefund, TypeOK, CallRows
  <2> QED
    BY <1>5, <2>1, <2>2 DEF ZeroCredits, TypeOK
<1>6. ASSUME NEW s \in Syncers, LookForRecording(s) \/ CreateRecording(s) \/ Transcribe(s) PROVE TypeOK'
  <2>1. me' \in [Syncers -> SyncerStates]
    BY <1>6, GotoMoves, LeaveMoves DEF LookForRecording, CreateRecording, Transcribe, Steps
  <2> QED
    BY <1>6, <2>1 DEF LookForRecording, CreateRecording, Transcribe, TypeOK
<1>7. ASSUME NEW s \in Syncers, Bill(s) PROVE TypeOK'
  <2>1. me' \in [Syncers -> SyncerStates]
    BY <1>7, GotoMoves DEF Bill, Steps
  <2> QED
    BY <1>7, <2>1 DEF Bill, Affordable, TypeOK
<1>8. ASSUME NEW s \in Syncers, CreateTranscript(s) \/ CreateSegments(s) PROVE TypeOK'
  <2>1. me' \in [Syncers -> SyncerStates]
    BY <1>8, GotoMoves, LeaveMoves DEF CreateTranscript, CreateSegments, Steps
  <2> QED
    BY <1>8, <2>1 DEF CreateTranscript, CreateSegments, TypeOK
<1>9. ASSUME NEW s \in Syncers, SettleLead(s) \/ LookForNotice(s) PROVE TypeOK'
  <2>1. me' \in [Syncers -> SyncerStates]
    BY <1>9, GotoMoves DEF SettleLead, LookForNotice, Steps
  <2> QED
    BY <1>9, <2>1 DEF SettleLead, MemberAfter, LookForNotice, TypeOK
<1>10. ASSUME NEW s \in Syncers, CreateNotice(s) \/ EmitCompleted(s) \/ Crash(s) PROVE TypeOK'
  <2>1. me' \in [Syncers -> SyncerStates]
    BY <1>10, GotoMoves, LeaveMoves DEF CreateNotice, EmitCompleted, Crash, Steps
  <2>2. CASE CreateNotice(s)
    BY <2>1, <2>2 DEF CreateNotice, TypeOK
  <2>3. CASE EmitCompleted(s)
    BY <2>1, <2>3 DEF EmitCompleted, TypeOK
  <2>4. CASE Crash(s)
    BY <2>1, <2>4 DEF Crash, TypeOK
  <2> QED
    BY <1>10, <2>2, <2>3, <2>4
<1>11. CASE LineMoves
  <2>1. Successors(line.state) \subseteq LiveStates \union Terminal
    BY DEF Successors, LiveStates, Terminal
  <2>2. line' \in Lines
    BY <1>11, <2>1 DEF LineMoves, Lines
  <2> QED
    BY <1>11, <2>2 DEF LineMoves, TypeOK
<1>12. CASE RecordingReady
  BY <1>12 DEF RecordingReady, TypeOK, Lines
<1>13. CASE HangUpLine
  <2>1. line' \in Lines
    BY <1>13 DEF HangUpLine, TypeOK, Lines, Terminal
  <2> QED
    BY <1>13, <2>1 DEF HangUpLine, TypeOK
<1>14. CASE HangUpRow
  <2>1. call' \in CallRows
    BY <1>14 DEF HangUpRow, TypeOK, CallRows, Terminal
  <2> QED
    BY <1>14, <2>1 DEF HangUpRow, TypeOK
<1>15. CASE UNCHANGED vars
  BY <1>15 DEF vars, TypeOK
<1> QED
  BY <1>1, <1>2, <1>3, <1>4, <1>5, <1>6, <1>7, <1>8, <1>9, <1>10, <1>11, <1>12, <1>13, <1>14, <1>15
     DEF Next, SyncStep

(* Every variable keeps its type; in particular the wallet is never          *)
(* overdrawn by a transcription, whoever else syncs the call.                *)
THEOREM TypesHold == Spec => []TypeOK
  BY TypeInit, TypeStep, PTL DEF Spec

-------------------------------------------------------------------------------
(* Refunds *)

\* An answer that says the call is over agrees with the line for good.
AnswersAgree ==
    \A s \in Syncers :
       me[s].answer.state \in Terminal =>
          me[s].answer.state = line.state /\ me[s].answer.talked = line.talked

\* Who is about to refund, or has just done so, was told of a call that did not connect.
RefundersWereTold ==
    \A s \in Syncers :
       me[s].pc \in {"refund", "zero"} => me[s].answer.state \in Terminal /\ ~Connected(me[s].answer)

\* A refund is for a call that is over and did not connect.
RefundsWereDue == refunds > 0 => line.state \in Terminal /\ ~Connected(line)

RefundInv == TypeOK /\ AnswersAgree /\ RefundersWereTold /\ RefundsWereDue

\* A syncer that goes somewhere else keeps what it has read.
LEMMA GotoAt ==
    ASSUME TypeOK, NEW s \in Syncers, NEW step, Goto(s, step)
    PROVE  /\ me'[s].pc = step /\ me'[s].answer = me[s].answer /\ me'[s].credits = me[s].credits
           /\ \A t \in Syncers \ {s} : me'[t] = me[t]
<1>1. me \in [Syncers -> SyncerStates] /\ me[s] \in SyncerStates
  BY DEF TypeOK
<1> QED
  BY <1>1 DEF Goto, SyncerStates

LEMMA LeaveAt ==
    ASSUME TypeOK, NEW s \in Syncers, Leave(s)
    PROVE  me'[s] = Idle /\ \A t \in Syncers \ {s} : me'[t] = me[t]
BY DEF TypeOK, Leave

\* The rest of a sync, and a crash, refund nothing and go on to something other than a refund.
LEMMA GoesOn ==
    ASSUME NEW s \in Syncers,
           \/ ZeroCredits(s) \/ LookForRecording(s) \/ CreateRecording(s) \/ Transcribe(s) \/ Bill(s)
           \/ CreateTranscript(s) \/ CreateSegments(s) \/ SettleLead(s) \/ LookForNotice(s)
           \/ CreateNotice(s) \/ EmitCompleted(s) \/ Crash(s)
    PROVE  /\ UNCHANGED <<line, refunds>>
           /\ Leave(s) \/ \E step \in Steps \ {"refund", "zero"} : Goto(s, step)
<1> USE DEF others, money, results, Steps
<1>1. CASE ZeroCredits(s) \/ LookForRecording(s)
  BY <1>1 DEF ZeroCredits, LookForRecording
<1>2. CASE CreateRecording(s) \/ Transcribe(s)
  BY <1>2 DEF CreateRecording, Transcribe
<1>3. CASE Bill(s) \/ CreateTranscript(s)
  BY <1>3 DEF Bill, CreateTranscript
<1>4. CASE CreateSegments(s) \/ SettleLead(s)
  BY <1>4 DEF CreateSegments, SettleLead
<1>5. CASE LookForNotice(s) \/ CreateNotice(s)
  BY <1>5 DEF LookForNotice, CreateNotice
<1>6. CASE EmitCompleted(s) \/ Crash(s)
  BY <1>6 DEF EmitCompleted, Crash
<1> QED
  BY <1>1, <1>2, <1>3, <1>4, <1>5, <1>6

LEMMA RefundInit == Init => RefundInv
<1> SUFFICES ASSUME Init PROVE RefundInv
  OBVIOUS
<1>1. \A s \in Syncers : me[s].pc = "idle" /\ me[s].answer.state \notin Terminal
  BY DEF Init, Idle, Ringing, Terminal
<1>2. AnswersAgree /\ RefundersWereTold
  BY <1>1 DEF AnswersAgree, RefundersWereTold
<1>3. RefundsWereDue
  BY DEF Init, RefundsWereDue
<1> QED
  BY <1>2, <1>3, TypeInit DEF RefundInv

LEMMA RefundStep == RefundInv /\ [Next]_vars => RefundInv'
<1> SUFFICES ASSUME RefundInv, [Next]_vars PROVE RefundInv'
  OBVIOUS
<1> USE DEF RefundInv
<1>t. TypeOK'
  BY TypeStep
<1> SUFFICES AnswersAgree' /\ RefundersWereTold' /\ RefundsWereDue'
  BY <1>t
<1>i. Idle.pc = "idle" /\ Idle.answer.state \notin Terminal
  BY DEF Idle, Ringing, Terminal
<1>1. ASSUME NEW s \in Syncers, ReadCall(s)
      PROVE  AnswersAgree' /\ RefundersWereTold' /\ RefundsWereDue'
  <2>1. me'[s].pc = "ask" /\ me'[s].answer = me[s].answer /\ \A t \in Syncers \ {s} : me'[t] = me[t]
    BY <1>1 DEF ReadCall, TypeOK, SyncerStates
  <2>2. UNCHANGED <<line, refunds>>
    BY <1>1 DEF ReadCall, money
  <2> QED
    BY <2>1, <2>2 DEF AnswersAgree, RefundersWereTold, RefundsWereDue, Connected
<1>2. ASSUME NEW s \in Syncers, AskProvider(s)
      PROVE  AnswersAgree' /\ RefundersWereTold' /\ RefundsWereDue'
  <2>1. me'[s].pc = "write" /\ me'[s].answer = line /\ \A t \in Syncers \ {s} : me'[t] = me[t]
    BY <1>2 DEF AskProvider, TypeOK, SyncerStates
  <2>2. UNCHANGED <<line, refunds>>
    BY <1>2 DEF AskProvider, money, others
  <2> QED
    BY <2>1, <2>2 DEF AnswersAgree, RefundersWereTold, RefundsWereDue, Connected
<1>3. ASSUME NEW s \in Syncers, WriteStatus(s)
      PROVE  AnswersAgree' /\ RefundersWereTold' /\ RefundsWereDue'
  <2>1. UNCHANGED <<line, refunds>>
    BY <1>3 DEF WriteStatus, money, others
  <2>2. CASE AfterWrite(me[s].answer, me[s].credits) = "idle"
    <3>1. me'[s] = Idle /\ \A t \in Syncers \ {s} : me'[t] = me[t]
      BY <1>3, <2>2, LeaveAt DEF WriteStatus
    <3> QED
      BY <2>1, <3>1, <1>i DEF AnswersAgree, RefundersWereTold, RefundsWereDue, Connected
  <2>3. CASE AfterWrite(me[s].answer, me[s].credits) # "idle"
    <3>1. /\ me'[s].pc = AfterWrite(me[s].answer, me[s].credits) /\ me'[s].answer = me[s].answer
          /\ \A t \in Syncers \ {s} : me'[t] = me[t]
      BY <1>3, <2>3, GotoAt DEF WriteStatus
    <3>2. AfterWrite(me[s].answer, me[s].credits) \in {"refund", "zero"}
             => me[s].answer.state \in Terminal /\ ~Connected(me[s].answer)
      BY DEF AfterWrite
    <3> QED
      BY <2>1, <3>1, <3>2 DEF AnswersAgree, RefundersWereTold, RefundsWereDue, Connected
  <2> QED
    BY <2>2, <2>3
<1>4. ASSUME NEW s \in Syncers, Refund(s)
      PROVE  AnswersAgree' /\ RefundersWereTold' /\ RefundsWereDue'
  <2>1. me[s].pc = "refund" /\ line' = line
    BY <1>4 DEF Refund, At, others
  <2>2. /\ me'[s].pc = "zero" /\ me'[s].answer = me[s].answer
        /\ \A t \in Syncers \ {s} : me'[t] = me[t]
    BY <1>4, GotoAt DEF Refund
  <2>3. line.state \in Terminal /\ ~Connected(line)
    BY <2>1 DEF RefundersWereTold, AnswersAgree, Connected
  <2> QED
    BY <2>1, <2>2, <2>3 DEF AnswersAgree, RefundersWereTold, RefundsWereDue, Connected
<1>5. ASSUME NEW s \in Syncers,
             \/ ZeroCredits(s) \/ LookForRecording(s) \/ CreateRecording(s) \/ Transcribe(s) \/ Bill(s)
             \/ CreateTranscript(s) \/ CreateSegments(s) \/ SettleLead(s) \/ LookForNotice(s)
             \/ CreateNotice(s) \/ EmitCompleted(s) \/ Crash(s)
      PROVE  AnswersAgree' /\ RefundersWereTold' /\ RefundsWereDue'
  <2>1. UNCHANGED <<line, refunds>>
    BY <1>5, GoesOn
  <2>2. CASE Leave(s)
    <3>1. me'[s] = Idle /\ \A t \in Syncers \ {s} : me'[t] = me[t]
      BY <2>2, LeaveAt
    <3> QED
      BY <2>1, <3>1, <1>i DEF AnswersAgree, RefundersWereTold, RefundsWereDue, Connected
  <2>3. ASSUME NEW step \in Steps \ {"refund", "zero"}, Goto(s, step)
        PROVE  AnswersAgree' /\ RefundersWereTold' /\ RefundsWereDue'
    <3>1. me'[s].pc = step /\ me'[s].answer = me[s].answer /\ \A t \in Syncers \ {s} : me'[t] = me[t]
      BY <2>3, GotoAt
    <3> QED
      BY <2>1, <2>3, <3>1 DEF AnswersAgree, RefundersWereTold, RefundsWereDue, Connected
  <2> QED
    BY <1>5, GoesOn, <2>2, <2>3
<1>6. ASSUME UNCHANGED <<me, refunds>>, line.state \notin Terminal
      PROVE  AnswersAgree' /\ RefundersWereTold' /\ RefundsWereDue'
  BY <1>6 DEF AnswersAgree, RefundersWereTold, RefundsWereDue, Connected
<1>7. ASSUME UNCHANGED <<me, refunds>>, line'.state = line.state, line'.talked = line.talked
      PROVE  AnswersAgree' /\ RefundersWereTold' /\ RefundsWereDue'
  BY <1>7 DEF AnswersAgree, RefundersWereTold, RefundsWereDue, Connected
<1>8. CASE LineMoves
  <2>1. line.state \notin Terminal
    BY <1>8 DEF LineMoves, Successors, Terminal
  <2> QED
    BY <1>6, <1>8, <2>1 DEF LineMoves, money
<1>9. CASE RecordingReady
  BY <1>7, <1>9 DEF RecordingReady, money, TypeOK, Lines
<1>10. CASE HangUpLine
  <2>1. line.state \in Terminal => line' = line
    BY <1>10 DEF HangUpLine, Terminal
  <2> QED
    BY <1>6, <1>7, <1>10, <2>1 DEF HangUpLine, money
<1>11. CASE HangUpRow
  BY <1>7, <1>11 DEF HangUpRow, money
<1>12. CASE UNCHANGED vars
  BY <1>7, <1>12 DEF vars
<1> QED
  BY <1>1, <1>2, <1>3, <1>4, <1>5, <1>8, <1>9, <1>10, <1>11, <1>12 DEF Next, SyncStep

(* A call on which people talked is never refunded, whoever syncs it, dies   *)
(* doing so or hangs up, in whatever order the answers arrive.               *)
THEOREM TalkIsPaidFor == Spec => []ConnectedIsNotRefunded
<1>1. RefundInv => ConnectedIsNotRefunded
  BY DEF RefundInv, RefundsWereDue, ConnectedIsNotRefunded
<1> QED
  BY <1>1, RefundInit, RefundStep, PTL DEF Spec

-------------------------------------------------------------------------------
(* What the call says it cost *)

\* The ledger and the call's own row differ only between a refund and the update that follows it.
CostInv ==
    /\ TypeOK
    /\ \A s \in Syncers : At(s, "zero") => refunds > 0
    /\ call.credits = 0 => refunds > 0
    /\ crashes = 0 /\ refunds > 0 => call.credits = 0 \/ \E s \in Syncers : At(s, "zero")

\* A syncer that is not at "zero" and does not go there leaves CostInv alone, save for the money.
LEMMA CostKept ==
    ASSUME CostInv, TypeOK', NEW s \in Syncers, ~At(s, "zero") \/ crashes' # 0,
           me'[s].pc # "zero", \A t \in Syncers \ {s} : me'[t] = me[t],
           refunds' = refunds, call'.credits = call.credits, crashes' \in {crashes, crashes + 1}
    PROVE  CostInv'
<1>1. crashes' = 0 => crashes = 0
  BY DEF CostInv, TypeOK
<1>2. \A t \in Syncers : At(t, "zero")' => At(t, "zero")
  BY DEF At
<1>3. crashes' = 0 /\ (\E t \in Syncers : At(t, "zero")) => \E t \in Syncers : At(t, "zero")'
  BY DEF At
<1> QED
  BY <1>1, <1>2, <1>3 DEF CostInv

LEMMA CostInit == Init => CostInv
<1> SUFFICES ASSUME Init PROVE CostInv
  OBVIOUS
<1>1. \A s \in Syncers : ~At(s, "zero")
  BY DEF Init, Idle, At
<1>2. call.credits = 1 /\ refunds = 0
  BY DEF Init
<1> QED
  BY <1>1, <1>2, TypeInit DEF CostInv

LEMMA CostStep == CostInv /\ [Next]_vars => CostInv'
<1> SUFFICES ASSUME CostInv, [Next]_vars PROVE CostInv'
  OBVIOUS
<1>t. TypeOK /\ TypeOK'
  BY TypeStep DEF CostInv
<1> USE <1>t
<1> USE DEF money, results, others, disturbances
<1>1. ASSUME NEW s \in Syncers, ReadCall(s) PROVE CostInv'
  <2>1. ~At(s, "zero") /\ me'[s].pc # "zero" /\ \A t \in Syncers \ {s} : me'[t] = me[t]
    BY <1>1 DEF ReadCall, At, TypeOK, SyncerStates
  <2> QED
    BY <1>1, <2>1, CostKept DEF ReadCall
<1>2. ASSUME NEW s \in Syncers, AskProvider(s) PROVE CostInv'
  <2>1. ~At(s, "zero") /\ me'[s].pc # "zero" /\ \A t \in Syncers \ {s} : me'[t] = me[t]
    BY <1>2 DEF AskProvider, At, TypeOK, SyncerStates
  <2> QED
    BY <1>2, <2>1, CostKept DEF AskProvider
<1>3. ASSUME NEW s \in Syncers, WriteStatus(s) PROVE CostInv'
  <2>1. AfterWrite(me[s].answer, me[s].credits) # "zero" /\ Idle.pc # "zero"
    BY DEF AfterWrite, Idle
  <2>2. me'[s].pc # "zero" /\ \A t \in Syncers \ {s} : me'[t] = me[t]
    BY <1>3, <2>1, GotoAt, LeaveAt DEF WriteStatus
  <2>3. call'.credits = call.credits /\ ~At(s, "zero")
    BY <1>3 DEF WriteStatus, At, TypeOK, CallRows
  <2> QED
    BY <1>3, <2>2, <2>3, CostKept DEF WriteStatus
<1>4. ASSUME NEW s \in Syncers, Refund(s) PROVE CostInv'
  <2>1. me'[s].pc = "zero" /\ \A t \in Syncers \ {s} : me'[t] = me[t]
    BY <1>4, GotoAt DEF Refund
  <2>2. refunds' > 0
    BY <1>4 DEF Refund, TypeOK
  <2> QED
    BY <2>1, <2>2 DEF CostInv, At
<1>5. ASSUME NEW s \in Syncers, ZeroCredits(s) PROVE CostInv'
  <2>1. At(s, "zero") /\ UNCHANGED <<refunds, crashes>>
    BY <1>5 DEF ZeroCredits
  <2>2. me'[s].pc = "settle" /\ \A t \in Syncers \ {s} : me'[t] = me[t]
    BY <1>5, GotoAt DEF ZeroCredits
  <2>3. call'.credits = 0
    BY <1>5 DEF ZeroCredits, CreditsAfterRefund, TypeOK, CallRows
  <2> QED
    BY <2>1, <2>2, <2>3 DEF CostInv, At
<1>6. ASSUME NEW s \in Syncers,
             \/ LookForRecording(s) \/ CreateRecording(s) \/ Transcribe(s) \/ Bill(s)
             \/ CreateTranscript(s) \/ CreateSegments(s) \/ SettleLead(s) \/ LookForNotice(s)
             \/ CreateNotice(s) \/ EmitCompleted(s) \/ Crash(s)
      PROVE  CostInv'
  <2>1. me'[s].pc # "zero" /\ \A t \in Syncers \ {s} : me'[t] = me[t]
    <3>1. CASE Leave(s)
      BY <3>1, LeaveAt DEF Idle
    <3>2. ASSUME NEW step \in Steps \ {"refund", "zero"}, Goto(s, step)
          PROVE  me'[s].pc # "zero" /\ \A t \in Syncers \ {s} : me'[t] = me[t]
      BY <3>2, GotoAt
    <3> QED
      BY <1>6, GoesOn, <3>1, <3>2
  <2>2. refunds' = refunds
    BY <1>6, GoesOn
  <2>3. CASE LookForRecording(s) \/ CreateRecording(s) \/ Transcribe(s)
    BY <2>1, <2>2, <2>3, CostKept DEF LookForRecording, CreateRecording, Transcribe, At
  <2>4. CASE Bill(s) \/ CreateTranscript(s) \/ CreateSegments(s)
    BY <2>1, <2>2, <2>4, CostKept DEF Bill, CreateTranscript, CreateSegments, At
  <2>5. CASE SettleLead(s) \/ LookForNotice(s)
    BY <2>1, <2>2, <2>5, CostKept DEF SettleLead, LookForNotice, At
  <2>6. CASE CreateNotice(s) \/ EmitCompleted(s)
    BY <2>1, <2>2, <2>6, CostKept DEF CreateNotice, EmitCompleted, At
  <2>7. CASE Crash(s)
    <3>1. crashes' = crashes + 1 /\ call' = call
      BY <2>7 DEF Crash
    <3>2. crashes' # 0
      BY <3>1 DEF TypeOK
    <3> QED
      BY <2>1, <2>2, <3>1, <3>2, CostKept
  <2> QED
    BY <1>6, <2>3, <2>4, <2>5, <2>6, <2>7
<1>7. ASSUME UNCHANGED <<me, refunds, crashes>>, call'.credits = call.credits PROVE CostInv'
  BY <1>7 DEF CostInv, At
<1>8. CASE LineMoves \/ RecordingReady \/ HangUpLine
  BY <1>7, <1>8 DEF LineMoves, RecordingReady, HangUpLine
<1>9. CASE HangUpRow
  <2>1. call'.credits = call.credits
    BY <1>9 DEF HangUpRow, TypeOK, CallRows
  <2> QED
    BY <1>7, <1>9, <2>1 DEF HangUpRow
<1>10. CASE UNCHANGED vars
  BY <1>7, <1>10 DEF vars
<1> QED
  BY <1>1, <1>2, <1>3, <1>4, <1>5, <1>6, <1>8, <1>9, <1>10 DEF Next, SyncStep

(* While nobody dies in a sync, the call says it cost nothing exactly when   *)
(* the ledger gave its charge back, however many sync it at once.            *)
THEOREM CallAgreesWithLedger == Spec => []CostFollowsLedger
<1>1. CostInv => CostFollowsLedger
  BY DEF CostInv, CostFollowsLedger, Quiet, At
<1> QED
  BY <1>1, CostInit, CostStep, PTL DEF Spec

-------------------------------------------------------------------------------
(* Syncers in turn *)

\* Where a syncer is once it has written how the call ended.
Settling == Steps \ {"idle", "ask", "write"}

\* What is still to be done where syncer s is has not been done yet, and the call is over if s settles it.
ItsTurn(s) ==
    /\ me[s].pc \in Settling => call.status \in Terminal
    /\ me[s].pc \in {"ask", "write", "refund"} => refunds = 0
    /\ me[s].pc \in {"ask", "write", "recording", "record", "transcript", "bill"} => transcriptions = 0
    /\ me[s].pc \notin {"idle", "emit"} => notices = 0
    /\ me[s].pc # "idle" => events = 0

NothingYet == refunds = 0 /\ transcriptions = 0 /\ notices = 0 /\ events = 0

\* Nothing is brought about by a call that is not over, and nothing twice.
SettledInTurn == (~NothingYet => call.status \in Terminal) /\ SettledOnce

TurnInv ==
    ~overlapped =>
       /\ \A s, t \in Syncers : s # t => At(s, "idle") \/ At(t, "idle")
       /\ \A s \in Syncers : ItsTurn(s)
       /\ SettledInTurn

\* One syncer is at it and the others are idle: only its own turn has to be looked at.
LEMMA TurnKept ==
    ASSUME NEW s \in Syncers, \A t \in Syncers \ {s} : me'[t].pc = "idle",
           ItsTurn(s)', SettledInTurn'
    PROVE  TurnInv'
<1>1. \A t \in Syncers \ {s} : ItsTurn(t)'
  BY DEF ItsTurn, Settling
<1> QED
  BY <1>1 DEF TurnInv, At

LEMMA TurnInit == Init => TurnInv
<1> SUFFICES ASSUME Init PROVE TurnInv
  OBVIOUS
<1>1. \A s \in Syncers : me[s].pc = "idle"
  BY DEF Init, Idle
<1>2. refunds = 0 /\ transcriptions = 0 /\ notices = 0 /\ events = 0
  BY DEF Init
<1> QED
  BY <1>1, <1>2 DEF TurnInv, At, ItsTurn, SettledInTurn, SettledOnce, NothingYet, Settling

LEMMA TurnStep == TypeOK /\ TurnInv /\ [Next]_vars => TurnInv'
<1> SUFFICES ASSUME TypeOK, TurnInv, [Next]_vars, ~overlapped' PROVE TurnInv'
  BY DEF TurnInv
<1> USE DEF money, results, others, disturbances
<1>o. ~overlapped
  BY DEF Next, SyncStep, ReadCall, AskProvider, WriteStatus, Refund, ZeroCredits, LookForRecording, CreateRecording,
         Transcribe, Bill, CreateTranscript, CreateSegments, SettleLead, LookForNotice, CreateNotice, EmitCompleted,
         Crash, LineMoves, RecordingReady, HangUpLine, HangUpRow, vars, TypeOK
<1>n. refunds \in Nat /\ transcriptions \in Nat /\ notices \in Nat /\ events \in Nat
  BY DEF TypeOK
<1>a. ASSUME NEW s \in Syncers, me[s].pc # "idle", \A t \in Syncers \ {s} : me'[t] = me[t]
      PROVE  \A t \in Syncers \ {s} : me'[t].pc = "idle"
  BY <1>o, <1>a DEF TurnInv, At
<1>b. \A s \in Syncers : ItsTurn(s)
  BY <1>o DEF TurnInv
<1>c. SettledInTurn
  BY <1>o DEF TurnInv
<1>1. ASSUME NEW s \in Syncers, ReadCall(s) PROVE TurnInv'
  <2>1. me'[s].pc = "ask" /\ \A t \in Syncers \ {s} : me'[t] = me[t]
    BY <1>1 DEF ReadCall, TypeOK, SyncerStates
  <2>2. \A t \in Syncers \ {s} : me'[t].pc = "idle"
    BY <1>1, <2>1, <1>o DEF ReadCall, At
  <2>3. NothingYet /\ UNCHANGED <<call, refunds, transcriptions, notices, events>>
    BY <1>1, <1>c DEF ReadCall, MayBeSynced, SettledInTurn
  <2>4. ItsTurn(s)' /\ SettledInTurn'
    BY <2>1, <2>3 DEF ItsTurn, SettledInTurn, SettledOnce, NothingYet, Settling
  <2> QED
    BY <2>2, <2>4, TurnKept
<1>2. ASSUME NEW s \in Syncers, AskProvider(s) PROVE TurnInv'
  <2>1. /\ me[s].pc = "ask" /\ me'[s].pc = "write" /\ \A t \in Syncers \ {s} : me'[t] = me[t]
        /\ UNCHANGED <<call, refunds, transcriptions, notices, events>>
    BY <1>2 DEF AskProvider, At, TypeOK, SyncerStates
  <2>2. ItsTurn(s)' /\ SettledInTurn'
    BY <2>1, <1>b, <1>c DEF ItsTurn, SettledInTurn, SettledOnce, NothingYet, Settling
  <2> QED
    BY <2>1, <2>2, <1>a, TurnKept
<1>3. ASSUME NEW s \in Syncers, WriteStatus(s) PROVE TurnInv'
  <2>1. me[s].pc = "write" /\ UNCHANGED <<refunds, transcriptions, notices, events>>
    BY <1>3 DEF WriteStatus, At
  <2>2. NothingYet
    BY <2>1, <1>b, <1>c DEF ItsTurn, NothingYet
  <2>3. call'.status = me[s].answer.state
    BY <1>3 DEF WriteStatus, TypeOK, CallRows
  <2>4. /\ me'[s].pc = AfterWrite(me[s].answer, me[s].credits)
        /\ \A t \in Syncers \ {s} : me'[t] = me[t]
    BY <1>3, GotoAt, LeaveAt DEF WriteStatus, Idle
  <2>5. /\ AfterWrite(me[s].answer, me[s].credits) \in {"idle", "refund", "recording", "settle"}
        /\ AfterWrite(me[s].answer, me[s].credits) # "idle" => me[s].answer.state \in Terminal
    BY DEF AfterWrite, Connected, Terminal
  <2>6. ItsTurn(s)' /\ SettledInTurn'
    BY <2>1, <2>2, <2>3, <2>4, <2>5 DEF ItsTurn, SettledInTurn, SettledOnce, NothingYet, Settling
  <2> QED
    BY <2>1, <2>4, <2>6, <1>a, TurnKept
<1>4. ASSUME NEW s \in Syncers, Refund(s) PROVE TurnInv'
  <2>1. /\ me[s].pc = "refund" /\ me'[s].pc = "zero" /\ \A t \in Syncers \ {s} : me'[t] = me[t]
        /\ refunds' = refunds + 1 /\ UNCHANGED <<call, transcriptions, notices, events>>
    BY <1>4, GotoAt DEF Refund, At
  <2>2. ItsTurn(s)' /\ SettledInTurn'
    BY <2>1, <1>b, <1>c, <1>n DEF ItsTurn, SettledInTurn, SettledOnce, NothingYet, Settling, Steps
  <2> QED
    BY <2>1, <2>2, <1>a, TurnKept
<1>5. ASSUME NEW s \in Syncers, ZeroCredits(s) PROVE TurnInv'
  <2>1. /\ me[s].pc = "zero" /\ me'[s].pc = "settle" /\ \A t \in Syncers \ {s} : me'[t] = me[t]
        /\ UNCHANGED <<refunds, transcriptions, notices, events>>
    BY <1>5, GotoAt DEF ZeroCredits, At
  <2>2. call'.status = call.status
    BY <1>5 DEF ZeroCredits, TypeOK, CallRows
  <2>3. ItsTurn(s)' /\ SettledInTurn'
    BY <2>1, <2>2, <1>b, <1>c DEF ItsTurn, SettledInTurn, SettledOnce, NothingYet, Settling, Steps
  <2> QED
    BY <2>1, <2>3, <1>a, TurnKept
<1>6. ASSUME NEW s \in Syncers, Bill(s) PROVE TurnInv'
  <2>1. /\ me[s].pc = "bill" /\ me'[s].pc = "create" /\ \A t \in Syncers \ {s} : me'[t] = me[t]
        /\ transcriptions' \in {transcriptions, transcriptions + 1} /\ UNCHANGED <<call, refunds, notices, events>>
    BY <1>6, GotoAt DEF Bill, At
  <2>2. ItsTurn(s)' /\ SettledInTurn'
    BY <2>1, <1>b, <1>c, <1>n DEF ItsTurn, SettledInTurn, SettledOnce, NothingYet, Settling, Steps
  <2> QED
    BY <2>1, <2>2, <1>a, TurnKept
<1>7. ASSUME NEW s \in Syncers, CreateNotice(s) PROVE TurnInv'
  <2>1. /\ me[s].pc = "notice" /\ me'[s].pc = "emit" /\ \A t \in Syncers \ {s} : me'[t] = me[t]
        /\ notices' = notices + 1 /\ UNCHANGED <<call, refunds, transcriptions, events>>
    BY <1>7, GotoAt DEF CreateNotice, At
  <2>2. ItsTurn(s)' /\ SettledInTurn'
    BY <2>1, <1>b, <1>c, <1>n DEF ItsTurn, SettledInTurn, SettledOnce, NothingYet, Settling, Steps
  <2> QED
    BY <2>1, <2>2, <1>a, TurnKept
<1>8. ASSUME NEW s \in Syncers, EmitCompleted(s) PROVE TurnInv'
  <2>1. /\ me[s].pc = "emit" /\ me'[s].pc = "idle" /\ \A t \in Syncers \ {s} : me'[t] = me[t]
        /\ events' = events + 1 /\ UNCHANGED <<call, refunds, transcriptions, notices>>
    BY <1>8, LeaveAt DEF EmitCompleted, At, Idle
  <2>2. ItsTurn(s)' /\ SettledInTurn'
    BY <2>1, <1>b, <1>c, <1>n DEF ItsTurn, SettledInTurn, SettledOnce, NothingYet, Settling, Steps
  <2> QED
    BY <2>1, <2>2, <1>a, TurnKept
<1>9. ASSUME NEW s \in Syncers, Crash(s) PROVE TurnInv'
  <2>1. /\ me[s].pc # "idle" /\ me'[s].pc = "idle" /\ \A t \in Syncers \ {s} : me'[t] = me[t]
        /\ UNCHANGED <<call, refunds, transcriptions, notices, events>>
    BY <1>9, LeaveAt DEF Crash, At, Idle
  <2>2. ItsTurn(s)' /\ SettledInTurn'
    BY <2>1, <1>c DEF ItsTurn, SettledInTurn, SettledOnce, NothingYet, Settling
  <2> QED
    BY <2>1, <2>2, <1>a, TurnKept
<1>10. ASSUME NEW s \in Syncers,
              \/ LookForRecording(s) \/ CreateRecording(s) \/ Transcribe(s)
              \/ CreateTranscript(s) \/ CreateSegments(s) \/ SettleLead(s) \/ LookForNotice(s)
       PROVE  TurnInv'
  <2>1. UNCHANGED <<call, refunds, transcriptions, notices, events>>
    BY <1>10 DEF LookForRecording, CreateRecording, Transcribe, CreateTranscript, CreateSegments, SettleLead,
                 LookForNotice
  <2>2. /\ \/ me[s].pc \in {"recording", "record", "transcript"}
                /\ me'[s].pc \in {"idle", "record", "transcript", "bill", "settle"}
           \/ me[s].pc \in {"create", "segments"} /\ me'[s].pc \in {"idle", "segments", "settle"}
           \/ me[s].pc = "settle" /\ me'[s].pc = "notify"
           \/ me[s].pc = "notify" /\ me'[s].pc \in {"notice", "emit"}
        /\ \A t \in Syncers \ {s} : me'[t] = me[t]
    <3>1. CASE LookForRecording(s) \/ CreateRecording(s) \/ Transcribe(s)
      BY <3>1, GotoAt, LeaveAt DEF LookForRecording, CreateRecording, Transcribe, At, Idle
    <3>2. CASE CreateTranscript(s) \/ CreateSegments(s)
      BY <3>2, GotoAt, LeaveAt DEF CreateTranscript, CreateSegments, At, Idle
    <3>3. CASE SettleLead(s) \/ LookForNotice(s)
      BY <3>3, GotoAt DEF SettleLead, LookForNotice, At
    <3> QED
      BY <1>10, <3>1, <3>2, <3>3
  <2>3. ItsTurn(s)' /\ SettledInTurn'
    BY <2>1, <2>2, <1>b, <1>c DEF ItsTurn, SettledInTurn, SettledOnce, NothingYet, Settling, Steps
  <2> QED
    BY <2>1, <2>2, <2>3, <1>a, TurnKept
<1>11. ASSUME UNCHANGED <<me, refunds, transcriptions, notices, events, overlapped>>,
              call'.status = call.status \/ call'.status \in Terminal
       PROVE  TurnInv'
  BY <1>11, <1>o DEF TurnInv, At, ItsTurn, SettledInTurn, SettledOnce, NothingYet
<1>12. CASE LineMoves \/ RecordingReady \/ HangUpLine
  BY <1>11, <1>12 DEF LineMoves, RecordingReady, HangUpLine
<1>13. CASE HangUpRow
  <2>1. call'.status \in Terminal
    BY <1>13 DEF HangUpRow, TypeOK, CallRows, Terminal
  <2> QED
    BY <1>11, <1>13, <2>1 DEF HangUpRow
<1>14. CASE UNCHANGED vars
  BY <1>11, <1>14 DEF vars
<1> QED
  BY <1>1, <1>2, <1>3, <1>4, <1>5, <1>6, <1>7, <1>8, <1>9, <1>10, <1>12, <1>13, <1>14 DEF Next, SyncStep

(* Syncers that follow one another refund the call, charge its               *)
(* transcription, raise its notice and send its event at most once, however  *)
(* many they are, wherever each of them dies, and whoever hangs up when.     *)
THEOREM SyncersInTurnSettleOnce == Spec => []SettledOnceInTurn
<1>1. TurnInv => SettledOnceInTurn
  BY DEF TurnInv, SettledInTurn, SettledOnceInTurn
<1> QED
  BY <1>1, TypesHold, TurnInit, TurnStep, PTL DEF Spec

-------------------------------------------------------------------------------
(* How it ends *)

\* Where a syncer is once the call's recording is kept, and once its transcript is.
PastRecording == {"transcript", "bill", "create", "segments", "settle", "notify", "notice", "emit"}
PastTranscript == {"segments", "settle", "notify", "notice", "emit"}

Somebody(places) == \E s \in Syncers : me[s].pc \in places

\* What syncer s relies on where it is: the money is back if it is due, its earlier steps are done.
Knows(s) ==
    /\ me[s].pc \in Settling => me[s].answer.state \in Terminal
    /\ me[s].pc \in {"recording", "record", "transcript", "bill", "create", "segments"} => Connected(me[s].answer)
    /\ me[s].pc # "idle" /\ me[s].credits = 0 => refunds > 0
    /\ me[s].pc \in {"zero", "settle", "notify", "notice", "emit"} => refunds > 0 \/ Connected(line)
    /\ me[s].pc \in {"notify", "notice", "emit"} => member # "IN_PROGRESS"
    /\ me[s].pc = "emit" => notices > 0

(* Unless all is done, somebody is still at it: whoever gives up because      *)
(* another has kept the recording or the transcript leaves that one behind.  *)
Carried ==
    events = 0 =>
       /\ call.status \in Terminal => Somebody(Settling)
       /\ "recording" \in kept => Somebody(PastRecording)
       /\ "transcript" \in kept => Somebody(PastTranscript)

\* The rows say what the line says, and an event is sent when all the rest is done.
RowsAgree ==
    /\ call.status \in Terminal => call.status = line.state
    /\ member # "IN_PROGRESS" => line.state \in Terminal /\ member = MemberAfter(line.state)
    /\ events > 0 => notices > 0 /\ member # "IN_PROGRESS" /\ (refunds > 0 \/ Connected(line))

EndParts == operator = "idle" /\ (\A s \in Syncers : Knows(s)) /\ Carried /\ RowsAgree

EndInv == RefundInv /\ CostInv /\ (Undisturbed => EndParts)

\* What one syncer learns takes nothing from what the others know.
LEMMA KnownToAll ==
    ASSUME NEW s \in Syncers, \A t \in Syncers : Knows(t), \A t \in Syncers \ {s} : me'[t] = me[t], Knows(s)',
           line' = line, refunds > 0 => refunds' > 0, notices > 0 => notices' > 0,
           member # "IN_PROGRESS" => member' # "IN_PROGRESS"
    PROVE  \A t \in Syncers : Knows(t)'
<1> SUFFICES ASSUME NEW t \in Syncers, t # s PROVE Knows(t)'
  OBVIOUS
<1>1. Knows(t) /\ me'[t] = me[t]
  OBVIOUS
<1> QED
  BY <1>1 DEF Knows, Connected

\* A syncer that stays among some places leaves somebody there.
LEMMA SomebodyStays ==
    ASSUME NEW s \in Syncers, NEW places, \A t \in Syncers \ {s} : me'[t] = me[t], Somebody(places),
           me[s].pc \in places => me'[s].pc \in places
    PROVE  Somebody(places)'
BY DEF Somebody

LEMMA SomebodyComes ==
    ASSUME NEW s \in Syncers, NEW places, me'[s].pc \in places PROVE Somebody(places)'
BY DEF Somebody

LEMMA EndInit == Init => EndInv
<1> SUFFICES ASSUME Init PROVE EndInv
  OBVIOUS
<1>1. \A s \in Syncers : me[s].pc = "idle"
  BY DEF Init, Idle
<1>2. \A s \in Syncers : Knows(s)
  BY <1>1 DEF Knows, Settling, PastRecording
<1>3. Carried /\ RowsAgree /\ operator = "idle"
  BY DEF Init, Carried, RowsAgree, Terminal
<1> QED
  BY <1>2, <1>3, RefundInit, CostInit DEF EndInv, EndParts

\* A syncer that moves on without changing a row of the call, the ledger or what is kept.
LEMMA OnlyMoves ==
    ASSUME EndParts, TypeOK, AnswersAgree, NEW s \in Syncers, \A t \in Syncers \ {s} : me'[t] = me[t],
           UNCHANGED <<line, refunds, member, notices, events, operator>>, Knows(s)',
           call'.status = call.status, kept' \in {kept, kept \union {"segments"}},
           \/ me[s].pc \notin Settling
           \/ /\ me'[s].pc \in Settling
              /\ me[s].pc \in PastRecording => me'[s].pc \in PastRecording
              /\ me[s].pc \in PastTranscript => me'[s].pc \in PastTranscript
    PROVE  EndParts'
<1>1. \A t \in Syncers : Knows(t)'
  BY KnownToAll DEF EndParts
<1>2. me[s].pc \notin Settling => me[s].pc \notin PastRecording /\ me[s].pc \notin PastTranscript
  BY DEF Settling, PastRecording, PastTranscript, Steps
<1>3. Somebody(Settling) => Somebody(Settling)'
  BY SomebodyStays
<1>4. Somebody(PastRecording) => Somebody(PastRecording)'
  BY <1>2, SomebodyStays
<1>5. Somebody(PastTranscript) => Somebody(PastTranscript)'
  BY <1>2, SomebodyStays
<1> QED
  BY <1>1, <1>3, <1>4, <1>5 DEF EndParts, Carried, RowsAgree, Connected

LEMMA EndStep == EndInv /\ [Next]_vars => EndInv'
<1> SUFFICES ASSUME EndInv, [Next]_vars, Undisturbed' PROVE EndParts'
  BY RefundStep, CostStep DEF EndInv
<1> USE DEF money, results, others, disturbances
<1>t. TypeOK /\ AnswersAgree /\ CostInv
  BY DEF EndInv, RefundInv
<1>n. refunds \in Nat /\ notices \in Nat /\ events \in Nat /\ crashes \in Nat /\ hangUps \in Nat
  BY <1>t DEF TypeOK
<1>u. Undisturbed
  <2>1. ASSUME NEW s \in Syncers, SyncStep(s) PROVE UNCHANGED <<crashes, hangUps>>
    BY <2>1 DEF SyncStep, ReadCall, AskProvider, WriteStatus, Refund, ZeroCredits, LookForRecording, CreateRecording,
         Transcribe, Bill, CreateTranscript, CreateSegments, SettleLead, LookForNotice, CreateNotice, EmitCompleted
  <2>2. ASSUME NEW s \in Syncers, Crash(s) PROVE FALSE
    BY <2>2, <1>n DEF Crash, Undisturbed
  <2>3. ~HangUpLine
    BY <1>n DEF HangUpLine, Undisturbed
  <2>4. CASE LineMoves \/ RecordingReady \/ HangUpRow \/ UNCHANGED vars
    BY <2>4 DEF LineMoves, RecordingReady, HangUpRow, vars, Undisturbed
  <2> QED
    BY <2>1, <2>2, <2>3, <2>4 DEF Next, Undisturbed
<1>e. EndParts
  BY <1>u DEF EndInv
<1>k. \A s \in Syncers : Knows(s)
  BY <1>e DEF EndParts
<1>1. ASSUME NEW s \in Syncers, ReadCall(s) PROVE EndParts'
  <2>1. /\ me[s].pc = "idle" /\ me'[s].pc = "ask" /\ me'[s].credits = call.credits
        /\ \A t \in Syncers \ {s} : me'[t] = me[t]
    BY <1>1, <1>t DEF ReadCall, At, TypeOK, SyncerStates
  <2>2. call.credits = 0 => refunds > 0
    BY <1>t DEF CostInv
  <2>3. UNCHANGED <<line, call, refunds, kept, member, notices, events, operator>>
    BY <1>1 DEF ReadCall
  <2>4. Knows(s)'
    BY <2>1, <2>2, <2>3 DEF Knows, Settling, PastRecording
  <2>5. me[s].pc \notin Settling
    BY <2>1 DEF Settling
  <2> QED
    BY <2>1, <2>3, <2>4, <2>5, <1>e, <1>t, OnlyMoves
<1>2. ASSUME NEW s \in Syncers, AskProvider(s) PROVE EndParts'
  <2>1. /\ me[s].pc = "ask" /\ me'[s].pc = "write" /\ me'[s].credits = me[s].credits
        /\ \A t \in Syncers \ {s} : me'[t] = me[t]
    BY <1>2, <1>t DEF AskProvider, At, TypeOK, SyncerStates
  <2>2. UNCHANGED <<line, call, refunds, kept, member, notices, events, operator>>
    BY <1>2 DEF AskProvider
  <2>3. Knows(s)'
    BY <2>1, <2>2, <1>k DEF Knows, Settling, PastRecording
  <2>4. me[s].pc \notin Settling
    BY <2>1 DEF Settling
  <2> QED
    BY <2>1, <2>2, <2>3, <2>4, <1>e, <1>t, OnlyMoves
<1>3. ASSUME NEW s \in Syncers, WriteStatus(s) PROVE EndParts'
  <2> DEFINE next == AfterWrite(me[s].answer, me[s].credits)
  <2>1. /\ me[s].pc = "write" /\ me'[s].pc = next /\ \A t \in Syncers \ {s} : me'[t] = me[t]
        /\ next # "idle" => me'[s].answer = me[s].answer /\ me'[s].credits = me[s].credits
    BY <1>3, <1>t, GotoAt, LeaveAt DEF WriteStatus, At, Idle
  <2>2. UNCHANGED <<line, refunds, kept, member, notices, events, operator>>
    BY <1>3 DEF WriteStatus
  <2>3. call'.status = me[s].answer.state
    BY <1>3, <1>t DEF WriteStatus, TypeOK, CallRows
  <2>4. me[s].credits \in {0, 1}
    BY <1>t DEF TypeOK, SyncerStates
  <2>5. /\ next \in {"idle", "refund", "recording", "settle"}
        /\ next # "idle" <=> me[s].answer.state \in Terminal
        /\ next = "recording" => Connected(me[s].answer)
        /\ next = "settle" => me[s].credits = 0
    BY <2>4 DEF AfterWrite, Connected, Terminal
  <2> HIDE DEF next
  <2>6. Knows(s)'
    BY <2>1, <2>2, <2>5, <1>k DEF Knows, Settling, PastRecording
  <2>7. \A t \in Syncers : Knows(t)'
    BY <2>1, <2>2, <2>6, <1>k, KnownToAll
  <2>8. next # "idle" => me'[s].pc \in Settling
    BY <2>1, <2>5 DEF Settling, Steps
  <2>9. call'.status \in Terminal => Somebody(Settling)'
    BY <2>3, <2>5, <2>8, SomebodyComes
  <2>10. me[s].pc \notin PastRecording /\ me[s].pc \notin PastTranscript
    BY <2>1 DEF PastRecording, PastTranscript
  <2>11. Somebody(PastRecording) => Somebody(PastRecording)'
    BY <2>1, <2>10, SomebodyStays
  <2>12. Somebody(PastTranscript) => Somebody(PastTranscript)'
    BY <2>1, <2>10, SomebodyStays
  <2>13. Carried'
    BY <2>2, <2>9, <2>11, <2>12, <1>e DEF EndParts, Carried
  <2>14. RowsAgree'
    BY <2>2, <2>3, <1>e, <1>t DEF EndParts, RowsAgree, AnswersAgree, Connected
  <2> QED
    BY <2>2, <2>7, <2>13, <2>14, <1>e DEF EndParts
<1>4. ASSUME NEW s \in Syncers, Refund(s) PROVE EndParts'
  <2>1. /\ me[s].pc = "refund" /\ me'[s].pc = "zero" /\ me'[s].answer = me[s].answer
        /\ \A t \in Syncers \ {s} : me'[t] = me[t]
    BY <1>4, <1>t, GotoAt DEF Refund, At
  <2>2. UNCHANGED <<line, call, kept, member, notices, events, operator>> /\ refunds' > 0
    BY <1>4, <1>n DEF Refund
  <2>3. Knows(s)'
    BY <2>1, <2>2, <1>k DEF Knows, Settling, PastRecording, Steps
  <2>4. \A t \in Syncers : Knows(t)'
    BY <2>1, <2>2, <2>3, <1>k, KnownToAll
  <2>5. Somebody(Settling)'
    BY <2>1, SomebodyComes DEF Settling, Steps
  <2>6. me[s].pc \notin PastRecording /\ me[s].pc \notin PastTranscript
    BY <2>1 DEF PastRecording, PastTranscript
  <2>7. Somebody(PastRecording) => Somebody(PastRecording)'
    BY <2>1, <2>6, SomebodyStays
  <2>8. Somebody(PastTranscript) => Somebody(PastTranscript)'
    BY <2>1, <2>6, SomebodyStays
  <2> QED
    BY <2>2, <2>4, <2>5, <2>7, <2>8, <1>e DEF EndParts, Carried, RowsAgree, Connected
<1>5. ASSUME NEW s \in Syncers, ZeroCredits(s) PROVE EndParts'
  <2>1. /\ me[s].pc = "zero" /\ me'[s].pc = "settle" /\ me'[s].answer = me[s].answer
        /\ \A t \in Syncers \ {s} : me'[t] = me[t]
    BY <1>5, <1>t, GotoAt DEF ZeroCredits, At
  <2>2. UNCHANGED <<line, refunds, kept, member, notices, events, operator>> /\ refunds > 0
    BY <1>5, <1>t DEF ZeroCredits, CostInv
  <2>3. call'.status = call.status
    BY <1>5, <1>t DEF ZeroCredits, TypeOK, CallRows
  <2>4. Knows(s)'
    BY <2>1, <2>2, <1>k DEF Knows, Settling, PastRecording, Steps
  <2>5. /\ me'[s].pc \in Settling /\ me'[s].pc \in PastRecording
        /\ me'[s].pc \in PastTranscript
    BY <2>1 DEF Settling, PastRecording, PastTranscript, Steps
  <2> QED
    BY <2>1, <2>2, <2>3, <2>4, <2>5, <1>e, <1>t, OnlyMoves
<1>6. ASSUME NEW s \in Syncers,
             LookForRecording(s) \/ Transcribe(s) \/ Bill(s) \/ CreateSegments(s) \/ LookForNotice(s)
      PROVE  EndParts'
  <2>1. UNCHANGED <<line, call, refunds, member, notices, events, operator>> /\ kept' \in {kept, kept \union {"segments"}}
    BY <1>6 DEF LookForRecording, Transcribe, Bill, CreateSegments, LookForNotice
  <2>2. /\ \/ me[s].pc = "recording" /\ me'[s].pc \in {"settle", "transcript", "record"}
           \/ me[s].pc = "transcript" /\ me'[s].pc \in {"bill", "settle"}
           \/ me[s].pc = "bill" /\ me'[s].pc = "create"
           \/ me[s].pc = "segments" /\ me'[s].pc = "settle"
           \/ me[s].pc = "notify" /\ me'[s].pc = "notice"
           \/ me[s].pc = "notify" /\ me'[s].pc = "emit" /\ notices > 0
        /\ me'[s].answer = me[s].answer /\ me'[s].credits = me[s].credits
        /\ \A t \in Syncers \ {s} : me'[t] = me[t]
    <3>1. CASE LookForRecording(s) \/ Transcribe(s)
      BY <3>1, <1>t, GotoAt DEF LookForRecording, Transcribe, At
    <3>2. CASE Bill(s) \/ CreateSegments(s)
      BY <3>2, <1>t, GotoAt DEF Bill, CreateSegments, At
    <3>3. CASE LookForNotice(s)
      BY <3>3, <1>t, <1>n, GotoAt DEF LookForNotice, At
    <3> QED
      BY <1>6, <3>1, <3>2, <3>3
  <2>3. me[s].answer.state \in Terminal /\ Connected(me[s].answer) => Connected(line)
    BY <1>t DEF AnswersAgree, Connected
  <2>4. Knows(s) /\ (me[s].pc \in {"recording", "transcript", "segments"} => Connected(me[s].answer))
    BY <1>k DEF Knows, PastRecording
  <2>5. me[s].pc \in Settling /\ me'[s].pc \in Settling
    BY <2>2 DEF Settling, Steps
  <2>6. Knows(s)'
    BY <2>1, <2>2, <2>3, <2>4, <2>5 DEF Knows, PastRecording, Connected
  <2>7. /\ me[s].pc \in PastRecording => me'[s].pc \in PastRecording
        /\ me[s].pc \in PastTranscript => me'[s].pc \in PastTranscript
    BY <2>2 DEF PastRecording, PastTranscript
  <2> QED
    BY <2>1, <2>2, <2>5, <2>6, <2>7, <1>e, <1>t, OnlyMoves
<1>7. ASSUME NEW s \in Syncers, CreateRecording(s) PROVE EndParts'
  <2>1. /\ me[s].pc = "record" /\ \A t \in Syncers \ {s} : me'[t] = me[t]
        /\ IF "recording" \in kept THEN me'[s].pc = "idle"
           ELSE me'[s].pc = "transcript" /\ me'[s].answer = me[s].answer /\ me'[s].credits = me[s].credits
    BY <1>7, <1>t, GotoAt, LeaveAt DEF CreateRecording, At, Idle
  <2>2. UNCHANGED <<line, call, refunds, member, notices, events, operator>> /\ kept' = kept \union {"recording"}
    BY <1>7 DEF CreateRecording
  <2>3. Knows(s)'
    BY <2>1, <2>2, <1>k DEF Knows, Settling, PastRecording, Connected, Steps
  <2>4. \A t \in Syncers : Knows(t)'
    BY <2>1, <2>2, <2>3, <1>k, KnownToAll
  <2>5. me[s].pc \notin PastRecording /\ me[s].pc \notin PastTranscript
    BY <2>1 DEF PastRecording, PastTranscript
  <2>6. events = 0 => Somebody(PastRecording)'
    <3>1. CASE "recording" \in kept
      BY <2>1, <2>5, <3>1, <1>e, SomebodyStays DEF EndParts, Carried
    <3>2. CASE "recording" \notin kept
      BY <2>1, <3>2, SomebodyComes DEF PastRecording
    <3> QED
      BY <3>1, <3>2
  <2>7. Somebody(PastRecording)' => Somebody(Settling)'
    BY DEF Somebody, PastRecording, Settling, Steps
  <2>8. Somebody(PastTranscript) => Somebody(PastTranscript)'
    BY <2>1, <2>5, SomebodyStays
  <2> QED
    BY <2>2, <2>4, <2>6, <2>7, <2>8, <1>e DEF EndParts, Carried, RowsAgree, Connected
<1>8. ASSUME NEW s \in Syncers, CreateTranscript(s) PROVE EndParts'
  <2>1. /\ me[s].pc = "create" /\ \A t \in Syncers \ {s} : me'[t] = me[t]
        /\ IF "transcript" \in kept THEN me'[s].pc = "idle"
           ELSE me'[s].pc = "segments" /\ me'[s].answer = me[s].answer /\ me'[s].credits = me[s].credits
    BY <1>8, <1>t, GotoAt, LeaveAt DEF CreateTranscript, At, Idle
  <2>2. UNCHANGED <<line, call, refunds, member, notices, events, operator>> /\ kept' = kept \union {"transcript"}
    BY <1>8 DEF CreateTranscript
  <2>3. Knows(s)'
    BY <2>1, <2>2, <1>k DEF Knows, Settling, PastRecording, Connected, Steps
  <2>4. \A t \in Syncers : Knows(t)'
    BY <2>1, <2>2, <2>3, <1>k, KnownToAll
  <2>5. me[s].pc \notin PastTranscript
    BY <2>1 DEF PastTranscript
  <2>6. events = 0 => Somebody(PastTranscript)'
    <3>1. CASE "transcript" \in kept
      BY <2>1, <2>5, <3>1, <1>e, SomebodyStays DEF EndParts, Carried
    <3>2. CASE "transcript" \notin kept
      BY <2>1, <3>2, SomebodyComes DEF PastTranscript
    <3> QED
      BY <3>1, <3>2
  <2>7. Somebody(PastTranscript)' => Somebody(Settling)' /\ Somebody(PastRecording)'
    BY DEF Somebody, PastTranscript, PastRecording, Settling, Steps
  <2> QED
    BY <2>2, <2>4, <2>6, <2>7, <1>e DEF EndParts, Carried, RowsAgree, Connected
<1>9. ASSUME NEW s \in Syncers, SettleLead(s) PROVE EndParts'
  <2>1. /\ me[s].pc = "settle" /\ me'[s].pc = "notify" /\ me'[s].answer = me[s].answer
        /\ me'[s].credits = me[s].credits /\ \A t \in Syncers \ {s} : me'[t] = me[t]
    BY <1>9, <1>t, GotoAt DEF SettleLead, At
  <2>2. UNCHANGED <<line, call, refunds, kept, notices, events, operator>> /\ member' = MemberAfter(me[s].answer.state)
    BY <1>9 DEF SettleLead
  <2>3. me[s].answer.state = line.state /\ line.state \in Terminal
    BY <2>1, <1>k, <1>t DEF Knows, AnswersAgree, Settling, Steps
  <2>4. member' = MemberAfter(line.state) /\ member' # "IN_PROGRESS"
    BY <2>2, <2>3 DEF MemberAfter
  <2>5. Knows(s)'
    BY <2>1, <2>2, <2>4, <1>k DEF Knows, Settling, PastRecording, Connected, Steps
  <2>6. \A t \in Syncers : Knows(t)'
    BY <2>1, <2>2, <2>4, <2>5, <1>k, KnownToAll
  <2>7. Somebody(Settling)' /\ Somebody(PastRecording)' /\ Somebody(PastTranscript)'
    BY <2>1, SomebodyComes DEF Settling, PastRecording, PastTranscript, Steps
  <2>8. RowsAgree'
    <3>1. MemberAfter(line.state)' = MemberAfter(line.state)
      BY <2>2, <2>3 DEF MemberAfter
    <3> QED
      BY <2>2, <2>3, <2>4, <3>1, <1>e DEF EndParts, RowsAgree, Connected
  <2> QED
    BY <2>2, <2>6, <2>7, <2>8, <1>e DEF EndParts, Carried
<1>10. ASSUME NEW s \in Syncers, CreateNotice(s) PROVE EndParts'
  <2>1. /\ me[s].pc = "notice" /\ me'[s].pc = "emit" /\ me'[s].answer = me[s].answer
        /\ me'[s].credits = me[s].credits /\ \A t \in Syncers \ {s} : me'[t] = me[t]
    BY <1>10, <1>t, GotoAt DEF CreateNotice, At
  <2>2. UNCHANGED <<line, call, refunds, kept, member, events, operator>> /\ notices' > 0
    BY <1>10, <1>n DEF CreateNotice
  <2>3. Knows(s)'
    BY <2>1, <2>2, <1>k DEF Knows, Settling, PastRecording, Connected, Steps
  <2>4. \A t \in Syncers : Knows(t)'
    BY <2>1, <2>2, <2>3, <1>k, KnownToAll
  <2>5. Somebody(Settling)' /\ Somebody(PastRecording)' /\ Somebody(PastTranscript)'
    BY <2>1, SomebodyComes DEF Settling, PastRecording, PastTranscript, Steps
  <2> QED
    BY <2>2, <2>4, <2>5, <1>e DEF EndParts, Carried, RowsAgree, Connected, MemberAfter
<1>11. ASSUME NEW s \in Syncers, EmitCompleted(s) PROVE EndParts'
  <2>1. me[s].pc = "emit" /\ me'[s].pc = "idle" /\ \A t \in Syncers \ {s} : me'[t] = me[t]
    BY <1>11, <1>t, LeaveAt DEF EmitCompleted, At, Idle
  <2>2. UNCHANGED <<line, call, refunds, kept, member, notices, operator>> /\ events' > 0
    BY <1>11, <1>n DEF EmitCompleted
  <2>3. Knows(s)'
    BY <2>1 DEF Knows, Settling, PastRecording
  <2>4. \A t \in Syncers : Knows(t)'
    BY <2>1, <2>2, <2>3, <1>k, KnownToAll
  <2>5. notices > 0 /\ member # "IN_PROGRESS" /\ (refunds > 0 \/ Connected(line))
    BY <2>1, <1>k DEF Knows
  <2> QED
    BY <2>2, <2>4, <2>5, <1>e DEF EndParts, Carried, RowsAgree, Connected, MemberAfter
<1>12. ASSUME UNCHANGED <<me, call, refunds, kept, member, notices, events, operator>>,
              \/ line.state \notin Terminal
              \/ line'.state = line.state /\ line'.talked = line.talked
       PROVE  EndParts'
  <2>1. line.state \notin Terminal => ~Connected(line)
    BY DEF Connected, Terminal
  <2>2. \A s \in Syncers : Knows(s)'
    BY <1>12, <1>k, <2>1 DEF Knows, Connected
  <2>3. Carried'
    BY <1>12, <1>e DEF EndParts, Carried, Somebody
  <2>4. RowsAgree'
    BY <1>12, <1>e, <2>1 DEF EndParts, RowsAgree, Connected, MemberAfter
  <2> QED
    BY <1>12, <1>e, <2>2, <2>3, <2>4 DEF EndParts
<1>13. CASE LineMoves
  <2>1. line.state \notin Terminal
    BY <1>13 DEF LineMoves, Successors, Terminal
  <2> QED
    BY <1>12, <1>13, <2>1 DEF LineMoves
<1>14. CASE RecordingReady
  BY <1>12, <1>14, <1>t DEF RecordingReady, TypeOK, Lines
<1>15. CASE UNCHANGED vars
  BY <1>12, <1>15 DEF vars
<1>16. ~HangUpLine /\ ~HangUpRow
  BY <1>e, <1>n DEF HangUpLine, HangUpRow, EndParts, Undisturbed
<1>17. ASSUME NEW s \in Syncers, Crash(s) PROVE FALSE
  BY <1>17, <1>n DEF Crash, Undisturbed
<1> QED
  BY <1>1, <1>2, <1>3, <1>4, <1>5, <1>6, <1>7, <1>8, <1>9, <1>10, <1>11, <1>13, <1>14, <1>15, <1>16, <1>17
     DEF Next, SyncStep

(* Once the call is over and nobody is syncing it, it was refunded if it did *)
(* not connect, the lead's campaign row says how it ended, and somebody was  *)
(* told, whichever of any number of syncers gave up because another had kept *)
(* the recording or the transcript.                                          *)
THEOREM TheEndAgrees == Spec => []EndAgrees
<1>1. EndInv => EndAgrees
  <2> SUFFICES ASSUME EndInv, Undisturbed, Quiet, call.status \in Terminal
               PROVE  /\ UnconnectedIsRefunded
                      /\ member = IF call.status = "COMPLETED" THEN "COMPLETED" ELSE "PENDING"
                      /\ notices > 0 /\ events > 0
    BY DEF EndAgrees
  <2>1. EndParts /\ events \in Nat
    BY DEF EndInv, RefundInv, TypeOK
  <2>2. ~Somebody(Settling)
    BY DEF Quiet, At, Somebody, Settling
  <2>3. events > 0
    BY <2>1, <2>2 DEF EndParts, Carried
  <2> QED
    BY <2>1, <2>3 DEF EndParts, RowsAgree, MemberAfter, UnconnectedIsRefunded
<1> QED
  BY <1>1, EndInit, EndStep, PTL DEF Spec
===============================================================================
