------------------------------- MODULE CallSync -------------------------------
(***************************************************************************)
(* One call after it was dialled: syncStatus, with the post-call pipeline, *)
(* settleLead and notifyCallSettled, and hangUp, of calls.service.ts.      *)
(*                                                                         *)
(* A syncer is a webhook, somebody's poll or a sweep of syncActive; it     *)
(* syncs the call again and again.  Every database statement and every     *)
(* question to a provider is a step, so that syncers, the operator who     *)
(* hangs up, the phone line and crashes interleave between any two.        *)
(***************************************************************************)
EXTENDS Integers, FiniteSets

CONSTANTS
    Syncers,        \* who may be in syncStatus at the same time
    Credits,        \* the wallet once the call was charged
    MaxCrashes,     \* bound: syncers that die
    MaxHangUps      \* bound: times somebody hangs up

ASSUME SyncAssumption ==
    Credits \in Nat /\ MaxCrashes \in Nat /\ MaxHangUps \in Nat

VARIABLES
    line,           \* what the provider would answer: TelephonyCallState, talk time, recording
    call,           \* the calls row: status and creditsUsed
    balance,        \* the wallet
    refunds,        \* ledger rows refunding the call
    transcriptions, \* ledger rows charging TRANSCRIPTION for it
    kept,           \* rows the pipeline has written: "recording", "transcript", "segments"
    member,         \* the state of the lead's campaign_leads row
    notices,        \* notifications about the call
    events,         \* call.completed events
    me,             \* me[s]: where syncer s is, and what it has read
    operator,       \* where somebody in hangUp is
    crashes, hangUps,
    overlapped      \* two syncers have been at it at once

vars == <<line, call, balance, refunds, transcriptions, kept, member, notices, events, me, operator, crashes, hangUps, overlapped>>

LiveStates == {"DIALING", "RINGING", "CONNECTED"}
Terminal == {"COMPLETED", "FAILED", "BUSY", "NO_ANSWER", "VOICEMAIL", "CANCELLED"}
Lines == [state : LiveStates \union Terminal, talked : BOOLEAN, recorded : BOOLEAN]

Ringing == [state |-> "DIALING", talked |-> FALSE, recorded |-> FALSE]
Idle == [pc |-> "idle", credits |-> 0, answer |-> Ringing]

Init ==
    /\ line = Ringing
    /\ call = [status |-> "DIALING", credits |-> 1]
    /\ balance = Credits
    /\ refunds = 0 /\ transcriptions = 0
    /\ kept = {}
    /\ member = "IN_PROGRESS"
    /\ notices = 0 /\ events = 0
    /\ me = [s \in Syncers |-> Idle]
    /\ operator = "idle"
    /\ crashes = 0 /\ hangUps = 0
    /\ overlapped = FALSE

money == <<balance, refunds, transcriptions>>
results == <<kept, member, notices, events>>
disturbances == <<operator, crashes, hangUps>>
others == <<line, disturbances, overlapped>>

At(s, step) == me[s].pc = step
Goto(s, step) == me' = [me EXCEPT ![s].pc = step]
Leave(s) == me' = [me EXCEPT ![s] = Idle]

\* COMPLETED and with talk time
Connected(answer) == answer.state = "COMPLETED" /\ answer.talked

-------------------------------------------------------------------------------
(* syncStatus *)

\* A call that is over is read as if it were not.
MayBeSyncedAlways == TRUE

\* A terminal call is returned untouched.
MayBeSynced == call.status \notin Terminal

ReadCall(s) ==
    /\ At(s, "idle")
    /\ MayBeSynced
    /\ me' = [me EXCEPT ![s].pc = "ask", ![s].credits = call.credits]
    /\ overlapped' = (overlapped \/ \E t \in Syncers \ {s} : ~At(t, "idle"))
    /\ UNCHANGED <<call, money, results, line, disturbances>>

AskProvider(s) ==
    /\ At(s, "ask")
    /\ me' = [me EXCEPT ![s].pc = "write", ![s].answer = line]
    /\ UNCHANGED <<call, money, results, others>>

\* A call that reached somebody refunded as well.
AfterWriteRefunding(answer, credits) ==
    CASE answer.state \notin Terminal -> "idle"
      [] answer.state \in Terminal /\ credits > 0 -> "refund"
      [] OTHER -> "settle"

\* What follows the update of the status.
AfterWrite(answer, credits) ==
    CASE answer.state \notin Terminal -> "idle"
      [] answer.state \in Terminal /\ ~Connected(answer) /\ credits > 0 -> "refund"
      [] Connected(answer) -> "recording"
      [] OTHER -> "settle"

\* The update is unconditional.
WriteStatus(s) ==
    /\ At(s, "write")
    /\ call' = [call EXCEPT !.status = me[s].answer.state]
    /\ LET next == AfterWrite(me[s].answer, me[s].credits) IN
       IF next = "idle" THEN Leave(s) ELSE Goto(s, next)
    /\ UNCHANGED <<money, results, others>>

\* credits.refund, from the creditsUsed read at the start.
Refund(s) ==
    /\ At(s, "refund")
    /\ balance' = balance + 1
    /\ refunds' = refunds + 1
    /\ Goto(s, "zero")
    /\ UNCHANGED <<call, transcriptions, results, others>>

\* The charge left on the call after it was given back.
CreditsKept == call.credits

CreditsAfterRefund == 0

ZeroCredits(s) ==
    /\ At(s, "zero")
    /\ call' = [call EXCEPT !.credits = CreditsAfterRefund]
    /\ Goto(s, "settle")
    /\ UNCHANGED <<money, results, others>>

-------------------------------------------------------------------------------
(* runPostCallPipeline.  A create that hits the unique call id throws, and   *)
(* the rest of the sync with it.                                             *)

\* With recording enabled, as it is by default.
LookForRecording(s) ==
    /\ At(s, "recording")
    /\ Goto(s, IF ~me[s].answer.recorded THEN "settle"
               ELSE IF "recording" \in kept THEN "transcript" ELSE "record")
    /\ UNCHANGED <<call, money, results, others>>

CreateRecording(s) ==
    /\ At(s, "record")
    /\ kept' = kept \union {"recording"}
    /\ IF "recording" \in kept THEN Leave(s) ELSE Goto(s, "transcript")
    /\ UNCHANGED <<call, money, member, notices, events, others>>

\* Looks for a transcript, and has one made, which may be switched off or fail.
Transcribe(s) ==
    /\ At(s, "transcript")
    /\ \/ "transcript" \notin kept /\ Goto(s, "bill")
       \/ Goto(s, "settle")
    /\ UNCHANGED <<call, money, results, others>>

Affordable == balance >= 1

\* An empty wallet is logged and the transcript kept.
Bill(s) ==
    /\ At(s, "bill")
    /\ IF Affordable
       THEN balance' = balance - 1 /\ transcriptions' = transcriptions + 1
       ELSE UNCHANGED <<balance, transcriptions>>
    /\ Goto(s, "create")
    /\ UNCHANGED <<call, refunds, results, others>>

CreateTranscript(s) ==
    /\ At(s, "create")
    /\ kept' = kept \union {"transcript"}
    /\ IF "transcript" \in kept THEN Leave(s) ELSE Goto(s, "segments")
    /\ UNCHANGED <<call, money, member, notices, events, others>>

CreateSegments(s) ==
    /\ At(s, "segments")
    /\ kept' = kept \union {"segments"}
    /\ Goto(s, "settle")
    /\ UNCHANGED <<call, money, member, notices, events, others>>

-------------------------------------------------------------------------------
(* settleLead, notifyCallSettled, emitCallCompleted *)

\* A campaign lead that is only settled when it was reached.
MemberAfterOnlyReached(status) == IF status = "COMPLETED" THEN "COMPLETED" ELSE member

\* PENDING stands for both ends of an unsuccessful attempt: back in the queue, or exhausted.
MemberAfter(status) == IF status = "COMPLETED" THEN "COMPLETED" ELSE "PENDING"

SettleLead(s) ==
    /\ At(s, "settle")
    /\ member' = MemberAfter(me[s].answer.state)
    /\ Goto(s, "notify")
    /\ UNCHANGED <<call, money, kept, notices, events, others>>

\* One notice of a kind and call within the day: a look, and then the row.
LookForNotice(s) ==
    /\ At(s, "notify")
    /\ Goto(s, IF notices = 0 THEN "notice" ELSE "emit")
    /\ UNCHANGED <<call, money, results, others>>

CreateNotice(s) ==
    /\ At(s, "notice")
    /\ notices' = notices + 1
    /\ Goto(s, "emit")
    /\ UNCHANGED <<call, money, kept, member, events, others>>

EmitCompleted(s) ==
    /\ At(s, "emit")
    /\ events' = events + 1
    /\ Leave(s)
    /\ UNCHANGED <<call, money, kept, member, notices, others>>

SyncStep(s) ==
    \/ ReadCall(s) \/ AskProvider(s) \/ WriteStatus(s) \/ Refund(s) \/ ZeroCredits(s)
    \/ LookForRecording(s) \/ CreateRecording(s) \/ Transcribe(s) \/ Bill(s)
    \/ CreateTranscript(s) \/ CreateSegments(s)
    \/ SettleLead(s) \/ LookForNotice(s) \/ CreateNotice(s) \/ EmitCompleted(s)

-------------------------------------------------------------------------------
(* The provider, the operator, and crashes. *)

\* Where a phone call can go from each of its states.
Successors(state) ==
    CASE state = "DIALING" -> {"RINGING", "FAILED"}
      [] state = "RINGING" -> {"CONNECTED", "NO_ANSWER", "BUSY"}
      [] state = "CONNECTED" -> {"COMPLETED", "VOICEMAIL"}
      [] OTHER -> {}

\* A completed call may have had no talk time; its recording may be ready at once.
LineMoves ==
    /\ \E next \in Successors(line.state), talked, recorded \in BOOLEAN :
          /\ talked => next \in {"COMPLETED", "VOICEMAIL"}
          /\ recorded => next = "COMPLETED" /\ talked
          /\ line' = [state |-> next, talked |-> talked, recorded |-> recorded]
    /\ UNCHANGED <<call, money, results, me, disturbances, overlapped>>

\* The provider has finished writing the recording.
RecordingReady ==
    /\ Connected(line) /\ ~line.recorded
    /\ line' = [line EXCEPT !.recorded = TRUE]
    /\ UNCHANGED <<call, money, results, me, disturbances, overlapped>>

\* hangUp: the provider drops the line if it is still up, and then the row is cancelled.
HangUpLine ==
    /\ operator = "idle"
    /\ hangUps < MaxHangUps
    /\ hangUps' = hangUps + 1
    /\ operator' = "cancel"
    /\ line' = CASE line.state \in {"DIALING", "RINGING"} -> [line EXCEPT !.state = "CANCELLED"]
                 [] line.state = "CONNECTED" -> [state |-> "COMPLETED", talked |-> TRUE, recorded |-> FALSE]
                 [] OTHER -> line
    /\ UNCHANGED <<call, money, results, me, crashes, overlapped>>

HangUpRow ==
    /\ operator = "cancel"
    /\ operator' = "idle"
    /\ call' = [call EXCEPT !.status = "CANCELLED"]
    /\ UNCHANGED <<line, money, results, me, crashes, hangUps, overlapped>>

Crash(s) ==
    /\ ~At(s, "idle")
    /\ crashes < MaxCrashes
    /\ crashes' = crashes + 1
    /\ Leave(s)
    /\ UNCHANGED <<line, call, money, results, operator, hangUps, overlapped>>

Next ==
    \/ \E s \in Syncers : SyncStep(s) \/ Crash(s)
    \/ LineMoves \/ RecordingReady \/ HangUpLine \/ HangUpRow

Spec == Init /\ [][Next]_vars

(* A scheduler sweeps the calls in flight again and again, a sync that was   *)
(* begun goes on, and a call and its recording end.  Nobody has to hang up,  *)
(* and nothing has to crash.                                                 *)
FairSpec ==
    /\ Spec
    /\ \A s \in Syncers : WF_vars(SyncStep(s))
    /\ WF_vars(LineMoves) /\ WF_vars(RecordingReady)

-------------------------------------------------------------------------------
Steps == {"idle", "ask", "write", "refund", "zero", "recording", "record", "transcript", "bill", "create",
          "segments", "settle", "notify", "notice", "emit"}

SyncerStates == [pc : Steps, credits : {0, 1}, answer : Lines]
CallRows == [status : LiveStates \union Terminal, credits : {0, 1}]

\* The values each variable takes.
TypeOK ==
    /\ line \in Lines
    /\ call \in CallRows
    /\ balance \in Nat /\ refunds \in Nat /\ transcriptions \in Nat
    /\ kept \subseteq {"recording", "transcript", "segments"}
    /\ member \in {"IN_PROGRESS", "PENDING", "COMPLETED"}
    /\ notices \in Nat /\ events \in Nat
    /\ me \in [Syncers -> SyncerStates]
    /\ operator \in {"idle", "cancel"}
    /\ crashes \in Nat /\ hangUps \in Nat /\ overlapped \in BOOLEAN

\* Nobody is in the middle of a sync or a hang-up.
Quiet == operator = "idle" /\ \A s \in Syncers : At(s, "idle")

Undisturbed == crashes = 0 /\ hangUps = 0

(* "Idempotent: ... a second completion must not create a second ...": the   *)
(* call is refunded, its transcription charged, its notice raised and its    *)
(* event sent at most once.                                                  *)
SettledOnce == refunds <= 1 /\ transcriptions <= 1 /\ notices <= 1 /\ events <= 1

(* Syncers that follow one another keep it, whoever hangs up and wherever    *)
(* one of them dies.                                                         *)
SettledOnceInTurn == ~overlapped => SettledOnce

(* A call on which people talked is never refunded, however many sync it,    *)
(* die or hang up.                                                           *)
ConnectedIsNotRefunded == refunds > 0 => ~Connected(line)

(* Once nobody is syncing it and nobody died doing so, the call says it cost *)
(* nothing exactly when the ledger gave its charge back.                     *)
CostFollowsLedger == Quiet /\ crashes = 0 => (call.credits = 0 <=> refunds > 0)

(* "A call that never connected consumed no telephony minutes": it has been  *)
(* refunded once it is over and nobody is syncing it.                        *)
UnconnectedIsRefunded == Quiet /\ call.status \in Terminal /\ ~Connected(line) => refunds > 0

(* Once the call is over and nobody is syncing it, whatever its syncers did  *)
(* twice, it was refunded if it did not connect, its lead's campaign row     *)
(* says how it ended, somebody was told and an event was sent.               *)
EndAgrees ==
    Undisturbed /\ Quiet /\ call.status \in Terminal =>
        /\ UnconnectedIsRefunded
        /\ member = IF call.status = "COMPLETED" THEN "COMPLETED" ELSE "PENDING"
        /\ notices > 0 /\ events > 0

(* A call that is over at the provider is settled here for good, terminal    *)
(* and its lead no longer claimed, also when an older answer was written     *)
(* over a terminal status meanwhile.                                         *)
CallSettles == <>[](Undisturbed => call.status \in Terminal /\ member # "IN_PROGRESS")
===============================================================================
