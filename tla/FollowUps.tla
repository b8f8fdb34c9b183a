------------------------------- MODULE FollowUps -------------------------------
(***************************************************************************)
(* A follow-up and its alert: create, update, completeMany and remove of   *)
(* followups.service.ts, the calendar event it is linked to, and the       *)
(* workers that announce it when it comes due (announceDueFollowUps).      *)
(*                                                                         *)
(* `now' is in hours and advances by Step hours; a worker's pass takes far *)
(* less than that, and there is at least one between two advances.  The    *)
(* history variables count the schedules the follow-up was given and what  *)
(* was announced.                                                          *)
(***************************************************************************)
EXTENDS LocalDays, FiniteSets

CONSTANTS
    Workers,        \* one IntegrationsWorker per instance of the API
    Times,          \* instants people choose from
    Step,           \* hours between two moments
    Horizon,        \* bound: the last moment
    Lookback,       \* FOLLOW_UP_LOOKBACK_MS
    MaxEdits,       \* bound: requests
    MaxCrashes      \* bound: workers that die

Never == -1         \* no reminder

ASSUME FollowUpsAssumption ==
    /\ IsFiniteSet(Workers)
    /\ Times \subseteq Nat
    /\ Step \in Nat \ {0} /\ Horizon \in Nat /\ Lookback \in Nat
    /\ Step <= Lookback
    /\ MaxEdits \in Nat /\ MaxCrashes \in Nat

VARIABLES
    now,
    row,            \* the follow_ups row: status, dueAt, remindAt, and whether reminderSentAt is set
    me,             \* me[w]: where worker w is, and the schedule it read
    swept,          \* a worker's pass was begun and ended at this moment
    schedules,      \* times the follow-up was scheduled
    announced,      \* followup.due events about it
    told,           \* ... about the schedule it has now
    onTime,         \* it was scheduled, or reopened, in time for the next moment's lookback
    stolen,         \* the claim on its schedule was made for an earlier one
    edits, crashes

vars == <<now, row, me, swept, schedules, announced, told, onTime, stolen, edits, crashes>>

Idle == [pc |-> "idle", schedule |-> 0]

Init ==
    /\ now = 0
    /\ row = [status |-> "NONE", due |-> 0, remind |-> Never, sent |-> FALSE]
    /\ me = [w \in Workers |-> Idle]
    /\ swept = FALSE
    /\ schedules = 0 /\ announced = 0 /\ told = 0
    /\ onTime = FALSE /\ stolen = FALSE
    /\ edits = 0 /\ crashes = 0

history == <<schedules, announced, told, onTime, stolen>>

At(w, step) == me[w].pc = step
Stored == row.status \in {"PENDING", "COMPLETED", "CANCELLED"}

\* When it is to be announced.
Alarm(r) == IF r.remind = Never THEN r.due ELSE r.remind

\* A worker will still look that far back at a moment.
InReach(r, moment) == Alarm(r) >= moment - Lookback

-------------------------------------------------------------------------------
(* Requests *)

Edit == edits < MaxEdits /\ edits' = edits + 1 /\ UNCHANGED <<now, me, swept, announced, crashes>>

\* The row as it is now scheduled.
Schedule(r) ==
    /\ row' = r
    /\ schedules' = schedules + 1
    /\ told' = 0 /\ stolen' = FALSE
    /\ onTime' = InReach(r, now + Step)

\* A new follow-up; its reminder is not after it is due, if it has one.
Create ==
    /\ Edit
    /\ row.status = "NONE"
    /\ \E due \in Times, remind \in Times \union {Never} :
          /\ remind <= due
          /\ Schedule([status |-> "PENDING", due |-> due, remind |-> remind, sent |-> FALSE])

\* A move that forgets the alert was sent for the old time.
SentForOldTime == row.sent

SentForNewTime == FALSE

\* A PATCH of dueAt, or the move of the linked calendar event, which leave the reminder.
Move ==
    /\ Edit
    /\ Stored
    /\ \E due \in Times : Schedule([row EXCEPT !.due = due, !.sent = SentForNewTime])

\* A PATCH of remindAt; nothing compares it with dueAt.
MoveReminder ==
    /\ Edit
    /\ Stored
    /\ \E remind \in Times \union {Never} : Schedule([row EXCEPT !.remind = remind, !.sent = SentForNewTime])

\* A PATCH of the status.
SetStatus ==
    /\ Edit
    /\ Stored
    /\ \E status \in {"PENDING", "COMPLETED", "CANCELLED"} \ {row.status} :
          /\ row' = [row EXCEPT !.status = status]
          /\ onTime' = (IF status = "PENDING" THEN InReach(row, now + Step) ELSE onTime)
    /\ UNCHANGED <<schedules, told, stolen>>

\* completeMany leaves alone what is not pending.
Complete ==
    /\ Edit
    /\ row.status = "PENDING"
    /\ row' = [row EXCEPT !.status = "COMPLETED"]
    /\ UNCHANGED <<schedules, told, onTime, stolen>>

Remove ==
    /\ Edit
    /\ Stored
    /\ row' = [row EXCEPT !.status = "GONE"]
    /\ UNCHANGED <<schedules, told, onTime, stolen>>

-------------------------------------------------------------------------------
(* announceDueFollowUps *)

IsDue ==
    /\ row.status = "PENDING" /\ ~row.sent
    /\ \/ row.remind # Never /\ row.remind <= now /\ row.remind >= now - Lookback
       \/ row.remind = Never /\ row.due <= now /\ row.due >= now - Lookback

\* A pass that finds nothing due is over at once.
BeginPass(w) ==
    /\ At(w, "idle")
    /\ IF IsDue
       THEN me' = [me EXCEPT ![w] = [pc |-> "claim", schedule |-> schedules]] /\ UNCHANGED swept
       ELSE swept' = TRUE /\ UNCHANGED me
    /\ UNCHANGED <<now, row, history, edits, crashes>>

\* The row is claimed by its id alone.
UnclaimedAnyway == Stored

Unclaimed == Stored /\ ~row.sent

\* A conditional update, on reminderSentAt and nothing else.
Claim(w) ==
    /\ At(w, "claim")
    /\ IF Unclaimed
       THEN /\ row' = [row EXCEPT !.sent = TRUE]
            /\ stolen' = (me[w].schedule # schedules)
            /\ me' = [me EXCEPT ![w].pc = "emit"]
            /\ UNCHANGED swept
       ELSE /\ me' = [me EXCEPT ![w] = Idle]
            /\ swept' = TRUE
            /\ UNCHANGED <<row, stolen>>
    /\ UNCHANGED <<now, schedules, announced, told, onTime, edits, crashes>>

\* The event, with the follow-up as it was read.
Emit(w) ==
    /\ At(w, "emit")
    /\ announced' = announced + 1
    /\ told' = IF me[w].schedule = schedules THEN told + 1 ELSE told
    /\ me' = [me EXCEPT ![w] = Idle]
    /\ swept' = TRUE
    /\ UNCHANGED <<now, row, schedules, onTime, stolen, edits, crashes>>

-------------------------------------------------------------------------------
Crash(w) ==
    /\ ~At(w, "idle")
    /\ crashes < MaxCrashes
    /\ crashes' = crashes + 1
    /\ me' = [me EXCEPT ![w] = Idle]
    /\ UNCHANGED <<now, row, swept, history, edits>>

\* A worker passes every half minute, or every five when a scheduler calls it.
Tick ==
    /\ swept /\ \A w \in Workers : At(w, "idle")
    /\ now + Step <= Horizon
    /\ now' = now + Step
    /\ swept' = FALSE
    /\ UNCHANGED <<row, me, history, edits, crashes>>

Requests == Create \/ Move \/ MoveReminder \/ SetStatus \/ Complete \/ Remove

Next ==
    \/ Requests
    \/ \E w \in Workers : BeginPass(w) \/ Claim(w) \/ Emit(w) \/ Crash(w)
    \/ Tick

Spec == Init /\ [][Next]_vars

-------------------------------------------------------------------------------
\* The values each variable takes.
TypeOK ==
    /\ now \in Nat
    /\ row \in [status : {"NONE", "PENDING", "COMPLETED", "CANCELLED", "GONE"},
                due : Nat, remind : Nat \union {Never}, sent : BOOLEAN]
    /\ me \in [Workers -> [pc : {"idle", "claim", "emit"}, schedule : Nat]]
    /\ swept \in BOOLEAN /\ onTime \in BOOLEAN /\ stolen \in BOOLEAN
    /\ schedules \in Nat /\ announced \in Nat /\ told \in Nat
    /\ edits \in Nat /\ crashes \in Nat

(* "so a second worker or a second pass cannot announce the same follow-up   *)
(* twice": there are never more announcements than schedules, whoever dies,  *)
(* and whatever is moved under a worker's hands.                             *)
AnnouncedOncePerSchedule ==
    announced + Cardinality({w \in Workers : At(w, "emit")}) <= schedules - (IF Stored /\ ~row.sent THEN 1 ELSE 0)

(* No alert is missed: a pending follow-up whose time has passed out of the  *)
(* lookback was announced for the schedule it has, just once, if that time   *)
(* was within the lookback when it was set, no worker took the claim on it   *)
(* for an earlier schedule, and none died over it.                           *)
NoAlertIsMissed ==
    row.status = "PENDING" /\ ~InReach(row, now) /\ onTime /\ ~stolen /\ crashes = 0 => told = 1

(* The label the queue gives the follow-up, and the filters that find it,    *)
(* follow the calendar of the workspace, wherever it is moved and whatever   *)
(* the moment.                                                               *)
LabelFollowsTheCalendar == row.status = "PENDING" => QueueMatchesCalendar(now, {row.due})
===============================================================================
