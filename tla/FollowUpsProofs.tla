---------------------------- MODULE FollowUpsProofs ----------------------------
(***************************************************************************)
(* What holds of FollowUps for any workers, zones and moments.             *)
(***************************************************************************)
EXTENDS FollowUps, FiniteSetTheorems, TLAPS

USE ZonesAssumption DEF ZonesAssumption

-------------------------------------------------------------------------------
(* The calendar *)

\* The start of a local day parts the instants by their dates.
LEMMA StartParts ==
    ASSUME NEW zone \in Zones, ChangesByDay(zone), NEW day \in Int, NEW at \in Int
    PROVE  /\ StartOfLocalDay(zone, day) \in Int /\ LocalDate(zone, at) \in Int
           /\ at < StartOfLocalDay(zone, day) <=> LocalDate(zone, at) < day
<1> DEFINE b == zone.before
<1> DEFINE a == zone.after
<1> DEFINE c == zone.change
<1> DEFINE D == (c + b) \div 24
<1>1. a \in Int /\ b \in Int /\ c \in Int
  OBVIOUS
<1>2. 24 * D < c + b /\ 24 * D < c + a /\ c + b < 24 * D + 24 /\ c + a < 24 * D + 24 /\ D \in Int
  BY <1>1 DEF ChangesByDay
<1>3. \A x \in Int : OffsetAt(zone, x) = (IF x < c THEN b ELSE a)
  BY DEF OffsetAt
<1>4. LocalDate(zone, at) \in Int /\ (LocalDate(zone, at) < day <=> at + OffsetAt(zone, at) < 24 * day)
  BY <1>1, <1>3 DEF LocalDate, WallClock
<1>5. StartOfLocalDay(zone, day) = 24 * day - (IF day <= D THEN b ELSE a)
  <2> DEFINE guess == 24 * day - OffsetAt(zone, 24 * day)
  <2>1. guess \in Int /\ guess \in {24 * day - b, 24 * day - a}
    BY <1>1, <1>3
  <2>2. CASE day <= D
    <3>1. guess < c
      BY <1>1, <1>2, <2>1, <2>2
    <3> QED
      BY <1>3, <2>1, <2>2, <3>1 DEF StartOfLocalDay
  <2>3. CASE day > D
    <3>1. ~(guess < c)
      BY <1>1, <1>2, <2>1, <2>3
    <3> QED
      BY <1>1, <1>2, <1>3, <2>1, <2>3, <3>1 DEF StartOfLocalDay
  <2> QED
    BY <1>2, <2>2, <2>3
<1>6. at < StartOfLocalDay(zone, day) <=> at + OffsetAt(zone, at) < 24 * day
  BY <1>1, <1>2, <1>3, <1>5
<1> QED
  BY <1>1, <1>2, <1>4, <1>5, <1>6

(* The queue of follow-ups calls each by its date and every filter finds     *)
(* what it names, in every zone whose clocks do not change at midnight.      *)
THEOREM QueueFollowsCalendar ==
    ASSUME NEW at \in Int, NEW instants \in SUBSET Int
    PROVE  QueueMatchesCalendar(at, instants)
<1> SUFFICES ASSUME NEW zone \in Zones, NEW dueAt \in instants, ChangesByDay(zone)
             PROVE  LET bounds == DayBounds(zone, at) IN
                    /\ DeriveStatus("PENDING", dueAt, bounds) = StatusByDate(zone, at, dueAt)
                    /\ \A s \in {"OVERDUE", "TODAY", "PENDING"} :
                          Finds(s, "PENDING", dueAt, bounds) <=> s = DeriveStatus("PENDING", dueAt, bounds)
                    /\ \A within \in {"today", "tomorrow", "week", "past"} :
                          DueWithin(within, zone, at, dueAt) <=> WithinByDate(within, zone, at, dueAt)
  BY DEF QueueMatchesCalendar
<1> DEFINE today == LocalDate(zone, at)
<1> DEFINE due == LocalDate(zone, dueAt)
<1> DEFINE bounds == DayBounds(zone, at)
<1>1. today \in Int /\ due \in Int /\ dueAt \in Int
  BY StartParts
<1>2. \A n \in {0, 1, 2, 7} : LocalMidnightPlusDays(zone, today, n) \in Int /\ (dueAt < LocalMidnightPlusDays(zone, today, n) <=> due < today + n)
  BY <1>1, StartParts DEF LocalMidnightPlusDays
<1>3. bounds.start = LocalMidnightPlusDays(zone, today, 0) /\ bounds.end = LocalMidnightPlusDays(zone, today, 1)
  BY <1>1 DEF DayBounds, LocalMidnightPlusDays
<1>4. /\ dueAt < bounds.start <=> due < today
      /\ dueAt < bounds.end <=> due <= today
      /\ bounds.start <= dueAt <=> today <= due
      /\ bounds.end <= dueAt <=> today < due
  BY <1>1, <1>2, <1>3
<1>5. DeriveStatus("PENDING", dueAt, bounds) = StatusByDate(zone, at, dueAt)
  BY <1>1, <1>4 DEF DeriveStatus, StatusByDate
<1>6. ASSUME NEW s \in {"OVERDUE", "TODAY", "PENDING"}
      PROVE  Finds(s, "PENDING", dueAt, bounds) <=> s = DeriveStatus("PENDING", dueAt, bounds)
  BY <1>1, <1>4 DEF DeriveStatus, Finds
<1>7. ASSUME NEW within \in {"today", "tomorrow", "week", "past"}
      PROVE  DueWithin(within, zone, at, dueAt) <=> WithinByDate(within, zone, at, dueAt)
  <2>1. CASE within = "today"
    BY <1>1, <1>4, <2>1 DEF DueWithin, WithinByDate
  <2>2. CASE within = "tomorrow"
    BY <1>1, <1>2, <1>4, <2>2 DEF DueWithin, WithinByDate
  <2>3. CASE within = "week"
    BY <1>1, <1>2, <1>4, <2>3 DEF DueWithin, WithinByDate
  <2>4. CASE within = "past"
    BY <1>1, <1>4, <2>4 DEF DueWithin, WithinByDate
  <2> QED
    BY <2>1, <2>2, <2>3, <2>4
<1> QED
  BY <1>5, <1>6, <1>7

-------------------------------------------------------------------------------
(* Types *)

HIDE ZonesAssumption DEF ZonesAssumption
USE FollowUpsAssumption DEF FollowUpsAssumption

Rows == [status : {"NONE", "PENDING", "COMPLETED", "CANCELLED", "GONE"}, due : Nat, remind : Nat \union {Never}, sent : BOOLEAN]
WorkerStates == [pc : {"idle", "claim", "emit"}, schedule : Nat]

LEMMA TypeParts ==
    TypeOK <=> /\ now \in Nat /\ row \in Rows /\ me \in [Workers -> WorkerStates]
               /\ swept \in BOOLEAN /\ onTime \in BOOLEAN /\ stolen \in BOOLEAN
               /\ schedules \in Nat /\ announced \in Nat /\ told \in Nat /\ edits \in Nat /\ crashes \in Nat
BY DEF TypeOK, Rows, WorkerStates

LEMMA TypeInit == Init => TypeOK
<1> SUFFICES ASSUME Init PROVE TypeOK
  OBVIOUS
<1>1. row \in Rows /\ me \in [Workers -> WorkerStates]
  BY DEF Init, Rows, WorkerStates, Idle, Never
<1> QED
  BY <1>1, TypeParts DEF Init

LEMMA Reaches == ASSUME NEW r, NEW moment PROVE InReach(r, moment) \in BOOLEAN
BY DEF InReach

\* An edit gives the row new times, or a new status.
LEMMA EditTypes ==
    ASSUME TypeOK, Edit, row' \in Rows, schedules' \in Nat, told' \in Nat, onTime' \in BOOLEAN, stolen' \in BOOLEAN
    PROVE  TypeOK'
BY DEF Edit, TypeOK, Rows

LEMMA ScheduleTypes == ASSUME TypeOK, Edit, NEW r \in Rows, Schedule(r) PROVE TypeOK'
<1>1. row' \in Rows /\ schedules' \in Nat /\ told' \in Nat /\ onTime' \in BOOLEAN /\ stolen' \in BOOLEAN
  <2>1. schedules \in Nat
    BY TypeParts
  <2>3. row' \in Rows /\ schedules' \in Nat /\ told' \in Nat
    BY <2>1 DEF Schedule
  <2>4. stolen' \in BOOLEAN
    BY DEF Schedule
  <2>2. onTime' \in BOOLEAN
    BY Reaches DEF Schedule
  <2> QED
    BY <2>2, <2>3, <2>4
<1> QED
  BY <1>1, EditTypes

LEMMA TypeStep == TypeOK /\ [Next]_vars => TypeOK'
<1> SUFFICES ASSUME TypeOK, [Next]_vars PROVE TypeOK'
  OBVIOUS
<1>0. row \in Rows /\ me \in [Workers -> WorkerStates]
  BY TypeParts
<1>1. CASE Create
  <2>1. PICK due \in Times, remind \in Times \union {Never} :
            Schedule([status |-> "PENDING", due |-> due, remind |-> remind, sent |-> FALSE])
    BY <1>1 DEF Create
  <2>2. [status |-> "PENDING", due |-> due, remind |-> remind, sent |-> FALSE] \in Rows
    BY DEF Rows
  <2> QED
    BY <1>1, <2>1, <2>2, ScheduleTypes DEF Create
<1>2. CASE Move
  <2>1. PICK due \in Times : Schedule([row EXCEPT !.due = due, !.sent = SentForNewTime])
    BY <1>2 DEF Move
  <2>2. [row EXCEPT !.due = due, !.sent = SentForNewTime] \in Rows
    BY <1>0 DEF Rows, SentForNewTime
  <2> QED
    BY <1>2, <2>1, <2>2, ScheduleTypes DEF Move
<1>3. CASE MoveReminder
  <2>1. PICK remind \in Times \union {Never} : Schedule([row EXCEPT !.remind = remind, !.sent = SentForNewTime])
    BY <1>3 DEF MoveReminder
  <2>2. [row EXCEPT !.remind = remind, !.sent = SentForNewTime] \in Rows
    BY <1>0 DEF Rows, SentForNewTime
  <2> QED
    BY <1>3, <2>1, <2>2, ScheduleTypes DEF MoveReminder
<1>4. CASE SetStatus
  <2>1. row' \in Rows
    BY <1>0, <1>4 DEF SetStatus, Rows
  <2>2. onTime' \in BOOLEAN
    <3>1. onTime \in BOOLEAN
      BY DEF TypeOK
    <3> QED
      BY <1>4, <3>1, Reaches DEF SetStatus
  <2> QED
    BY <1>4, <2>1, <2>2, EditTypes DEF SetStatus, TypeOK
<1>5. CASE Complete \/ Remove
  <2>1. row' \in Rows
    BY <1>0, <1>5 DEF Complete, Remove, Rows
  <2> QED
    BY <1>5, <2>1, EditTypes DEF Complete, Remove, TypeOK
<1>6. ASSUME NEW w \in Workers, BeginPass(w) PROVE TypeOK'
  <2>0. [pc |-> "claim", schedule |-> schedules] \in WorkerStates
    BY DEF WorkerStates, TypeOK
  <2>1. me' \in [Workers -> WorkerStates] /\ swept' \in BOOLEAN
    BY <1>0, <1>6, <2>0 DEF BeginPass, TypeOK
  <2> QED
    BY <1>6, <2>1 DEF BeginPass, TypeOK, WorkerStates, history
<1>7. ASSUME NEW w \in Workers, Claim(w) PROVE TypeOK'
  <2>0. [me[w] EXCEPT !.pc = "emit"] \in WorkerStates /\ Idle \in WorkerStates
    BY <1>0 DEF WorkerStates, Idle
  <2>1. me' \in [Workers -> WorkerStates]
    <3>1. me' \in {me, [me EXCEPT ![w] = [me[w] EXCEPT !.pc = "emit"]], [me EXCEPT ![w] = Idle]}
      BY <1>7 DEF Claim
    <3> QED
      BY <1>0, <2>0, <3>1
  <2>3. swept' \in BOOLEAN /\ stolen' \in BOOLEAN
    BY <1>7 DEF Claim, TypeOK
  <2>2. row' \in Rows
    BY <1>0, <1>7 DEF Claim, Rows
  <2> QED
    BY <1>7, <2>1, <2>2, <2>3, TypeParts DEF Claim, TypeOK, WorkerStates, Rows
<1>8. ASSUME NEW w \in Workers, Emit(w) PROVE TypeOK'
  <2>1. me' \in [Workers -> WorkerStates] /\ announced' \in Nat /\ told' \in Nat
    BY <1>0, <1>8 DEF Emit, WorkerStates, TypeOK, Idle
  <2> QED
    BY <1>8, <2>1 DEF Emit, TypeOK, WorkerStates
<1>9. ASSUME NEW w \in Workers, Crash(w) PROVE TypeOK'
  <2>1. me' \in [Workers -> WorkerStates] /\ crashes' \in Nat
    BY <1>0, <1>9 DEF Crash, WorkerStates, TypeOK, Idle
  <2> QED
    BY <1>9, <2>1 DEF Crash, TypeOK, WorkerStates, history
<1>10. CASE Tick
  <2>0. now \in Nat
    BY DEF TypeOK
  <2>1. now' \in Nat /\ swept' = FALSE
    BY <1>10, <2>0 DEF Tick
  <2> QED
    BY <1>10, <2>1 DEF Tick, TypeOK, history
<1>11. CASE UNCHANGED vars
  BY <1>11 DEF vars, TypeOK
<1> QED
  BY <1>1, <1>2, <1>3, <1>4, <1>5, <1>6, <1>7, <1>8, <1>9, <1>10, <1>11 DEF Next, Requests

(* Every variable keeps its type. *)
THEOREM Typed == Spec => []TypeOK
BY TypeInit, TypeStep, PTL DEF Spec

(* The label of a pending follow-up follows the calendar of its workspace,   *)
(* wherever it is moved and whatever the moment.                             *)
THEOREM LabelsFollow == Spec => []LabelFollowsTheCalendar
<1>1. ASSUME TypeOK PROVE LabelFollowsTheCalendar
  <2>1. now \in Int /\ {row.due} \subseteq Int
    BY <1>1 DEF TypeOK
  <2> QED
    BY <2>1, QueueFollowsCalendar DEF LabelFollowsTheCalendar
<1> QED
  BY Typed, <1>1, PTL

-------------------------------------------------------------------------------
(* Announced once per schedule *)

Emitting == {w \in Workers : At(w, "emit")}

\* The current schedule may yet be announced.
Waiting == IF Stored /\ ~row.sent THEN 1 ELSE 0

LEMMA Counting ==
    ASSUME TypeOK, NEW w \in Workers, \A v \in Workers \ {w} : me'[v] = me[v]
    PROVE  /\ Cardinality(Emitting) \in Nat /\ Cardinality(Emitting') \in Nat
           /\ (me'[w].pc = "emit" <=> At(w, "emit")) => Cardinality(Emitting') = Cardinality(Emitting)
           /\ me'[w].pc = "emit" /\ ~At(w, "emit") => Cardinality(Emitting') = Cardinality(Emitting) + 1
           /\ me'[w].pc # "emit" /\ At(w, "emit") => Cardinality(Emitting') = Cardinality(Emitting) - 1
<1>1. IsFiniteSet(Emitting)
  <2>1. Emitting \subseteq Workers
    BY DEF Emitting
  <2> QED
    BY <2>1, FS_Subset
<1>2. Emitting' = (Emitting \ {w}) \union (IF me'[w].pc = "emit" THEN {w} ELSE {})
  BY DEF Emitting, At
<1>3. w \in Emitting <=> At(w, "emit")
  BY DEF Emitting
<1>4. CASE me'[w].pc = "emit" <=> At(w, "emit")
  <2>1. Emitting' = Emitting
    BY <1>2, <1>3, <1>4
  <2> QED
    BY <1>1, <1>4, <2>1, FS_CardinalityType
<1>5. CASE me'[w].pc = "emit" /\ ~At(w, "emit")
  <2>1. Emitting' = Emitting \union {w} /\ w \notin Emitting
    BY <1>2, <1>3, <1>5
  <2>2. Cardinality(Emitting') = Cardinality(Emitting) + 1
    BY <1>1, <2>1, FS_AddElement
  <2> QED
    BY <1>1, <1>5, <2>2, FS_CardinalityType
<1>6. CASE me'[w].pc # "emit" /\ At(w, "emit")
  <2>1. Emitting' = Emitting \ {w} /\ w \in Emitting
    BY <1>2, <1>3, <1>6
  <2>2. Cardinality(Emitting') = Cardinality(Emitting) - 1 /\ IsFiniteSet(Emitting')
    BY <1>1, <2>1, FS_RemoveElement
  <2> QED
    BY <1>1, <1>6, <2>2, FS_CardinalityType
<1> QED
  BY <1>4, <1>5, <1>6

OnceInv == TypeOK /\ AnnouncedOncePerSchedule

LEMMA OnceInit == Init => OnceInv
<1> SUFFICES ASSUME Init PROVE AnnouncedOncePerSchedule
  BY TypeInit DEF OnceInv
<1>1. Emitting = {}
  BY DEF Init, Emitting, At, Idle
<1>2. Cardinality(Emitting) = 0
  BY <1>1, FS_EmptySet
<1> QED
  BY <1>2 DEF Init, AnnouncedOncePerSchedule, Emitting, Waiting, Stored

LEMMA OnceStep == OnceInv /\ [Next]_vars => OnceInv'
<1> SUFFICES ASSUME OnceInv, [Next]_vars PROVE AnnouncedOncePerSchedule'
  BY TypeStep DEF OnceInv
<1> DEFINE e == Cardinality(Emitting)
<1>0. /\ TypeOK /\ announced \in Nat /\ schedules \in Nat /\ row \in Rows /\ me \in [Workers -> WorkerStates]
      /\ e \in Nat /\ announced + e <= schedules - Waiting
  <2>1. IsFiniteSet(Emitting)
    BY FS_Subset DEF Emitting
  <2>2. e \in Nat
    BY <2>1, FS_CardinalityType
  <2> QED
    BY <2>2, TypeParts DEF OnceInv, AnnouncedOncePerSchedule, Emitting, Waiting
<1>1. Waiting \in Int /\ Waiting' \in Int /\ 0 <= Waiting /\ Waiting' <= 1
  BY DEF Waiting
<1>12. announced \in Int /\ schedules \in Int /\ e \in Int /\ Waiting \in Int /\ announced + e <= schedules - Waiting
  BY <1>0, <1>1
<1> HIDE DEF e
<1> SUFFICES announced' + e' <= schedules' - Waiting'
  BY DEF AnnouncedOncePerSchedule, Emitting, e, Waiting
\* What an edit must do to the count of schedules.
<1>2. ASSUME Edit, (schedules' = schedules + 1) \/ (schedules' = schedules /\ (Stored' /\ ~row'.sent => Stored /\ ~row.sent))
      PROVE  announced' + e' <= schedules' - Waiting'
  <2>1. e' = e /\ announced' = announced
    BY <1>2 DEF Edit, Emitting, At, e
  <2>2. CASE schedules' = schedules + 1
    <3>1. \A x \in Int : x <= 1 => announced + e <= (schedules + 1) - x
      BY <1>1, <1>12
    <3> QED
      BY <1>1, <2>1, <2>2, <3>1
  <2>3. CASE schedules' = schedules /\ (Stored' /\ ~row'.sent => Stored /\ ~row.sent)
    <3>1. Waiting' <= Waiting
      BY <2>3 DEF Waiting
    <3> QED
      <4>1. \A x \in Int : x <= Waiting => announced + e <= schedules - x
        BY <1>12
      <4> QED
        BY <1>1, <2>1, <2>3, <3>1, <4>1
  <2> QED
    BY <1>2, <2>2, <2>3
<1>3. CASE Create \/ Move \/ MoveReminder
  <2>1. Edit /\ \E r : Schedule(r)
    BY <1>3 DEF Create, Move, MoveReminder
  <2>2. schedules' = schedules + 1
    BY <2>1 DEF Schedule
  <2> QED
    BY <1>2, <2>1, <2>2
<1>4. CASE SetStatus
  <2>1. row'.sent = row.sent /\ Stored
    BY <1>0, <1>4 DEF SetStatus, Rows
  <2> QED
    BY <1>2, <1>4, <2>1 DEF SetStatus
<1>5. CASE Complete \/ Remove
  <2>1. row'.sent = row.sent /\ Stored
    BY <1>0, <1>5 DEF Complete, Remove, Rows, Stored
  <2> QED
    BY <1>2, <1>5, <2>1 DEF Complete, Remove
\* What a worker's step may do to the sum.
<1>6. ASSUME NEW w \in Workers, NEW gain \in Int,
             \A v \in Workers \ {w} : me'[v] = me[v],
             gain = (IF me'[w].pc = "emit" THEN 1 ELSE 0) - (IF At(w, "emit") THEN 1 ELSE 0)
      PROVE  e' = e + gain
  <2>1. CASE me'[w].pc = "emit" <=> At(w, "emit")
    <3>1. gain = 0
      BY <1>6, <2>1
    <3> QED
      BY <1>0, <1>6, <2>1, <3>1, Counting DEF e
  <2>2. CASE me'[w].pc = "emit" /\ ~At(w, "emit")
    BY <1>0, <1>6, <2>2, Counting DEF e
  <2>3. CASE me'[w].pc # "emit" /\ At(w, "emit")
    BY <1>0, <1>6, <2>3, Counting DEF e
  <2> QED
    BY <2>1, <2>2, <2>3
<1>7. ASSUME NEW w \in Workers, BeginPass(w) PROVE announced' + e' <= schedules' - Waiting'
  <2>1. (\A v \in Workers \ {w} : me'[v] = me[v]) /\ me'[w].pc # "emit" /\ ~At(w, "emit")
    BY <1>0, <1>7 DEF BeginPass, At
  <2>2. e' = e
    BY <1>0, <1>6, <2>1
  <2>3. announced' = announced /\ schedules' = schedules /\ Waiting' = Waiting
    BY <1>7 DEF BeginPass, history, Stored, Waiting
  <2> QED
    BY <1>0, <2>2, <2>3
<1>8. ASSUME NEW w \in Workers, Claim(w) PROVE announced' + e' <= schedules' - Waiting'
  <2>0. announced' = announced /\ schedules' = schedules /\ ~At(w, "emit")
    BY <1>8 DEF Claim, At
  <2>1. CASE Unclaimed
    <3>1. (\A v \in Workers \ {w} : me'[v] = me[v]) /\ me'[w].pc = "emit"
      BY <1>0, <1>8, <2>1 DEF Claim, WorkerStates
    <3>2. e' = e + 1
      BY <1>0, <1>6, <2>0, <3>1
    <3>3. row'.sent
      BY <1>0, <1>8, <2>1 DEF Claim, Rows
    <3>4. Waiting = 1 /\ Waiting' = 0
      BY <2>1, <3>3 DEF Unclaimed, Waiting
    <3> QED
      BY <1>0, <2>0, <3>2, <3>4
  <2>2. CASE ~Unclaimed
    <3>1. (\A v \in Workers \ {w} : me'[v] = me[v]) /\ me'[w].pc # "emit"
      BY <1>0, <1>8, <2>2 DEF Claim, Idle
    <3>2. e' = e
      BY <1>0, <1>6, <2>0, <3>1
    <3>3. Waiting' = Waiting
      BY <1>8, <2>2 DEF Claim, Waiting, Stored
    <3> QED
      BY <1>0, <2>0, <3>2, <3>3
  <2> QED
    BY <2>1, <2>2
<1>9. ASSUME NEW w \in Workers, Emit(w) PROVE announced' + e' <= schedules' - Waiting'
  <2>1. (\A v \in Workers \ {w} : me'[v] = me[v]) /\ me'[w].pc # "emit" /\ At(w, "emit")
    BY <1>0, <1>9 DEF Emit, At, Idle
  <2>2. e' = e - 1
    BY <1>0, <1>6, <2>1
  <2>3. announced' = announced + 1 /\ schedules' = schedules /\ Waiting' = Waiting
    BY <1>9 DEF Emit, Stored, Waiting
  <2>4. announced' + e' = announced + e
    BY <1>0, <2>2, <2>3
  <2> QED
    BY <1>0, <2>3, <2>4
<1>10. ASSUME NEW w \in Workers, Crash(w) PROVE announced' + e' <= schedules' - Waiting'
  <2>1. (\A v \in Workers \ {w} : me'[v] = me[v]) /\ me'[w].pc # "emit"
    BY <1>0, <1>10 DEF Crash, Idle
  <2>2. e' <= e /\ e' \in Int
    <3>1. CASE At(w, "emit")
      <4>1. e' = e - 1
        BY <1>6, <1>12, <2>1, <3>1
      <4> QED
        BY <1>12, <4>1
    <3>2. CASE ~At(w, "emit")
      <4>1. e' = e + 0
        BY <1>6, <2>1, <3>2
      <4> QED
        BY <1>12, <4>1
    <3> QED
      BY <3>1, <3>2
  <2>3. announced' = announced /\ schedules' = schedules /\ Waiting' = Waiting
    BY <1>10 DEF Crash, history, Stored, Waiting
  <2> QED
    <3>1. \A x \in Int : x <= e => announced + x <= schedules - Waiting
      BY <1>12
    <3> QED
      BY <2>2, <2>3, <3>1
<1>11. CASE Tick \/ UNCHANGED vars
  <2>1. announced' = announced /\ schedules' = schedules /\ Waiting' = Waiting /\ e' = e
    BY <1>11 DEF Tick, vars, history, Stored, Emitting, At, Waiting, e
  <2> QED
    BY <1>0, <2>1
<1> QED
  BY <1>3, <1>4, <1>5, <1>7, <1>8, <1>9, <1>10, <1>11 DEF Next, Requests

(* No worker announces a schedule that another has announced, whoever dies   *)
(* and whatever is moved in between.                                         *)
THEOREM NoAlertTwice == Spec => []AnnouncedOncePerSchedule
<1>1. OnceInv => AnnouncedOncePerSchedule
  BY DEF OnceInv
<1> QED
  BY OnceInit, OnceStep, <1>1, PTL DEF Spec

-------------------------------------------------------------------------------
(* Alerts that are not missed *)

Current(w) == At(w, "emit") /\ me[w].schedule = schedules

(* Whoever claimed the schedule the follow-up has is about to announce it,   *)
(* or has.                                                                   *)
ToldInv ==
    /\ \A w \in Workers : me[w].schedule <= schedules
    /\ ~row.sent => told = 0 /\ \A w \in Workers : ~Current(w)
    /\ row.sent /\ ~stolen /\ crashes = 0 =>
          \/ told = 1 /\ \A w \in Workers : ~Current(w)
          \/ told = 0 /\ \E w \in Workers : \A v \in Workers : Current(v) <=> v = w

(* A schedule nobody has claimed is still within the lookback, and will be   *)
(* at the next moment unless a pass is yet to come at this one.              *)
ReachInv ==
    row.status = "PENDING" /\ onTime /\ ~row.sent =>
        \/ InReach(row, now + Step)
        \/ InReach(row, now) /\ ~swept /\ \A w \in Workers : ~At(w, "emit")

LateInv == row.status = "PENDING" /\ onTime /\ row.sent /\ ~stolen /\ crashes = 0 /\ ~InReach(row, now) => told = 1

MissInv == TypeOK /\ ToldInv /\ ReachInv /\ LateInv

LEMMA AlarmIsInteger == ASSUME NEW r \in Rows PROVE Alarm(r) \in Int
BY DEF Alarm, Rows, Never

LEMMA ReachShrinks == ASSUME NEW r \in Rows, now \in Nat, InReach(r, now + Step) PROVE InReach(r, now)
<1>1. Alarm(r) \in Int
  BY AlarmIsInteger
<1> QED
  BY <1>1 DEF InReach

\* What is about to pass out of the lookback is due.
LEMMA DueInTime ==
    ASSUME TypeOK, row.status = "PENDING", ~row.sent, InReach(row, now), ~InReach(row, now + Step)
    PROVE  IsDue
<1>1. row \in Rows /\ now \in Nat
  BY TypeParts
<1>2. Alarm(row) \in Int
  BY <1>1, AlarmIsInteger
<1>3. Alarm(row) <= now /\ Alarm(row) >= now - Lookback
  BY <1>1, <1>2 DEF InReach
<1> QED
  BY <1>3 DEF IsDue, Alarm

LEMMA MissInit == Init => MissInv
<1> SUFFICES ASSUME Init PROVE ToldInv /\ ReachInv /\ LateInv
  BY TypeInit DEF MissInv
<1> QED
  BY DEF Init, ToldInv, ReachInv, LateInv, Current, At, Idle

LEMMA MissSchedule ==
    ASSUME MissInv, Edit, NEW r \in Rows, Schedule(r), ~r.sent PROVE ToldInv' /\ ReachInv' /\ LateInv'
<1>1. /\ me' = me /\ now' = now /\ row' = r /\ schedules' = schedules + 1 /\ told' = 0 /\ onTime' = InReach(r, now + Step)
  BY DEF Edit, Schedule
<1>2. schedules \in Nat /\ me \in [Workers -> WorkerStates] /\ now \in Nat
  BY TypeParts DEF MissInv
<1>3. \A w \in Workers : me[w].schedule \in Nat /\ me[w].schedule <= schedules
  BY <1>2 DEF MissInv, ToldInv, WorkerStates
<1>4. \A w \in Workers : me'[w].schedule <= schedules' /\ me'[w].schedule # schedules'
  BY <1>1, <1>2, <1>3
<1>5. ToldInv'
  BY <1>1, <1>4 DEF ToldInv, Current
<1>6. ReachInv'
  BY <1>1 DEF ReachInv, InReach, Alarm
<1>7. LateInv'
  BY <1>1 DEF LateInv
<1> QED
  BY <1>5, <1>6, <1>7

\* A change of the status alone.
LEMMA MissStatus ==
    ASSUME MissInv, Edit, UNCHANGED <<schedules, told, stolen>>, NEW status,
           row' = [row EXCEPT !.status = status],
           status = "PENDING" => (onTime' <=> InReach(row, now + Step)),
           status # "PENDING" => onTime' = onTime
    PROVE  ToldInv' /\ ReachInv' /\ LateInv'
<1>1. me' = me /\ now' = now /\ swept' = swept /\ crashes' = crashes
  BY DEF Edit
<1>2. row \in Rows /\ now \in Nat
  BY TypeParts DEF MissInv
<1>3. row'.sent = row.sent /\ row'.due = row.due /\ row'.remind = row.remind /\ row'.status = status
  BY <1>2 DEF Rows
<1>4. ToldInv'
  BY <1>1, <1>3 DEF MissInv, ToldInv, Current, At
<1>5. \A m : InReach(row', m) <=> InReach(row, m)
  BY <1>3 DEF InReach, Alarm
<1>6. ReachInv'
  <2>1. row'.status = "PENDING" /\ onTime' => InReach(row, now + Step)
    BY <1>3
  <2>2. row'.status = "PENDING" /\ onTime' => InReach(row', now' + Step)
    BY <1>1, <1>5, <2>1
  <2> QED
    BY <2>2 DEF ReachInv, InReach, Alarm
<1>7. LateInv'
  <2>1. row'.status = "PENDING" /\ onTime' => InReach(row, now)
    BY <1>2, <1>3, ReachShrinks
  <2>2. row'.status = "PENDING" /\ onTime' => InReach(row', now')
    BY <1>1, <1>5, <2>1
  <2> QED
    BY <2>2 DEF LateInv, InReach, Alarm
<1> QED
  BY <1>4, <1>6, <1>7

LEMMA MissStep == MissInv /\ [Next]_vars => MissInv'
<1> SUFFICES ASSUME MissInv, [Next]_vars PROVE ToldInv' /\ ReachInv' /\ LateInv'
  BY TypeStep DEF MissInv
<1>0. /\ TypeOK /\ now \in Nat /\ row \in Rows /\ me \in [Workers -> WorkerStates]
      /\ schedules \in Nat /\ told \in Nat /\ crashes \in Nat /\ Times \subseteq Nat
  BY TypeParts DEF MissInv
<1>1. CASE UNCHANGED vars
  BY <1>1 DEF vars, MissInv, ToldInv, ReachInv, LateInv, Current, At, InReach, Alarm
<1>2. CASE Create
  <2>1. PICK due \in Times, remind \in Times \union {Never} :
           Schedule([status |-> "PENDING", due |-> due, remind |-> remind, sent |-> FALSE])
    BY <1>2 DEF Create
  <2>2. [status |-> "PENDING", due |-> due, remind |-> remind, sent |-> FALSE] \in Rows
    BY <1>0 DEF Rows
  <2> QED
    BY <1>2, <2>1, <2>2, MissSchedule DEF Create
<1>3. CASE Move
  <2>1. PICK due \in Times : Schedule([row EXCEPT !.due = due, !.sent = FALSE])
    BY <1>3 DEF Move, SentForNewTime
  <2>2. [row EXCEPT !.due = due, !.sent = FALSE] \in Rows /\ [row EXCEPT !.due = due, !.sent = FALSE].sent = FALSE
    BY <1>0 DEF Rows
  <2> QED
    BY <1>3, <2>1, <2>2, MissSchedule DEF Move
<1>4. CASE MoveReminder
  <2>1. PICK remind \in Times \union {Never} : Schedule([row EXCEPT !.remind = remind, !.sent = FALSE])
    BY <1>4 DEF MoveReminder, SentForNewTime
  <2>2. [row EXCEPT !.remind = remind, !.sent = FALSE] \in Rows /\ [row EXCEPT !.remind = remind, !.sent = FALSE].sent = FALSE
    BY <1>0 DEF Rows
  <2> QED
    BY <1>4, <2>1, <2>2, MissSchedule DEF MoveReminder
<1>5. CASE SetStatus
  <2>1. PICK status : /\ row' = [row EXCEPT !.status = status]
                      /\ onTime' = (IF status = "PENDING" THEN InReach(row, now + Step) ELSE onTime)
    BY <1>5 DEF SetStatus
  <2>2. status = "PENDING" => (onTime' <=> InReach(row, now + Step))
    BY <2>1
  <2>3. status # "PENDING" => onTime' = onTime
    BY <2>1
  <2> QED
    BY <1>5, <2>1, <2>2, <2>3, MissStatus DEF SetStatus
<1>6. CASE Complete \/ Remove
  BY <1>6, MissStatus DEF Complete, Remove
<1>7. ASSUME NEW w \in Workers, BeginPass(w) PROVE ToldInv' /\ ReachInv' /\ LateInv'
  <2>1. UNCHANGED <<now, row, schedules, told, onTime, stolen, crashes>> /\ At(w, "idle")
    BY <1>7 DEF BeginPass, history
  <2>2. \A m : InReach(row', m) <=> InReach(row, m)
    BY <2>1
  <2>3. LateInv'
    BY <2>1 DEF MissInv, LateInv, InReach, Alarm
  <2>4. CASE IsDue
    <3>1. me' = [me EXCEPT ![w] = [pc |-> "claim", schedule |-> schedules]] /\ swept' = swept
      BY <1>7, <2>4 DEF BeginPass
    <3>2. \A v \in Workers : (At(v, "emit")' <=> At(v, "emit")) /\ (Current(v)' <=> Current(v)) /\ me'[v].schedule <= schedules
      BY <1>0, <2>1, <3>1 DEF At, Current, MissInv, ToldInv
    <3>3. ToldInv'
      BY <2>1, <3>2 DEF MissInv, ToldInv
    <3>4. ReachInv'
      BY <2>1, <3>1, <3>2 DEF MissInv, ReachInv, InReach, Alarm
    <3> QED
      BY <2>3, <3>3, <3>4
  <2>5. CASE ~IsDue
    <3>1. me' = me
      BY <1>7, <2>5 DEF BeginPass
    <3>2. ToldInv'
      BY <2>1, <3>1 DEF MissInv, ToldInv, Current, At
    <3>3. row.status = "PENDING" /\ onTime /\ ~row.sent => InReach(row, now + Step)
      BY <1>0, <2>5, DueInTime DEF MissInv, ReachInv
    <3>4. ReachInv'
      BY <2>1, <3>3 DEF ReachInv, InReach, Alarm
    <3> QED
      BY <2>3, <3>2, <3>4
  <2> QED
    BY <2>4, <2>5
<1>8. ASSUME NEW w \in Workers, Claim(w) PROVE ToldInv' /\ ReachInv' /\ LateInv'
  <2>1. UNCHANGED <<now, schedules, told, onTime, crashes>> /\ At(w, "claim")
    BY <1>8 DEF Claim
  <2>2. CASE Unclaimed
    <3>1. /\ row' = [row EXCEPT !.sent = TRUE] /\ stolen' = (me[w].schedule # schedules)
          /\ me' = [me EXCEPT ![w].pc = "emit"] /\ ~row.sent
      BY <1>8, <2>2 DEF Claim, Unclaimed
    <3>2. row'.sent = TRUE /\ row'.status = row.status /\ row'.due = row.due /\ row'.remind = row.remind
      BY <1>0, <3>1 DEF Rows
    <3>3. /\ me'[w].pc = "emit" /\ me'[w].schedule = me[w].schedule
          /\ \A v \in Workers \ {w} : me'[v] = me[v]
      BY <1>0, <3>1 DEF WorkerStates
    <3>4. told = 0 /\ \A v \in Workers : ~Current(v) /\ me[v].schedule <= schedules
      BY <3>1 DEF MissInv, ToldInv
    <3>5. \A v \in Workers : me'[v].schedule <= schedules'
      BY <2>1, <3>3, <3>4
    <3>6. me[w].schedule = schedules => \A v \in Workers : Current(v)' <=> v = w
      BY <2>1, <3>3, <3>4 DEF Current, At
    <3>7. ToldInv'
      BY <2>1, <3>1, <3>2, <3>4, <3>5, <3>6 DEF ToldInv
    <3>8. ReachInv'
      BY <3>2 DEF ReachInv
    <3>9. row.status = "PENDING" /\ onTime => InReach(row, now)
      BY <1>0, <3>1, ReachShrinks DEF MissInv, ReachInv
    <3>10. LateInv'
      BY <2>1, <3>2, <3>9 DEF LateInv, InReach, Alarm
    <3> QED
      BY <3>7, <3>8, <3>10
  <2>3. CASE ~Unclaimed
    <3>1. me' = [me EXCEPT ![w] = Idle] /\ UNCHANGED <<row, stolen>>
      BY <1>8, <2>3 DEF Claim
    <3>2. \A v \in Workers : (Current(v)' <=> Current(v)) /\ me'[v].schedule <= schedules'
      BY <1>0, <2>1, <3>1 DEF At, Current, MissInv, ToldInv, Idle
    <3>3. ToldInv'
      BY <2>1, <3>1, <3>2 DEF MissInv, ToldInv
    <3>4. ReachInv'
      BY <2>3, <3>1 DEF ReachInv, Unclaimed, Stored
    <3>5. LateInv'
      BY <2>1, <3>1 DEF MissInv, LateInv, InReach, Alarm
    <3> QED
      BY <3>3, <3>4, <3>5
  <2> QED
    BY <2>2, <2>3
<1>9. ASSUME NEW w \in Workers, Emit(w) PROVE ToldInv' /\ ReachInv' /\ LateInv'
  <2>1. /\ UNCHANGED <<now, row, schedules, onTime, stolen, crashes>> /\ At(w, "emit")
        /\ me' = [me EXCEPT ![w] = Idle] /\ told' = IF me[w].schedule = schedules THEN told + 1 ELSE told
    BY <1>9 DEF Emit
  <2>2. \A v \in Workers : (Current(v)' <=> Current(v) /\ v # w) /\ me'[v].schedule <= schedules'
    BY <1>0, <2>1 DEF At, Current, MissInv, ToldInv, Idle
  <2>3. Current(w) <=> me[w].schedule = schedules
    BY <2>1 DEF Current
  <2>4. ToldInv'
    BY <1>0, <2>1, <2>2, <2>3 DEF MissInv, ToldInv
  <2>5. row.status = "PENDING" /\ onTime /\ ~row.sent => InReach(row, now + Step)
    BY <2>1 DEF MissInv, ReachInv
  <2>6. ReachInv'
    BY <2>1, <2>5 DEF ReachInv, InReach, Alarm
  <2>7. LateInv'
    <3>1. CASE told' = told
      BY <2>1, <3>1 DEF MissInv, LateInv, InReach, Alarm
    <3>2. CASE me[w].schedule = schedules
      <4>1. row.sent /\ ~stolen /\ crashes = 0 => told' = 1
        BY <2>1, <2>3, <3>2 DEF MissInv, ToldInv
      <4> QED
        BY <2>1, <4>1 DEF LateInv
    <3> QED
      BY <2>1, <3>1, <3>2
  <2> QED
    BY <2>4, <2>6, <2>7
<1>10. ASSUME NEW w \in Workers, Crash(w) PROVE ToldInv' /\ ReachInv' /\ LateInv'
  <2>1. /\ UNCHANGED <<now, row, swept, schedules, told, onTime, stolen>> /\ crashes' # 0
        /\ me' = [me EXCEPT ![w] = Idle]
    BY <1>0, <1>10 DEF Crash, history
  <2>2. \A v \in Workers : (Current(v)' => Current(v)) /\ (At(v, "emit")' => At(v, "emit")) /\ me'[v].schedule <= schedules'
    BY <1>0, <2>1 DEF At, Current, MissInv, ToldInv, Idle
  <2>3. ToldInv'
    BY <2>1, <2>2 DEF MissInv, ToldInv
  <2>4. ReachInv'
    BY <2>1, <2>2 DEF MissInv, ReachInv, InReach, Alarm
  <2> QED
    BY <2>1, <2>3, <2>4 DEF LateInv
<1>11. CASE Tick
  <2>1. /\ UNCHANGED <<row, me, schedules, told, onTime, stolen, crashes>>
        /\ swept /\ ~swept' /\ now' = now + Step /\ \A w \in Workers : ~At(w, "emit")
    BY <1>11 DEF Tick, history, At
  <2>2. ToldInv'
    BY <2>1 DEF MissInv, ToldInv, Current, At
  <2>3. ReachInv'
    BY <2>1 DEF MissInv, ReachInv, InReach, Alarm, At
  <2>4. row.sent /\ ~stolen /\ crashes = 0 => told = 1
    BY <2>1 DEF MissInv, ToldInv, Current
  <2> QED
    BY <2>1, <2>2, <2>3, <2>4 DEF LateInv
<1> QED
  BY <1>1, <1>2, <1>3, <1>4, <1>5, <1>6, <1>7, <1>8, <1>9, <1>10, <1>11 DEF Next, Requests

(* The claim and the lookback together lose no alert that was set in time,   *)
(* for any number of workers and any moves and changes of status, while no   *)
(* worker dies and none takes the claim for an earlier schedule.             *)
THEOREM NothingIsMissed == Spec => []NoAlertIsMissed
<1>1. MissInv => NoAlertIsMissed
  <2> SUFFICES ASSUME MissInv PROVE NoAlertIsMissed
    OBVIOUS
  <2>1. row \in Rows /\ now \in Nat
    BY TypeParts DEF MissInv
  <2>2. row.status = "PENDING" /\ onTime /\ ~row.sent => InReach(row, now)
    BY <2>1, ReachShrinks DEF MissInv, ReachInv
  <2> QED
    BY <2>2 DEF MissInv, LateInv, NoAlertIsMissed
<1> QED
  BY <1>1, MissInit, MissStep, PTL DEF Spec
===============================================================================
