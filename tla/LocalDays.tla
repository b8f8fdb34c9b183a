------------------------------- MODULE LocalDays -------------------------------
(***************************************************************************)
(* The date arithmetic of followup-rules.ts.  An instant is a number of    *)
(* hours of UTC, a date a number of days.  A zone is ahead of UTC by one   *)
(* offset before its clocks change, and by another from then on.           *)
(***************************************************************************)
EXTENDS Integers

CONSTANT Zones      \* records [before, after, change]

ASSUME ZonesAssumption == Zones \subseteq [before : -12 .. 14, after : -12 .. 14, change : Int]

\* offsetMsAt
OffsetAt(zone, at) == IF at < zone.change THEN zone.before ELSE zone.after

\* What the clock on the wall shows at an instant, in hours since the first date.
WallClock(zone, at) == at + OffsetAt(zone, at)

LocalDate(zone, at) == WallClock(zone, at) \div 24

StartOfLocalDay(zone, day) ==
    LET firstGuess == 24 * day - OffsetAt(zone, 24 * day) IN
    24 * day - OffsetAt(zone, firstGuess)

LocalMidnightPlusDays(zone, day, days) == StartOfLocalDay(zone, day + days)

\* Every day is taken to have 24 hours.
DayBoundsOf24Hours(zone, at) ==
    LET start == StartOfLocalDay(zone, LocalDate(zone, at)) IN [start |-> start, end |-> start + 24]

DayBounds(zone, at) ==
    [start |-> StartOfLocalDay(zone, LocalDate(zone, at)),
     end |-> LocalMidnightPlusDays(zone, LocalDate(zone, at), 1)]

\* What the queue calls a follow-up.
DeriveStatus(status, dueAt, bounds) ==
    CASE status # "PENDING" -> status
      [] status = "PENDING" /\ dueAt < bounds.start -> "OVERDUE"
      [] status = "PENDING" /\ bounds.start <= dueAt /\ dueAt < bounds.end -> "TODAY"
      [] OTHER -> "PENDING"

\* statusClause: whether the filter for a derived status finds it.
Finds(wanted, status, dueAt, bounds) ==
    CASE wanted = "OVERDUE" -> status = "PENDING" /\ dueAt < bounds.start
      [] wanted = "TODAY" -> status = "PENDING" /\ bounds.start <= dueAt /\ dueAt < bounds.end
      [] wanted = "PENDING" -> status = "PENDING" /\ bounds.end <= dueAt
      [] OTHER -> status = wanted

\* dueWindow
DueWithin(within, zone, at, dueAt) ==
    LET bounds == DayBounds(zone, at)
        today == LocalDate(zone, at) IN
    CASE within = "today" -> bounds.start <= dueAt /\ dueAt < bounds.end
      [] within = "tomorrow" -> bounds.end <= dueAt /\ dueAt < LocalMidnightPlusDays(zone, today, 2)
      [] within = "week" -> bounds.start <= dueAt /\ dueAt < LocalMidnightPlusDays(zone, today, 7)
      [] within = "past" -> dueAt < bounds.start

-------------------------------------------------------------------------------
\* The clocks change within a date, neither from nor to its midnight.
ChangesByDay(zone) ==
    LET old == zone.change + zone.before
        new == zone.change + zone.after IN
    old \div 24 = new \div 24 /\ old % 24 # 0 /\ new % 24 # 0

\* What the queue should call a pending follow-up: its date against today's.
StatusByDate(zone, at, dueAt) ==
    LET due == LocalDate(zone, dueAt)
        today == LocalDate(zone, at) IN
    IF due < today THEN "OVERDUE" ELSE IF due = today THEN "TODAY" ELSE "PENDING"

\* The "due within" control by dates: "the next seven calendar days and not a rolling 168 hours".
WithinByDate(within, zone, at, dueAt) ==
    LET days == LocalDate(zone, dueAt) - LocalDate(zone, at) IN
    CASE within = "today" -> days = 0
      [] within = "tomorrow" -> days = 1
      [] within = "week" -> days \in 0 .. 6
      [] within = "past" -> days < 0

(* At any moment the queue calls a pending follow-up overdue, due today or   *)
(* upcoming by its date in the workspace's zone, on the days of 23 and 25    *)
(* hours as well; each is found by the filter of that status and by no       *)
(* other; and "due within" counts dates.  The clocks must not change at      *)
(* midnight.                                                                 *)
QueueMatchesCalendar(at, instants) ==
    \A zone \in Zones, dueAt \in instants :
        ChangesByDay(zone) =>
            LET bounds == DayBounds(zone, at) IN
            /\ DeriveStatus("PENDING", dueAt, bounds) = StatusByDate(zone, at, dueAt)
            /\ \A s \in {"OVERDUE", "TODAY", "PENDING"} :
                  Finds(s, "PENDING", dueAt, bounds) <=> s = DeriveStatus("PENDING", dueAt, bounds)
            /\ \A within \in {"today", "tomorrow", "week", "past"} :
                  DueWithin(within, zone, at, dueAt) <=> WithinByDate(within, zone, at, dueAt)
===============================================================================
