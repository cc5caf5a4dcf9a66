----------------------------- MODULE Schedules -----------------------------
(***************************************************************************)
(* Schedules of rules and of scheduled actions, as functions of the time:  *)
(* when a schedule is active, which occurrence an action is due for, when  *)
(* a rule changes next, and which intervals of a day it covers.            *)
(*                                                                         *)
(* An instant is a number of units of UTC.  A zone has one transition, at  *)
(* which its offset changes: forward, and local times are skipped, or      *)
(* back, and they come twice.  Boundaries are whole units, so that the     *)
(* microsecond before an instant is its preceding unit.                    *)
(***************************************************************************)
EXTENDS Integers, FiniteSets, Sequences

CONSTANTS
    DayLength,      \* units in a day
    None,           \* no instant
    RuleSchedules,  \* schedules of rules for which the views are checked
    Zones,          \* zones of the viewer
    LastView,       \* the last instant at which they are
    Transitions     \* MAX_DAILY_TRANSITIONS

ASSUME ScheduleAssumption ==
    /\ DayLength \in Nat \ {0} /\ LastView \in Nat /\ Transitions \in Nat
    /\ None \notin Int

Week == 7
Weekday == 0 .. Week - 1

\* A zone: its offset before and after the instant "shift".
Offset(zone, t) == IF t < zone.shift THEN zone.before ELSE zone.after
Local(zone, t) == t + Offset(zone, t)
Date(local) == local \div DayLength

\* datetime.combine(...).astimezone(UTC): a local time that is skipped or comes
\* twice has the old offset with fold 0 and the new one with fold 1.
Utc(zone, local, fold) ==
    LET early == local - zone.before
        late  == local - zone.after
    IN  IF early < zone.shift /\ late < zone.shift THEN early
        ELSE IF early >= zone.shift /\ late >= zone.shift THEN late
        ELSE IF fold = 0 THEN early ELSE late

\* Schedules as the parser leaves them; a row that ends no later than it starts goes
\* on into the next day.
Zone == [before : Int, after : Int, shift : Int]
DayUnit == 0 .. DayLength - 1
WeeklyRow == [days : SUBSET Weekday, start : DayUnit, end : DayUnit]
OneTimeSchedule(s) == s.kind = "one_time" /\ s.start \in Int /\ s.end \in Int
WeeklySchedule(s) == s.kind = "weekly" /\ s.zone \in Zone /\ s.rows \in Seq(WeeklyRow)
PomodoroSchedule(s) ==
    /\ s.kind = "pomodoro" /\ s.start \in Int
    /\ s.work \in Nat \ {0} /\ s.break \in Nat \ {0} /\ s.cycles \in Nat \ {0}
ChangesOffset(s) == s.kind = "weekly" /\ s.zone.before # s.zone.after

\* The local times between which a row is active when it starts on a date.
RowStart(row, date) == date * DayLength + row.start
RowEnd(row, date) ==
    (IF row.end <= row.start THEN date + 1 ELSE date) * DayLength + row.end

\* The row that starts on the date contains the local time.
Covers(row, date, local) ==
    /\ date % Week \in row.days
    /\ RowStart(row, date) <= local /\ local < RowEnd(row, date)

\* Schedule.pomodoro_end_utc: no break follows the last block of work.
PomodoroEnd(s) == s.start + s.work * s.cycles + s.break * (s.cycles - 1)

\* Schedule.is_active.
IsActive(s, t) ==
    \/ s.kind = "indefinite"
    \/ s.kind = "one_time" /\ s.start <= t /\ t < s.end
    \/ /\ s.kind = "pomodoro"
       /\ s.start <= t /\ t < PomodoroEnd(s)
       /\ (t - s.start) % (s.work + s.break) < s.work
    \/ /\ s.kind = "weekly"
       /\ LET local == Local(s.zone, t)
          IN  \E i \in DOMAIN s.rows, back \in {0, 1} :
                 Covers(s.rows[i], Date(local) - back, local)

\* The rows and the dates, of the given ones, on which they start.
RowDates(s, dates) == {p \in (DOMAIN s.rows) \X dates : p[2] % Week \in s.rows[p[1]].days}

\* Schedule.has_overlapping_periods: rows of the local week, cut at its end.
RowsOfWeek(s) ==
    UNION {LET from == RowStart(s.rows[p[1]], p[2])
               to   == RowEnd(s.rows[p[1]], p[2])
               end  == Week * DayLength
           IN  IF to <= end THEN {<<p[1], from, to>>}
               ELSE {<<p[1], from, end>>, <<p[1], 0, to - end>>}
           : p \in RowDates(s, Weekday)}
HasOverlappingRows(s) ==
    /\ s.kind = "weekly"
    /\ \E r, q \in RowsOfWeek(s) : r # q /\ r[2] <= q[2] /\ q[2] < r[3]

-----------------------------------------------------------------------------
(* Occurrences of an action. *)

\* The first row in the order of the schedule that covers the local time, of
\* those that start today and then of those that started yesterday.
DueRow(s, local) ==
    LET rows(date) == {i \in DOMAIN s.rows : Covers(s.rows[i], date, local)}
        first(set) == CHOOSE i \in set : \A j \in set : i <= j
        today == Date(local)
    IN  IF rows(today) # {} THEN <<today, first(rows(today))>>
        ELSE IF rows(today - 1) # {} THEN <<today - 1, first(rows(today - 1))>>
        ELSE <<>>

\* The start of the occurrence a schedule is in: a one-time action is due from its
\* start on, however late.
OccurrenceStart(s, t) ==
    LET row == DueRow(s, Local(s.zone, t))
    IN  IF s.kind = "one_time" THEN IF t < s.start THEN None ELSE s.start
        ELSE IF row = <<>> THEN None
        ELSE Utc(s.zone, RowStart(s.rows[row[2]], row[1]), 0)

-----------------------------------------------------------------------------
(* schedule_view. *)

\* Mutant: boundaries are converted with the old offset only.
WeeklyCandidatesOneFold(s, t) ==
    LET first == Date(Local(s.zone, t)) - 2
    IN  UNION {{Utc(s.zone, RowStart(s.rows[p[1]], p[2]), 0), Utc(s.zone, RowEnd(s.rows[p[1]], p[2]), 0)}
               : p \in RowDates(s, first .. first + 11)}
\* _weekly_events: boundaries of the rows that start in twelve days, with both
\* offsets, and the transition of the zone.
WeeklyCandidates(s, t) ==
    LET first == Date(Local(s.zone, t)) - 2
    IN  (UNION {{Utc(s.zone, RowStart(s.rows[p[1]], p[2]), f), Utc(s.zone, RowEnd(s.rows[p[1]], p[2]), f)}
                : p \in RowDates(s, first .. first + 11), f \in {0, 1}})
        \cup {u \in {s.zone.shift} : t - 2 * DayLength < u /\ u <= t + 10 * DayLength}
WeeklyEvents(s, t) ==
    {u \in WeeklyCandidates(s, t) : IsActive(s, u - 1) # IsActive(s, u)}

Earliest(times) ==
    IF times = {} THEN None ELSE CHOOSE u \in times : \A v \in times : u <= v

\* next_state_change, as the instant of the change.
NextStateChange(s, t) ==
    IF s.kind = "one_time" THEN
        IF t < s.start THEN s.start ELSE IF t < s.end THEN s.end ELSE None
    ELSE IF s.kind = "pomodoro" THEN
        LET cycle   == s.work + s.break
            begun   == s.start + ((t - s.start) \div cycle) * cycle
        IN  IF t < s.start THEN s.start
            ELSE IF t >= PomodoroEnd(s) THEN None
            ELSE IF t < begun + s.work THEN begun + s.work ELSE begun + cycle
    ELSE IF s.kind = "weekly" THEN
        Earliest({u \in WeeklyEvents(s, t) : u > t /\ IsActive(s, u) # IsActive(s, t)})
    ELSE None

\* project_daily_schedule walks from change to change.  A place of the walk is
\* the cursor, the start of the open interval, and the closed intervals.
Step(s, from, to, place) ==
    LET change == NextStateChange(s, place.cursor)
    IN  IF place.over \/ change = None \/ change >= to
        THEN [place EXCEPT !.over = TRUE]
        ELSE IF IsActive(s, change)
        THEN [place EXCEPT !.cursor = change,
                           !.open = IF @ = None THEN IF change > from THEN change ELSE from
                                    ELSE @]
        ELSE [place EXCEPT !.cursor = change, !.open = None,
                           !.closed = IF place.open = None THEN @
                                      ELSE @ \cup {<<place.open, change>>}]

WalkStart(s, from) ==
    [cursor |-> from - 1, open |-> IF IsActive(s, from) THEN from ELSE None,
     closed |-> {}, over |-> FALSE]

\* Where the walk is after the greatest number of changes.
WalkEnd(s, from, to) ==
    LET walk[n \in 0 .. Transitions] ==
            IF n = 0 THEN WalkStart(s, from) ELSE Step(s, from, to, walk[n - 1])
    IN  walk[Transitions]

\* The midnight a date begins with.
DayStart(zone, date) == Utc(zone, date * DayLength, 0)

\* The intervals of one rule on a day of the viewer's zone, in UTC.
DailyIntervals(s, date, zone, exhausted) ==
    LET from == DayStart(zone, date)
        to   == DayStart(zone, date + 1)
        last == WalkEnd(s, from, to)
    IN  IF exhausted THEN {<<from, to>>}
        ELSE IF last.open = None THEN last.closed
        ELSE last.closed \cup {<<last.open, to>>}

-----------------------------------------------------------------------------
(* What the views promise. *)

\* The schedules of rules.  No zone's offset changes by more than a day.
ChangesByADay(zone) == zone.after - zone.before \in -DayLength .. DayLength
RuleSchedule(s) ==
    \/ s.kind = "indefinite"
    \/ OneTimeSchedule(s) /\ s.start < s.end
    \/ PomodoroSchedule(s)
    \/ WeeklySchedule(s) /\ ChangesByADay(s.zone)

\* The local times that a zone skips, or has twice, are of one day.
KeepsMidnight(zone) ==
    LET before == zone.shift + zone.before
        after  == zone.shift + zone.after
    IN  Date(before - 1) <= Date(after) /\ Date(after - 1) <= Date(before)
ViewerZone(zone) ==
    /\ zone \in Zone /\ ChangesByADay(zone) /\ KeepsMidnight(zone)
    /\ zone.before \in -DayLength .. DayLength /\ zone.after \in -DayLength .. DayLength

ASSUME ViewAssumption ==
    /\ \A s \in RuleSchedules : RuleSchedule(s)
    /\ \A zone \in Zones : ViewerZone(zone)

ViewInstants == 0 .. LastView

\* The next change that is shown is the first instant at which the enforcement of
\* the rule changes: none is invented and none of eight days is missed, at midnight, in
\* the rows of yesterday, or where the offset of the zone changes.
ChangeIsReal(s, t) ==
    NextStateChange(s, t) \in Int =>
        /\ NextStateChange(s, t) > t
        /\ IsActive(s, NextStateChange(s, t)) # IsActive(s, t)
NoChangeIsMissed(s, t) ==
    \A u \in t + 1 .. t + 8 * DayLength :
        IsActive(s, u) # IsActive(s, t) => NextStateChange(s, t) \in t + 1 .. u
NextChangeIsFirst(s, t) == ChangeIsReal(s, t) /\ NoChangeIsMissed(s, t)

\* The overview of a day shows exactly the time in which the rule is enforced, in
\* intervals that do not touch.
ViewDates == -1 .. LastView \div DayLength + 1
Days == [s \in RuleSchedules |->
           [zone \in Zones |-> [date \in ViewDates |->
               DailyIntervals(s, date, zone, FALSE)]]]
DayShowsActivity(s, zone, t) ==
    LET shown == Days[s][zone][Date(Local(zone, t))]
    IN  /\ IsActive(s, t) <=> \E r \in shown : r[1] <= t /\ t < r[2]
        /\ \A r, q \in shown : r # q => r[2] < q[1] \/ q[2] < r[1]

\* The walks through the days that are viewed end before the greatest number of changes.
WalksEnd ==
    \A s \in RuleSchedules, zone \in Zones, date \in ViewDates :
        WalkEnd(s, DayStart(zone, date), DayStart(zone, date + 1)).over

Agrees == [t \in ViewInstants |->
              \A s \in RuleSchedules : NextChangeIsFirst(s, t)
                                       /\ \A zone \in Zones : DayShowsActivity(s, zone, t)]

=============================================================================
