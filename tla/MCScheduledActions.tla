------------------------- MODULE MCScheduledActions -------------------------
(* Two actions over a day of four units, in a zone without a transition or   *)
(* with one, and the views of rules over nine days.                          *)
EXTENDS ScheduledActions

Plain == [before |-> 0, after |-> 0, shift |-> 0]
Forward == [before |-> 1, after |-> 3, shift |-> 9]
Back == [before |-> 2, after |-> 0, shift |-> 17]

OneTime == [kind |-> "one_time", start |-> 1, end |-> 2]
Row(days, start, end) == [days |-> days, start |-> start, end |-> end]
Weekly(zone, rows) == [kind |-> "weekly", zone |-> zone, rows |-> rows]

\* "nights" goes on after midnight, where the next row begins; the rows of "twice"
\* overlap, the later one first; "back" comes back to its first row.
Evening == [before |-> 2, after |-> 2, shift |-> 0]
Returned == [before |-> 2, after |-> 0, shift |-> 2]
MCActionSchedules == {"once", "nights", "twice", "back"}
MCScheduleOf ==
    [s \in MCActionSchedules |->
        CASE s = "once"   -> OneTime
          [] s = "nights" -> Weekly(Evening, <<Row({0}, 3, 1), Row({1}, 1, 2)>>)
          [] s = "back" -> Weekly(Returned, <<Row({0}, 2, 3), Row({0}, 3, 0)>>)
          [] s = "twice"  -> Weekly(Plain, <<Row({0}, 1, 2), Row({0}, 0, 3)>>)]

MCRuleSchedules ==
    {[kind |-> "indefinite"], [kind |-> "one_time", start |-> 3, end |-> 9],
     [kind |-> "pomodoro", start |-> 2, work |-> 2, break |-> 1, cycles |-> 4]}
    \cup {Weekly(z, <<Row({0, 3, 6}, 3, 2), Row({0, 2}, 1, 2)>>) : z \in {Plain, Forward, Back}}
    \cup {Weekly(z, <<Row({1, 2, 4}, 0, 0), Row({2, 4}, 1, 3)>>) : z \in {Forward, Back}}
    \cup {Weekly(Forward, <<Row({0, 1, 2, 3, 4, 5, 6}, 0, 0)>>)}

MCZones == {Plain, Forward, Back}

ASSUME RuleSchedules = MCRuleSchedules => WalksEnd

\* Two short rows in the hours that come twice, with the number of changes that
\* schedule_view.py allows for two rows and three cycles.
Repeated == [before |-> 4, after |-> 0, shift |-> 10]
MCRepeatedRows == {Weekly(Repeated, <<Row({1}, 2, 3), Row({1}, 4, 5)>>)}
MCRepeatedZones == {Repeated}
=============================================================================
