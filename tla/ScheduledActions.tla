-------------------------- MODULE ScheduledActions --------------------------
(***************************************************************************)
(* Scheduled workstation actions.  In each tick the service looks at every *)
(* action that is due, runs it, and saves the occurrences that ran, once,  *)
(* at the end.  An action of the kind "notifications" blocks the desktop's *)
(* notifications through the user's own command, which keeps the values it *)
(* found in a file, and is to give them back at the end of the window.     *)
(*                                                                         *)
(* A command may fail at any of its steps, the service may die between any *)
(* two, and the user may run the same command by hand.                     *)
(***************************************************************************)
EXTENDS Schedules

CONSTANTS
    Ids,              \* actions
    ActionSchedules,  \* names of the schedules they may have
    ScheduleOf,       \* what each of them is
    Settings,         \* the keys of the desktop's notifications
    MaxTime, MaxFaults, MaxEdits,
    NoItem, NotSaved, NotLooking

Kinds == {"command", "notifications"}
Instants == 0 .. MaxTime
Preference == [Settings -> BOOLEAN]
Silent == [k \in Settings |-> FALSE]
Item == [kind : Kinds, enabled : BOOLEAN, schedule : ActionSchedules,
         fired : Int \cup {None}]

ASSUME ActionsAssumption ==
    /\ IsFiniteSet(Settings)
    /\ MaxTime \in Nat /\ MaxFaults \in Nat /\ MaxEdits \in Nat
    /\ NotSaved \notin Preference /\ NoItem \notin Item
    /\ \A s \in ActionSchedules : OneTimeSchedule(ScheduleOf[s]) \/ WeeklySchedule(ScheduleOf[s])

VARIABLES
    now, trusted,
    items,     \* the signed file, and the memory of a service that runs
    up,
    active,    \* _active_notification_actions
    waiting,   \* actions whose retry is not due yet
    look,      \* the pass over the actions that is under way
    keys,      \* the desktop's settings
    saved,     \* the user's notifications.json
    pref,      \* what the user last chose
    ran,       \* history: occurrences that ran and were saved
    again,     \* history: actions that ran such an occurrence once more
    faults, edits

clock == <<now, trusted>>
memory == <<active, waiting>>
desktop == <<keys, saved, pref>>
history == <<ran, again>>
bounds == <<faults, edits>>
vars == <<now, trusted, items, up, active, waiting, look, keys, saved, pref,
          ran, again, faults, edits>>

Look == [todo : SUBSET Ids, at : Instants, updated : [Ids -> Item \cup {NoItem}],
         changed : SUBSET (Ids \X Int)]

TypeOK ==
    /\ now \in Instants /\ trusted \in BOOLEAN /\ up \in BOOLEAN
    /\ items \in [Ids -> Item \cup {NoItem}]
    /\ active \in SUBSET Ids /\ waiting \in SUBSET Ids
    /\ look \in Look \cup {NotLooking}
    /\ keys \in Preference /\ pref \in Preference /\ saved \in Preference \cup {NotSaved}
    /\ ran \in [Ids -> SUBSET Int] /\ again \in SUBSET Ids
    /\ faults \in 0 .. MaxFaults /\ edits \in 0 .. MaxEdits

Init ==
    /\ now = 0 /\ trusted = TRUE
    /\ items = [i \in Ids |-> NoItem] /\ up = TRUE
    /\ active = {} /\ waiting = {} /\ look = NotLooking
    /\ keys = [k \in Settings |-> TRUE] /\ pref = keys /\ saved = NotSaved  \* GNOME's defaults
    /\ ran = [i \in Ids |-> {}] /\ again = {}
    /\ faults = 0 /\ edits = 0

Spend == faults < MaxFaults /\ faults' = faults + 1
Edit == edits < MaxEdits /\ edits' = edits + 1

-----------------------------------------------------------------------------
(* The command of the user: notifications block and unblock. *)

\* A desktop: its settings and the saved file.
Desktop == [keys |-> keys, saved |-> saved]
Becomes(d) == keys' = d.keys /\ saved' = d.saved /\ UNCHANGED pref

\* The settings are set one after the other.
PartlySet(from, to) == {[k \in Settings |-> IF k \in done THEN to[k] ELSE from[k]]
                        : done \in SUBSET Settings}

\* Mutant: the settings of the moment are saved each time.
KeptAlways(d) == d.keys
\* block saves what it found, unless a file is there already.
Kept(d) == IF d.saved = NotSaved THEN d.keys ELSE d.saved
Blocked(d) == [keys |-> Silent, saved |-> Kept(d)]
\* What a failing block leaves: nothing done, or saved and partly set.
PartlyBlocked(d) ==
    {d} \cup {[keys |-> k, saved |-> Kept(d)] : k \in PartlySet(d.keys, Silent)}

\* restore_saved_state removes the file when all settings are back.
Restored(d) == IF d.saved = NotSaved THEN d ELSE [keys |-> d.saved, saved |-> NotSaved]
PartlyRestored(d) ==
    IF d.saved = NotSaved THEN {d}
    ELSE {Restored(d)} \cup {[keys |-> k, saved |-> d.saved] : k \in PartlySet(d.keys, d.saved)}

Run(d, block) == IF block THEN Blocked(d) ELSE Restored(d)
Failing(d, block) == IF block THEN PartlyBlocked(d) ELSE PartlyRestored(d)

-----------------------------------------------------------------------------
(* The pass over the actions, in tick. *)

StartLook ==
    /\ up /\ look = NotLooking /\ trusted
    /\ look' = [todo |-> {i \in Ids : items[i] # NoItem}, at |-> now,
                updated |-> items, changed |-> {}]
    /\ UNCHANGED <<clock, items, up, memory, desktop, history, bounds>>

LooksAt(i) == up /\ look # NotLooking /\ i \in look.todo
LookedAt(i) == look' = [look EXCEPT !.todo = @ \ {i}]

\* Each schedule's occurrences, as a table.
Starts == [s \in ActionSchedules |-> [t \in Instants |-> OccurrenceStart(ScheduleOf[s], t)]]

\* Mutant: a one-time action is due in the unit of its start only.
OccurrenceAtStartOnly(item, t) ==
    IF item.enabled /\ Starts[item.schedule][t] = t /\ item.fired # t THEN t ELSE None
\* ScheduledAction.occurrence_at: the occurrence that fired last is not due again.
OccurrenceAt(item, t) ==
    IF item.enabled /\ item.fired # Starts[item.schedule][t]
    THEN Starts[item.schedule][t] ELSE None

\* A notifications action with a one-time schedule ends with its window.
Due(item, t) ==
    IF item.kind = "notifications" /\ ScheduleOf[item.schedule].kind = "one_time"
       /\ t >= ScheduleOf[item.schedule].end
    THEN None ELSE OccurrenceAt(item, t)
Occurrence(i) == Due(items[i], look.at)

\* Not due, or waiting for its retry, or blocking already.
Skip(i) ==
    /\ LooksAt(i) /\ LookedAt(i)
    /\ \/ i \in waiting /\ UNCHANGED memory
       \/ /\ i \notin waiting /\ Occurrence(i) = None
          /\ items[i].kind = "command" \/ i \notin active \/ Cardinality(active) > 1
          /\ active' = active \ {i} /\ UNCHANGED waiting
       \/ /\ i \notin waiting /\ Occurrence(i) # None
          /\ items[i].kind = "notifications" /\ i \in active /\ UNCHANGED memory
    /\ UNCHANGED <<clock, items, up, desktop, history, bounds>>

\* The last active action is not due any more.
Ends(i) ==
    /\ LooksAt(i) /\ i \notin waiting
    /\ items[i].kind = "notifications" /\ Occurrence(i) = None /\ active = {i}
\* It runs: the window began, or the command is due.
Begins(i) ==
    /\ LooksAt(i) /\ i \notin waiting /\ Occurrence(i) # None
    /\ items[i].kind = "command" \/ i \notin active

GiveBack(i) ==
    /\ Ends(i) /\ LookedAt(i)
    /\ Becomes(Run(Desktop, FALSE))
    /\ active' = {} /\ UNCHANGED waiting
    /\ UNCHANGED <<clock, items, up, history, bounds>>

\* Mutant: the occurrence is noted in the items the pass began with.
NotedAlone(i, occurrence) ==
    [look EXCEPT !.todo = @ \ {i}, !.changed = @ \cup {<<i, occurrence>>},
                 !.updated = [items EXCEPT ![i].fired = occurrence]]
\* The occurrence that ran is noted for the save at the end of the pass.
Noted(i, occurrence) ==
    [look EXCEPT !.todo = @ \ {i}, !.changed = @ \cup {<<i, occurrence>>},
                 !.updated[i].fired = occurrence]

Fire(i) ==
    /\ Begins(i)
    /\ look' = Noted(i, Occurrence(i))
    /\ IF items[i].kind = "notifications"
       THEN Becomes(Run(Desktop, TRUE)) /\ active' = active \cup {i}
       ELSE UNCHANGED <<desktop, active>>
    /\ again' = IF Occurrence(i) \in ran[i] THEN again \cup {i} ELSE again
    /\ UNCHANGED <<clock, items, up, waiting, ran, bounds>>

\* The command failed; it is tried again after a delay.
Fail(i) ==
    /\ Begins(i) \/ Ends(i)
    /\ Spend /\ LookedAt(i)
    /\ waiting' = waiting \cup {i}
    /\ IF items[i].kind = "notifications"
       THEN \E d \in Failing(Desktop, Begins(i)) : Becomes(d)
       ELSE UNCHANGED desktop
    /\ UNCHANGED <<clock, items, up, active, history, edits>>

\* The delay is at most five minutes.
RetryDue(i) ==
    /\ i \in waiting /\ look = NotLooking
    /\ waiting' = waiting \ {i}
    /\ UNCHANGED <<clock, items, up, active, look, desktop, history, bounds>>

Pass == up /\ look # NotLooking /\ look.todo = {}

\* One save for all that ran; a pass in which nothing ran saves nothing.
EndLook ==
    /\ Pass /\ look' = NotLooking
    /\ items' = look.updated
    /\ ran' = [i \in Ids |-> ran[i] \cup {c[2] : c \in {p \in look.changed : p[1] = i}}]
    /\ UNCHANGED <<clock, up, memory, desktop, again, bounds>>

\* The save fails, which is only logged.
EndLookUnsaved ==
    /\ Pass /\ look.changed # {} /\ Spend /\ look' = NotLooking
    /\ UNCHANGED <<clock, items, up, memory, desktop, history, edits>>

-----------------------------------------------------------------------------
(* Commands. *)

Idle == up /\ look = NotLooking

\* Stored: the edited item, with no occurrence noted that fired.
Put(i, item) ==
    /\ items' = [items EXCEPT ![i] = item]
    /\ ran' = [ran EXCEPT ![i] = {}] /\ again' = again \ {i}

\* Replacing the only active action by another one gives notifications back first.
RestoresBeforePut(i, new) ==
    /\ items[i] # NoItem /\ items[i].kind = "notifications" /\ active = {i}
    /\ \/ new.kind # items[i].kind
       \/ new.enabled # items[i].enabled
       \/ new.schedule # items[i].schedule
RestoresBeforeDelete(i) == items[i].kind = "notifications" /\ active = {i}

PutAction(i) ==
    \E new \in [kind : Kinds, enabled : {TRUE}, schedule : ActionSchedules, fired : {None}] :
        /\ Idle /\ Edit
        /\ Put(i, new)
        /\ active' = active \ {i}
        /\ IF RestoresBeforePut(i, new) THEN Becomes(Run(Desktop, FALSE)) ELSE UNCHANGED desktop
        /\ UNCHANGED <<clock, up, waiting, look, faults>>

\* The notifications cannot be given back, or the save fails and they are blocked
\* again, which may fail as well.
PutActionFails(i) ==
    /\ Idle /\ Edit /\ Spend
    /\ active = {i} /\ items[i] # NoItem /\ items[i].kind = "notifications"
    /\ \E d \in PartlyRestored(Desktop)
             \cup {Run(Restored(Desktop), TRUE)} \cup PartlyBlocked(Restored(Desktop)) :
           Becomes(d)
    /\ UNCHANGED <<clock, items, up, memory, look, history>>

DeleteAction(i) ==
    /\ Idle /\ Edit /\ items[i] # NoItem
    /\ Put(i, NoItem)
    /\ active' = active \ {i}
    /\ IF RestoresBeforeDelete(i) THEN Becomes(Run(Desktop, FALSE)) ELSE UNCHANGED desktop
    /\ UNCHANGED <<clock, up, waiting, look, faults>>

\* Given back or not, the action stays.
DeleteActionFails(i) ==
    /\ Idle /\ Spend /\ items[i] # NoItem /\ RestoresBeforeDelete(i)
    /\ \E d \in PartlyRestored(Desktop) : Becomes(d)
    /\ UNCHANGED <<clock, items, up, memory, look, history, edits>>

SetActionEnabled(i) ==
    /\ Idle /\ Edit /\ items[i] # NoItem
    /\ items' = [items EXCEPT ![i].enabled = ~@]
    /\ UNCHANGED <<clock, up, memory, look, desktop, history, faults>>

\* notifications block and unblock by hand, or from the tray.
UserRuns ==
    /\ Edit
    /\ \E block \in BOOLEAN : Becomes(Run(Desktop, block))
    /\ UNCHANGED <<clock, items, up, memory, look, history, faults>>
UserRunFails ==
    /\ Spend
    /\ \E block \in BOOLEAN : \E d \in Failing(Desktop, block) : Becomes(d)
    /\ UNCHANGED <<clock, items, up, memory, look, history, edits>>

\* The desktop's own settings, while nothing is blocked.
UserChooses ==
    /\ Edit /\ saved = NotSaved
    /\ keys' \in Preference /\ pref' = keys'
    /\ UNCHANGED <<clock, items, up, memory, look, saved, history, faults>>

-----------------------------------------------------------------------------
(* The process and the clock. *)

\* close gives notifications back for each active action; its errors are logged.
Close ==
    /\ Idle /\ Edit
    /\ up' = FALSE /\ active' = {} /\ waiting' = {}
    /\ IF \E i \in active : items[i] # NoItem THEN Becomes(Run(Desktop, FALSE))
       ELSE UNCHANGED desktop
    /\ UNCHANGED <<clock, items, look, history, faults>>
CloseFails ==
    /\ Idle /\ Edit /\ Spend /\ active # {}
    /\ up' = FALSE /\ active' = {} /\ waiting' = {}
    /\ \E d \in PartlyRestored(Desktop) : Becomes(d)
    /\ UNCHANGED <<clock, items, look, history>>

\* The process dies, maybe while a command runs for it, which may go on.
Die ==
    /\ up /\ Spend
    /\ up' = FALSE /\ active' = {} /\ waiting' = {} /\ look' = NotLooking
    /\ \/ UNCHANGED desktop
       \/ /\ look # NotLooking
          /\ \E i \in look.todo :
                /\ items[i].kind = "notifications" /\ (Begins(i) \/ Ends(i))
                /\ \E d \in Failing(Desktop, Begins(i)) : Becomes(d)
    /\ UNCHANGED <<clock, items, history, edits>>

Start ==
    /\ ~up /\ up' = TRUE
    /\ UNCHANGED <<clock, items, memory, look, desktop, history, bounds>>

Elapse ==
    /\ now < MaxTime /\ now' = now + 1
    /\ UNCHANGED <<trusted, items, up, memory, look, desktop, history, bounds>>
SetTrust ==
    /\ Edit /\ trusted' = ~trusted
    /\ UNCHANGED <<now, items, up, memory, look, desktop, history, faults>>

Passing == StartLook \/ EndLook \/ \E i \in Ids : Skip(i) \/ GiveBack(i) \/ Fire(i)

Next ==
    \/ Passing \/ EndLookUnsaved
    \/ \E i \in Ids : Fail(i) \/ RetryDue(i) \/ PutAction(i) \/ PutActionFails(i)
                      \/ DeleteAction(i) \/ DeleteActionFails(i) \/ SetActionEnabled(i)
    \/ UserRuns \/ UserRunFails \/ UserChooses
    \/ Close \/ CloseFails \/ Die \/ Start \/ Elapse \/ SetTrust

Fairness == WF_vars(Passing) /\ WF_vars(Start) /\ \A i \in Ids : SF_vars(RetryDue(i))
Spec == Init /\ [][Next]_vars /\ Fairness

-----------------------------------------------------------------------------
(* Properties. *)

\* An occurrence that ran and was saved does not run again, however the actions
\* of one pass fail and whenever the service ends, unless rows of its schedule
\* overlap or the offset of its zone changes.  (_run_scheduled_actions saves all
\* occurrences of a pass at once; occurrence_at knows only the last that ran.)
OccurrencesRunOnce ==
    \A i \in again : LET s == ScheduleOf[items[i].schedule]
                    IN  HasOverlappingRows(s) \/ ChangesOffset(s)

\* What a test says of a due action: it runs once.
\* (test_due_action_runs_once_and_persists_last_fired)
DueRunsOnce == again = {}

\* Whatever fails in between, the user's choice is what the desktop has while
\* nothing is saved, and what is saved while it is blocked.  (notifications.block
\* and restore_saved_state.)
PreferenceKept == IF saved = NotSaved THEN keys = pref ELSE saved = pref

\* Once the clock is trusted for good, an enabled one-time command whose time has
\* come runs and is noted, or is edited, disabled or deleted.  (A failed command
\* is retried, a pass goes on past it, and a missed tick does not lose it.)
Owed(i) ==
    /\ items[i] # NoItem
    /\ items[i].enabled /\ items[i].kind = "command" /\ ScheduleOf[items[i].schedule].kind = "one_time"
    /\ ScheduleOf[items[i].schedule].start <= now /\ items[i].fired # ScheduleOf[items[i].schedule].start
DueCommandsRun == \A i \in Ids : <>[]trusted => (Owed(i) ~> ~Owed(i))

\* What a user is shown of a rule, now or for a time to come, is what is enforced:
\* its next change, and its intervals in a day.  (schedule_view)
ViewsAgree == \A t \in now .. LastView : Agrees[t]

\* What the user was told: the notifications that a scheduled action blocked stay
\* blocked for its window, if nobody edits it and nothing fails.
BlockedForTheWindow ==
    [][(saved # NotSaved /\ edits' = edits /\ faults' = faults)
       => \A i \in active :
             (items[i] # NoItem /\ items[i].enabled
              /\ IsActive(ScheduleOf[items[i].schedule], now)) => saved' # NotSaved]_vars

=============================================================================
