# Distraction Blocker in TLA+

This directory specifies Distraction Blocker: what the commands, the clock, the
signed files and the enforcement of its root service do to each other, what the
browser's extension and the desktop clients do with its answers, and what may never
happen between them. TLC checks every specification on small
instances, and TLAPS proves the theorems for all values of the constants.

Paths of the source are relative to the repository; `service.py` and the other
Python modules are in `distraction_blocker/`.

## 1. The system

### Processes

A root daemon (`service.py`, `main`) owns all protected state. Its loop
(`rpc.py`, `serve_forever`) runs `service.tick()`, then serves at most one
connection of the owner's Unix socket, and repeats at least once a second. One
thread does all this; the only other thread is the fanotify listener, which
reads the set of blocked applications and puts denials into a bounded queue. An
exception in a command handler is answered with an error. An exception in `tick`
ends the process, and systemd starts it again after a second without a limit
(`Restart=always`, `StartLimitIntervalSec=0`). The GUI, the CLI, the tray and the
browser extension (through a native messaging host) are clients of the socket.
The configured user is the one the locks bind; uid 0 may do anything.

### Inventory

| component | state | operations | hard behaviour | correct when |
|---|---|---|---|---|
| policy and locks (`service.py`, `control.py`, `model.py`) | rules, managed lists, the lock of each rule; volatile challenges and grants | `put_rule`, `set_enabled`, `delete_rule`, `start_focus`, imports, `set_rule_lock`, authorizations, `clear_clock_latch` | sequences of legal commands, stale challenges, saves that fail before or after the write, restarts | nobody but root relaxes a lock or a locked rule without one earned grant for each change |
| protected storage (`storage.py`) | `hmac.key`, `policy.json`, `policy.json.bak`, one signed file for each of statistics, usage, ledger, breaks, actions | `initialize`, `load`, `save`, `_save_signed_state`, migration | crash, error or loss of power between any two steps, a damaged file | a start finds the last state saved |
| trusted clock (`clock.py`) | base, last time, high-water time, trust, waiting; latch and high water in the policy file | `now`, `clear_latch`, `checkpoint` | wall-clock jumps, late synchronization, failing writes | time does not go back, a detected jump is not forgotten |
| delay breaks (`service.py`, `control.py`) | countdowns and breaks, in memory and in a file of their own | request, cancel, advance, prune | two files, late ticks, failing saves, restarts | breaks are taken only after the wait and enforcement resumes |
| time allowances (`allowance.py`, `service.py`) | ledger of usage, volatile leases | `request_allowance_lease`, `report_allowance_usage`, decisions | duplicate, late and lost reports, budget boundaries | use stays within the budget, a report counts once |
| allowance tracker (`extension/core/allowance.js`) | active match, lease, pending reports | `pump`, context changes | answers that arrive after the context changed | time is reported for the lease it was used under |
| network enforcement (`network_enforcement.py`) | nftables table, resolver, boot fence, marker | `reconcile`, `fence`, `recover` | each external command may fail | a failure leaves more blocked, never less |
| hosts and fanotify (`enforcement.py`) | managed section of `/etc/hosts`; blocked set, marked mounts, health | `apply`, `clear`, `set_blocked`, listener | listener thread against the service, a listener that dies with programs waiting | a blocked program does not run, every program is answered |
| scheduled actions (`actions.py`, `notifications.py`) | actions and last occurrences; active set, retries | run in `tick`, put, delete, enable | failing runner or save, restart | an occurrence runs once, a due one runs, the user's preference survives |
| staged imports (`service.py`) | chunks under tokens | begin, chunk, commit, cancel | expiry, limits, foreign tokens | a commit applies exactly the chunks of its owner |
| statistics (`statistics.py`) | bounded tables, queue, dirty flag | record, drain, persist, clear, reports of browsers | full queue, failing saves, reports repeated after a lost answer | a denial is counted once, or counted as dropped |
| browser adapters (`extension/`) | matcher or DNR rules, counters, queues | refresh, report, timed blocks | promises that resolve out of order, a worker that the browser stops and starts | the browser's rules are those of the applied policy and of the leases, blocked pages leave |
| schedules and rules (`model.py`, `schedule_view.py`) | none | activity, next change | time zones, midnight, overlaps | the same as the plain definition over minutes |
| RPC (`rpc.py`) | socket | frames, credentials | slow clients | one request, one reply |
| window, command line and tray (`gui.py`, `cli.py`, `tray.py`) | snapshot, refresh flag, upload under way | refresh, staged uploads, edits of lists | requests that fail or overlap, pages of several policies | the window shows the policy in force in the end |
| install, uninstall and recovery scripts (`scripts/`) | installed files, `owner.uid`, the opt-in, systemd's units | `install.py` (also the upgrade), `uninstall.py`, `recover_network.py` | a script killed between two steps, a restart of the host, the service at work meanwhile, files of others | what a script reports is so, an interrupted one can be run again |
| transfer | none | parsing and formatting | | |

The components interact through shared state of the daemon: every handler asks
the clock for the time (which may set the latch and save the policy), a command
that changes the policy saves it and then reconciles the enforcers and prunes
the breaks, and `tick` advances the breaks, reconciles, drains statistics, runs
scheduled actions and makes the clock's checkpoint. `PROJECT.json` lists the
components with what is modelled of each, and the hazards by line.

## 2. What is modelled

| module | models | abstract specification or theorems |
|---|---|---|
| `LockedPolicy` | policy and lock commands, authorizations, save, crash, restart | `LockedPolicyProofs` |
| `ProtectedStore` | the signed files step by step | implements `StableRegister`; `PersistenceProofs` |
| `TrustedClock` | the clock and the service's use of it | `PersistenceProofs` |
| `DelayBreaks` | countdowns and breaks over two files | `DelayBreaksProofs` |
| `Allowance` | budget, leases and ledger of the service, and the tracker of each browser | `ExtensionProofs` |
| `NetworkEnforcement` | the enforcer of network controls and the service around it, boot fence, recovery | `NetworkEnforcementProofs` |
| `Schedules` | rules' schedules, local time, occurrences, next change and view of a day, as functions | checked and proved against their plain meaning, `ScheduledActionsProofs` |
| `ScheduledActions` | the pass over the actions, their commands, the notifications command; extends `Schedules` | `ScheduledActionsProofs` |
| `ChromiumAdapter` | the service worker, the browser's rules, one tab | `ExtensionProofs` |
| `ApplicationDenials` | the fanotify listener, its buffer, the tick, the statistics | part of `Statistics` |
| `WebsiteReports` | the counts of a browser and their reports | part of `Statistics` |
| `Statistics` | the two ways into the statistics | `StatisticsProofs` |
| `ManagedLists` | staged imports, lists read in pages, the browser's refresh | part of `Desktop` |
| `Desktop` | the window's refresh beside `ManagedLists` | `DesktopProofs` |
| `Installation` | the scripts that install, remove and recover, with the service and the host around them | `PersistenceProofs` |
| `MC...` | instances for TLC (`TrustedClock` and `Installation` are run as they are) | |

### LockedPolicy

State: `policy` and `locks` are the service's memory, `disk` what `store.load`
would return, `challenges` and `grants` the volatile authorizations, `healthy`,
`trusted` and `now` what the service sees of enforcement and clock. One action
stands for one command, from its refusals to its last write; an import is its
commit. `Save` has the five outcomes of `_save`: it returns (`saved`); it raises before
the write took effect (`unsaved`); `store.save` raises after it has replaced the file,
which leaves the memory old and the file new (`torn`); it raises after the state was
persisted and exposed, by reconciliation or pruning (`unenforced`); or the process dies
after the write (`crash`). `SaveAndBurn` is `_finalize_weakening`, where the grants are
consumed only when `_save` returned.

Abstractions: a target is a domain or a managed list (applications and URL
targets are compared in the same way); a schedule is its kind and the set of
instants at which it is active; an allowance is a number; a password is compared
by value and the scrypt hash left out; the clock that challenges and grants are
measured with is the same as the service's; retry delays keep their doubling up
to the sixth failure and their unit. A save is one step; how its write may end between
the two files is the subject of `ProtectedStore`.

The properties compare the state that the process works with before a step with all that
the step makes of it (`After`): the memory, and the file if it is written, which the next
start loads. So a change that only a restart brings into force is one too. They say what a rule blocks (`Browser`, `System`), not what
the code compares, so that a forgotten comparison shows.

### ProtectedStore and StableRegister

`StableRegister` is a value that a reader sees, with saves that are accepted,
that take effect, possibly after they were reported as failed, and a migration
that changes nothing. `ProtectedStore` models `_atomic_write` as the rename of a
synced temporary file and the sync of the directory, for the backup and then for
the primary file. `file` is what a process reads, `durable` what a loss of power
surely leaves; a rename that was not synced may or may not survive. Any step may
raise, the process may die at any point, and one of the two files may be damaged
while the other one is whole. The same module covers the single-file states
(`mirrored = FALSE`). The refinement maps the register to what `load` returns.

Not covered: a directory that cannot be opened for its sync (the code goes on);
damage of both files; a file replaced by someone else.

### TrustedClock

`Look` is `now()` as a function of the clock's state and the world, `Detects`
the loss of trust that it writes. `LookAtClock` is any handler that asks for the
time, `SavePolicy` any save of the policy (it persists the time and the trust of
that moment), `Tick` the checkpoint at the end of `tick`. The boot clock
advances with the wall clock; `SetWall` and `Synchronize` are the user's, NTP's
or the hardware's doing. When the process dies its memory is gone (`NoClock`).
Left out: a boot clock that goes back and readings that are not numbers, which
the kernel does not produce, and an unreadable state, which `main` meets before
the clock does.

`LocksLast` does not ask that the clock be trusted: a process counts from the base it
started with, whatever the wall clock does. `due` is when a lock set by this process has
lasted its time on the boot clock, so it ends with the process.

### DelayBreaks

`items` is the service's memory, `stored` the file, `lock` and `active` what the
policy says of each rule, `blocked` what the last reconciliation enforced. Every
command starts with the advance that `dispatch` makes, whose save may fail
without stopping the command. `SaveLock` is a policy save followed by the prune
of the breaks: two files, and a crash or an error between them. The history
variable `asked` remembers when and for what the last break was asked, so that
`BreaksAreWaitedFor` is about the request and not about the row.

Left out: who may change the lock (`LockedPolicy`); rules that are exhausted
(their rules are enforced by another cause); the health gate of the request,
which only refuses. The time is read once in a command; the code reads it in
`dispatch` and again in the handler, and a countdown that ends between these two
reads would be started anew.

### Allowance

The service's side is `ServeReport` and `ServeLease`, each the whole handler. The
browser's side is the `AllowanceTracker`: `Advanced` is `_advance`, and `pump` is
cut at its awaits, so that everything else may happen while it waits: `Pumped` is
its way to the next await, `ReportAnswered` and `LeaseAnswered` what follows an
answer, and the call's `fresh` says whether `context_generation` is still that of
the request. `Look` is any change of tab, match, focus or idleness, `Pulse` the
timer and the alarm. `kept` is what the browser's storage has; it may lag behind
the queue, as nothing awaits its `set`. A call may lose its request or its answer.

Time is in units and usage is the set of the units used, so the union of
intervals is a union of sets and each interval is whole units: the code rounds
the sum up to seconds, which is the same for whole seconds. `RollingWindow`
translates `_rolling_window_start` to units; `WindowsOf`, which the properties
use, says recursively from the first unit on which window each used unit falls in.
Occurrences come every `Cycle` units, last `Length`, and a local day has `Day`.

`NoBrowserOverspends` is about a rule that was never disabled (`steady`). A report that
comes while it is disabled is answered `not_found`: the tracker drops it, and the
service never learns of that use. When the rule is enabled again it has that much
more to give. A browser that ends before its storage has caught up with the drop sends
the report again after its restart, and once the rule is enabled again it is accepted
beside what was leased meanwhile.

One rule with one period, as budgets of two rules share nothing. Left out: strict
periods (no lease is ever given), rows older than eight days, edits of the
allowance while a lease is live, local time and its two kinds of odd days, a wall
clock that goes back, and a call still on its way when its browser restarts. The
rule may be disabled and the clock distrusted at any time.

### NetworkEnforcement

State outside the process: `table` (the controls of the nftables table), `conf`
(the resolver's file), `unit` (the configuration the resolver runs with), `marker`
(the opt-in). In it: `healthy` and `sound`, the enforcer's and the service's flags
of health. `need` is what the active rules of the persisted policy call for. `at`
is the place of the one thread, `job` what the operation wants, so that a failure
or a crash may come between any two commands: `hosts`, `resolver`, `activate`,
`rules`, `teardown`, `fence` and `done` are the stages of a reconciliation, `write`
the signed write of a save. Each stage has an action for its success, and further
ones for what it refuses (`...Collision`, `RenderRefused`) and for a command that
fails (`...Fails`), before or after it took effect. `Returned` and `Raised` say how
`start`, `tick` or the command goes on: an exception ends `start` and `tick` and so
the process, with which the resolver stops (`BindsTo`). `Save` enforces the union of
the old and the new need, `Write` saves, and the new need alone is reconciled then.

Root's side: `BootFence` is the unit before the service, `Recover` to
`RemoveMarker` are the steps of `recover`, each of which may fail, `OptIn` is the
installation with network controls. `Drift` is an administrator or another program
that removes or occupies a name while the service is between two operations,
`Turn` a schedule that begins or ends there.

Abstractions. `"doh"` stands for the four controls that need no resolver; a table
is the set of its controls. `SearchDomains` are the domains whose block covers
every name of a provider. The active rules are computed once for each stage that
computes them; the content of the hosts file is left out. The fence may be tried
twice, as in the code (`_apply_ruleset`, then `reconcile`). A failure of several
commands of one stage counts as one fault. The probes of the resolver let more
names be blocked than are asked for (`Answers`), as its probe of a sample cannot
tell. The write of a save happens or not; what a raised write may leave is the
subject of `ProtectedStore`. A service that runs without the opt-in, which refuses
every control, is left out, as is one that runs on after recovery removed the
opt-in. The service requires the boot fence, so a boot fence that failed keeps it
down.

### Schedules

`IsActive`, `OccurrenceStart`, `NextStateChange` and `DailyIntervals` translate
`Schedule.is_active`, `ScheduledAction.occurrence_at`, `next_state_change` and
`project_daily_schedule`. An instant is a number of units, so that the microsecond
before an instant is its preceding unit. A zone has one transition, and `Utc` converts
as `datetime` does: a local time that is skipped or comes twice has an offset for each
`fold`. `ViewsAgree` compares the views with `IsActive` at every instant. The next change
is one (`ChangeIsReal`) and none of the next eight days is missed (`NoChangeIsMissed`), and
the intervals of a day cover the active time and do not touch each other. Eight days are
what is promised because `_weekly_events` looks at twelve dates: a weekly rule with one
row, which the clock skips when it goes forward, changes next after two weeks, and no
change is shown for some days before. `WalkEnd` is the walk from change to change, a
recursive function bounded by `Transitions` as in the code, and `WalksEnd` says that the
bound is not what ended it (section 6 has a day on which it is).

What `ViewAssumption` asks of the schedules and zones. The offset of a zone changes by no
more than a day. The zone of the viewer has its change on one day (`KeepsMidnight`): where
a date's midnight is skipped or comes twice by a change that reaches over it from the
other day, which a few zones had long ago (Toronto in 1919), the intervals of the day do
not begin or end at its midnight. A zone that changes at midnight itself is covered.

### ScheduledActions

`items` is the signed file and the memory of a service that runs. The pass of
`_run_scheduled_actions` is cut between the actions: `StartLook` reads the clock, and for
each action one of `Skip`, `Fire`, `GiveBack` (notifications are restored) and `Fail` is
taken, in any order; `EndLook` is the one save of all that ran, which may fail
(`EndLookUnsaved`). `waiting` holds the actions whose retry is not due, so its
delay is any time up to `RetryDue`. The desktop is `keys` (its settings) and `saved`
(the file `notifications.json` of the user): `Blocked` and `Restored` are the two
commands, `PartlyBlocked` and `PartlyRestored` all that a failing one may leave, since
it sets one key after the other. `PutAction`, `DeleteAction` and `SetActionEnabled`
are the handlers with the restoring they do first, and their failures; `Close` is the
end of the service. The user may run the same command (`UserRuns`, also the tray's) and
change the settings while nothing is blocked. `pref` remembers what the user chose,
`ran` which occurrences ran and were saved, `again` which of these ran once more.

Left out: a choice of the user while notifications are blocked, which the restoring
undoes by design; a put of an action with the same kind and schedule; that a service
which died with notifications blocked does not restore them when it starts. Rows of one
schedule that overlap let an occurrence run twice, as its identity is the start of the
row that is found first, and so does a change of the zone's offset (section 6);
`OccurrencesRunOnce` excepts these two and no other.

### ChromiumAdapter

`dynamic` and `session` are the browser's rules, `snapshot` its session storage: they
outlive the worker. Everything from `up` to `opening` is the worker's memory, which
`Stop` and `RestartBrowser` take away and `Wake` makes anew. The chain of
`rebuild_timed_blocks` is `waiting` (tasks not started) and `rebuild` (the call under
way, with what it read when it started); a refresh or an opening that awaits the chain
knows by `ahead` how many updates it waits for. `Ask`, `Replace`, `Commit` and
`EndRefresh` are the stretches of `refresh_policy` and `apply_policy` between
their awaits, `RefreshFails` each of their ways out. `LeaseGranted`, `LeaseExhausted` and
`LeaseEnds` are the callbacks of the tracker, whose own steps are in `Allowance`;
`PageLeaves` is what follows the update that an exhausted lease awaits (`leaving`).
`Observe`, `DecideOpening` and `OpenSite` are `observe_request` and
`start_timed_navigation` of a main frame, `SyncTab` what a tab's event does.

One tab; one target for each rule; a lease is granted if the policy still allows its
rule. The browser applies an update of rules whole or not at all, and refuses one that
adds an id in use, as the API documents. Left out: the batch of keys and the queue of
requests at the start beyond its bound (the oldest are forgotten there), and a page of
a timed site that stays open after a restart of the browser until the first refresh.
Firefox's adapter has no rules of the browser; what it shares is in `Allowance`
(the tracker) and `WebsiteReports`.

### ApplicationDenials, WebsiteReports and Statistics

`ApplicationDenials` is the listener thread against the main thread. `Exec` puts a
program into `waiting` when its mount is marked; `Decide`, `Respond`, `Record` and
`Drop` are `_handle_event` cut where the threads may interleave; `ListenerFails` ends the
thread, and may leave a program that nobody can answer any more (`held`) until the
group is closed. `StartReconcile`, `MarkMounts` and `ReplaceBlocked` are
`set_blocked`. `ReconcileNetwork` and `RunPrograms` are the places where the main thread
runs programs of its own: nft, the commands of actions, and the restoring of notifications
in `close`. They are executed on `OwnMounts`, and start (`Starts`) unless such a mount is
marked and nobody listens; then the main thread waits for ever (`Stuck`), as the timeout of
`subprocess.run` counts from the execution and the unit has no watchdog. `Take`, `StartMerge`, `MergeOne`, `MergeDropped` and `Persist` are the drain
of a tick, with the listener free to record between any two of them; `Check` is its
health check, which raises and so closes the service. `Recorded` is
`StatisticsState.record` with its bound on rows. `expected` counts the denials of each
path that the statistics are to show, less those whose row made room, and `overflown`
those that found the buffer full. `DenialsAccounted` finds each of them in the listener's
hand, in the buffer, among those taken out or in the statistics.

`WebsiteReports` has four kinds of counts, by `browser` and `what`: denials and starts,
of Chromium and of Firefox, chosen at the start because they share no state.
`Request` counts, `BackUp` copies; `Fetch`, `Apply`, `SendReport`, `Accepted` and
`Refused` are a refresh with its report, `CountReport` and `RefuseReport` the service's
handlers, whose reconciliation may fail after they have counted. The history variables
`added`, `lost` and `repeated` say what became of each count, so that
`ReportsCountOnce` names every way in which a count may be lost or come twice.

Left out: whether the listener can answer while CPython starts a program of the service,
which depends on how the interpreter forks and not on this repository; here it can, as long
as it lives.

`Statistics` composes the two. `source` is chosen once, since neither has a variable of
the other and the product of the two would only multiply the states. Left out: the
batch of 128 keys, the saves of the website statistics (they are as those of the
applications' statistics) and the time zone of the day.

### ManagedLists and Desktop

`past` is every policy saved, the last of them in force: one list, used by one rule or
not. Each client goes through `Begin`, `SendChunk` and `Commit`, one request at a time,
or reads a list page by page first (`ReadPage`) and uploads it with one domain more or
less; a request that fails or loses its answer makes it `Cancel`. `Stage` is the check
of the token with its owner, kind and expiry. `staged` is in the service's memory
(`Restart`). A commit may be saved and then fail to be enforced, which leaves what is
staged. The browser's `FetchPolicy`, `FetchPage` and `ApplyPolicy` are
`expand_managed_lists`, where each page must have the revision of the first answer.

`Desktop` adds the window: `StartRefresh` is dropped while one runs, the thread reads
status, rules and lists one after the other, and `ShowSnapshot` or `ShowError` hands them
to the event loop. `reader` says whether the browser or the window is looked at; neither
changes anything the other reads. Left out: the widgets, and that the window and the
command line join pages without comparing their revisions, so that an edit between two
pages may show or save a mixture (`ReadPage` does so, and `meant` counts it as what
the client wanted).

### Installation

`at` is the next step of the script that root runs, `job` which one with its options,
`report` what the last one said when it came to its end. `AfterInstall`, `AfterRecovery`
and `RemovalOrder` are the orders of the steps; `uninstall.py` calls the recovery between
two of its own. `StartInstall`, `StartRecovery` and `StartRemoval` have what is refused
before anything changes, `Teardown` and `FileRefused` what is refused on the way. A script
may end before each step (`ScriptEnds`); a copy or removal of a directory may stop within
(`CopyPackageFails`, `RemovePrefixFails`), and so may a write in place: that of the unit and
of the marker (`CopyFileFails`), of `owner.uid` and of the opt-in (`WriteStateFails`), which
leave a file that is `"broken"`. The host may restart (`Reboot`). `manifests` are those below
`/usr` and `/etc`, `owner_manifests` the copies in the owner's home, which `RemoveFile` finds
only with an `owner.uid` that can be read; `job.known` remembers whether a removal could
read it when it began. The installed
service is `StartService`, which comes up when `Equipped` and `Loads` hold, and `Enforce`,
`Notify`, `SaveRules`, `SaveLedger` and `ServiceDies`, at any time between two steps.

A path is absent, written by the scripts, not whole, or of somebody else. A unit that is not
whole is one that was copied and not configured, or an empty one: systemd may run it or
refuse it. The owner is the same in every installation. Paths written together, with
nothing between them that decides otherwise, are one. Left out: links, modes, the check of
dependencies, the browsers' policies beyond their manifests, and `recover_clock.py`, which
only sends a command of `LockedPolicy`.

What follows from the code and may surprise: a removal that ended after the fence's unit
was removed, or after the service's own, cannot be repeated before an installation, as
systemd refuses to stop a unit it does not know and `uninstall.py` asks for its unit file.
The plain installer refuses (`install.py` 84-92) the network files that a removal left when
it ended after the opt-in was gone: only `--enable-network-controls` goes on from there.
The resolver's account stays when there was nothing to tear down. A policy with network
rules, kept by a removal, does not load after an installation without the opt-in.

## 3. Runs

Deadlock is checked where the system cannot stop. In `Allowance` the clock's bound
ends every behaviour, in `NetworkEnforcement` a recovered host may rest for ever, and
in `ScheduledActions`, `ChromiumAdapter`, `Statistics`, `Desktop` and `Installation`
nothing is left to do once the bounds are used up and everything is at rest. `MaxTime`, `MaxWall`,
`MaxTimedLock`, `MaxGrants`, `MaxLeases`, `MaxChanges`, `MaxEdits`, `MaxExecs`,
`MaxRequests`, `MaxUploads`, `MaxDays`, `MaxScripts`, `MaxFaults`, `MaxTrouble`, `MaxLosses` and the
like are the bounds, all in guards or constant sets.

| run | instance | states | shows |
|---|---|---|---|
| `LockedPolicyLocks` | one rule in three strengths, one user and root, two passwords, one challenge and one grant, every outcome of a save that writes, time to 2 | 175,000 | locks of all kinds against all edits: `LocksHold`, `RulesHold`, `OneChangePerAuthorization`, `GrantsAreEarned`, `GuessesCostTime` |
| `LockedPolicyLists` | two symmetric rules, one list, two domains, all imports, saves that fail, time to 1 | 39,000 | `RulesHold`, `ActiveRulesKeepTargets` through lists |
| `ProtectedStore` | three values, three faults | 24,000 | the register, `ComesUp` |
| `TrustedClock` | tolerance 1, wall clock set to 1 or 3 at any time, time to 3 | 115,000 | `LatchSurvives`, `LocksLast`, `LostTrustIsSaved` |
| `DelayBreaks` | two rules, wait 1, break 2, time to 4, one fault | 113,000 | `BreaksAreWaitedFor`, `RequestsDoNotMoveIt`, `DelaysTakeTheirCourse` |
| `Allowance` | one browser; a budget for each refill window, or one for the period under a lower daily cap; leases up to 2, three leases, three rows, time to 4, two faults | 396,000 | `NoBrowserOverspends`, `UsageAccounted`, `ReportsSettle` |
| `NetworkEnforcement` | five needs over four controls and two domains, one of them a search provider's; two faults, five changes | 88,000 | `NeverLessBlocked`, `HealthyMeansEnforced`, `ForeignUntouched`, `NothingLeftBehind`, `EnforcementSettles` |
| `ScheduledActions` | two actions over a one-time, a nightly and an overlapping weekly schedule, two settings, time to 3, one fault, two edits; nine schedules of rules in three zones, 36 instants | 475,000 | `OccurrencesRunOnce`, `PreferenceKept`, `DueCommandsRun`, `ViewsAgree` |
| `ChromiumAdapter` | two timed rules, of which one may be used up, one tab, one change of the policy, one stop, restart or failed refresh | 633,000 | `LeasesDecideAtFirst`, `MatchersFollowRules`, `BlockedPagesLeave` |
| `Statistics` | two programs on two mounts, a buffer of one and one row, the service's own programs on one of the mounts, two executions, two edits, one failure; or two rules with two starts, three requests, one edit, two days, one loss | 410,000 | `DenialsAccounted`, `BlockedProgramsWait`, `ExecsAreAnswered`, `ReportsCountOnce`, `ReportsArrive` |
| `Desktop` | lists of up to three domains in pages of two, two clients, two uploads, one edit, one fault | 1,012,000 | `AppliedIsOnePolicy`, `UploadsAreWhole`, `EverybodyCatchesUp` |
| `Installation` | four scripts, two failures, kills or restarts of the host; a fresh host, with any files of others, or an older version | 1,017,000 | `EndsAsReported`, `InterruptedRepeats` |

`LockedPolicyGrantReuse`, `LockedPolicyExclusions`, `TrustedClockRecovery`,
`AllowanceBudget`, `NetworkCombination`, `ChromiumRestart`, `ScheduledActionsWindow`,
`ScheduledActionsOverview`, `ScheduledActionsOffset`, `StatisticsStuck`, `InstallationMarker`,
`InstallationManifests` and `InstallationLedger` are further configurations, of one property each, which is violated:
with them TLC gives the traces of section 6 (`tlc -config AllowanceBudget.cfg MCAllowance`,
and so on).

`UsageAccounted` joins `AcceptedIsStored` (what the service accepted is in its file) and
`NoSecondTwice` (no second of use is in two rows), `DelaysTakeTheirCourse` joins
`CountdownsEnd` and `EnforcementResumes`.

Why the bounds are enough. A lock binds one rule and no action relates the locks
of two rules except through a managed list, hence one rule with every lock kind
in one run and two rules that share a list in the other. Time to 2 contains a
lock set, effective and expired, a challenge that expires (2) and a grant that
expires (1), and the wait of the first password failure with a second one after it. The
weekly rule is active at 0 and 2 and not at 1. Three faults in the
store are a failed save, a damaged file and a loss of power in one behaviour. A
tolerance of 1 with jumps of 1, 2 and 3 has values inside, at and outside of it.
A break of two units after a wait of one has a moment in the countdown, at its
end, in the break and at its end, each before and after a tick; two rules are
needed because one save writes the breaks of both.

Two faults in `Allowance` are a lost answer and a restart of either side, in each
order. A window of 3 in a period of 4 that the clock runs to the end of gives
leases cut by the budget, by the window and by the period, and a second window;
three leases of two units exceed every budget, so that the reservations and the cap
decide. Two browsers are in `AllowanceBudget` only: what they spend together is
the disagreement, and what each of them spends is not changed by another, except
that it gets less.

The needs of `NetworkEnforcement` are none, one without the resolver, one for each
use of the resolver and one that mixes; a save between any two of them makes their
union, among them the one no configuration can be made for. Five changes are an
opt-in, a save and its reverse, a change by somebody else and a recovery; two
faults are a command that fails in a stage and in the fence that answers it, or a
failure and a restart of the host.

Two actions in `ScheduledActions` have the pass between them, one save for both and
two owners of one preference; the day of four units has rows before, over and after
midnight, and the zones a skipped and a repeated local time at different hours. The
schedules have the hypothesis `WalksEnd` of the theorem, which `MCScheduledActions`
assumes and TLC evaluates. In
`ChromiumAdapter` two timed rules have one id each, so that a rule that goes changes
the number of the other. A buffer of one and one row make the third denial drop or
evict. One of the two mounts has the service's own programs, so that a dead listener is
noticed in one half of the states and holds the service back in the other. A list of three domains has two pages, so that an edit or a restart may come
between them, and two tokens with a limit of two are both in use at some time.

Four scripts and two troubles in `Installation` are an installation, a removal that is
interrupted, what the next script makes of it, and one more that is interrupted or not.

Of the outcomes of a save, `LockedPolicyLocks` leaves out only "unsaved", where nothing
changes but the flag of health, and `LockedPolicyLists` has just that one beside "saved".
The theorems are about all five.

Symmetry of rules is used in `LockedPolicyLists` only, whose properties are
invariants and action formulas.

### Fairness

`ProtectedStore`: weak fairness of the service's own steps, as systemd restarts
the daemon without a limit and a running process proceeds. `ComesUp` is granted
with one exception, a key file that a crash of the very first start left empty:
the code refuses it for ever. `TrustedClock` and `DelayBreaks`: weak fairness of
`Tick` (the loop runs it before each connection and after each second without
one) and of `Start`; for the clock also of a successful look, which each tick
takes. `Allowance`: the service answers each call it got, the browser handles each
answer (promises resolve, and a host that goes away is an error), and `Pulse` is
taken, as a timer runs every five seconds while reports wait. `ReportsSettle` then
needs a clock that is trusted from some time on and a ledger with room: a report
that the service refuses stays at the head of the queue. `NetworkEnforcement`: weak
fairness of `Progress`, the steps of the service that do not fail, since systemd
restarts the service without a limit, it ticks at least once a second and its
commands have time limits; and of `BootFence`. `EnforcementSettles` excepts names
that somebody else owns and a host that root has taken over. `ScheduledActions`: weak fairness of
the pass, which a tick takes, and of `Start`; strong fairness of `RetryDue`, as the
delay of a retry is at most five minutes and passes do not hold it off.
`ChromiumAdapter`: weak fairness of each stretch of the worker (promises resolve), of
`Wake` and `QueueRefresh` (the alarm, which also starts a stopped worker); strong
fairness of `Observe` and `SyncTab`, since refreshes pause the look at
requests again and again but the queue of requests is emptied at the end of each.
`Statistics`: weak fairness of the listener and of the tick with its restart, or of the
refresh by its alarm, with a browser that is opened again. The tick's own programs have the
guard `Starts`, so that fairness does not make them go on when nobody lets them: that is the
exception of `ExecsAreAnswered`. Fairness of the tick in the other modules presumes that the
service is not stuck in this way. `Desktop`: weak fairness of
the reader, whose alarm or timer comes again. `Installation` has no liveness property, as
nobody has to run a script. No fairness is assumed
of users, of time or of others.

## 4. Proofs

Checked by `tlapm`, with no facts taken on trust; `ConstantsAssumption`,
`ValuesAssumption`, `FileAssumption`, `DelayAssumption`, `AllowanceAssumption`,
`NetworkAssumption`, `ScheduleAssumption`, `ActionsAssumption`,
`ApplicationAssumption`, `WebsiteAssumption`, `ListAssumption`, `ClockAssumption`,
`ChromiumAssumption`, `ViewAssumption` and `InstallationAssumption` are the only assumptions, and the runs evaluate
them. Every invariant and action property of the runs is stated by a theorem. Five
theorems are about less than their run is, or have a hypothesis:
`RulesHoldWithoutExclusions`, `OneChangeWithoutExclusions` and `GuessesCostTimeAlways`
about the rules and locks that may be imported,
`ViewsAgreeAlways` about walks that end, and `WholeBudgetsHold` about budgets without
refill windows.

* `LockedPolicyProofs`. The invariant `Inv` joins the types and `Loadable`: what is in the
  file, and what a running service works with, are each a policy and locks that `start`
  accepts. Nothing is said of the two being equal, as a save that raises after it has
  replaced the file leaves them different; the references are needed to compare what a
  rule blocks before and after a change. From it
  follow `TypeCorrect` and `LocksHoldAlways`: the action
  property is proved for each command from one lemma that says which lock of
  which rule a save can relax, in memory or in the file, and what the command's guard
  required before it.
  For rules the same is said by `Guarded`: of each rule and the policy a command
  leads to, either its user is not refused, or the rule is not weakened and its lists
  keep their domains; and likewise for what binds root. Each command is shown to
  guard every rule, and `UnweakenedBlocks` says that a change that is no weakening
  blocks no less. With them, `ActiveRulesKeepTargetsAlways`, and
  `RulesHoldWithoutExclusions` under the assumption `NoExclusions`, which the second
  disagreement of section 6 shows to be needed. `GrantsAreEarnedAlways` follows from
  the one step that adds a grant. `GuessesCostTime` is inductive as it stands (a
  failure doubles a wait that is over) if imported locks have no attempts yet
  (`FreshImports`): the parser of imported locks refuses password locks
  (`transfer.py:794`), and the service itself does not look at their attempts.
  `OneChangeWithoutExclusions` is proved command by command from the same lemmas: a
  command whose guard let a weakening pass found a live grant, and each way in which its
  save ends either leaves the file as it was, burns the grant, ends the process and
  its grants, or answers the command with an error. It has no hypothesis on the outcomes of a
  save; exclusions, the second disagreement of section 6, are its only one. That the error
  leaves the grant is the first disagreement, and what `OneChangeOnly` says beyond it.
* `PersistenceProofs`. Of the store: `StoreInv` relates both files, their durable forms,
  the candidates (values saved since the last save that returned) and the place
  of the writer. Its parts: every whole file, visible or durable, holds a
  candidate; a fresh system, or one path whole in both its forms, is there for a
  restart to load; and a save under way has brought the files as far as the place
  of its writer says (the backup holds the value before the primary is written).
  `NeverStaleAlways` and `StoreImplementsRegister` follow; the latter maps each
  step to one of the register or to a stutter. Of the clock: `ClockInv` adds three facts to
  its types. `LatchKept`: a detected jump is the latch on the disk, and a process that
  runs is neither trusted nor waiting. `CountsFromBase`: the clock gives the elapsed time
  or the high-water time. `LockOnBase`: since a lock was set, the process has counted from
  one base, which neither the last time nor the high-water time is ahead of; without the
  last part a lock could end with the high-water time and not with the boot clock. With it,
  `LatchSurvivesAlways`, `LocksLastAlways` and `TimeNeverGoesBackAlways`, for any tolerance
  and any wall clock. Of the scripts: `InstallInv` says what a script has done by each of
  its steps and what the service, if it runs, may have undone since (`InstallFacts`,
  `RemovalFacts`, `RecoveryFacts`), that a service runs only while it is wanted, so
  that a stopped one undoes nothing any more (`ServiceFacts`), and that nothing the
  installation needs is somebody else's once its directory exists (`Ownership`), which is why
  the scripts replace and remove only their own. What is reported follows from the facts of the last step, and stays so until the next
  script starts. What a removal says of the owner's home is tied to `job.known`: a removal that
  could read `owner.uid` at its start can read it until it removes it itself. That an
  installation can be repeated with its own options needs that one without the network's
  option or opt-in has found none of the network's files (`OptionFacts`). With it,
  `EndsAsReportedAlways`, `InterruptedRepeatsAlways` and
  `OthersStayAlways`, for any number of scripts and failures.
* `DelayBreaksProofs`. `DelayInv` says of each row of the file that it is what
  the last request for its rule asked for: the countdown ends a whole wait after
  the request, the length is the one asked for, and a break that has started did
  so no earlier than that end and ends its length after it. With it,
  `BreaksAreWaitedForAlways` and `RequestsDoNotMoveItEver`.
* `NetworkEnforcementProofs`. `NetworkInv` adds two facts to the types. `JobInv`
  says what a job has brought about at each stage: it wants no less than the policy
  in force, and before a save also what the new policy needs; in `activate` the file
  is as wanted; in `rules` what runs answers as wanted, so that the new table
  redirects to a resolver that blocks; in `done` and `write` the job is enforced;
  and the reconciliation after a save starts from a host that enforces the saved
  policy. `RootInv` says what is gone already at each step of recovery, that no
  resolver runs while root has the host, and that a service runs only with the
  opt-in. They are needed because one step replaces the whole table, which is right
  only if the resolver was made ready before. From it `NothingLeftBehindAlways`,
  `NeverLessBlockedAlways`, `HealthyMeansEnforcedAlways` and
  `ForeignUntouchedAlways`, for any set of domains, of needs, and any number of
  failures.
* `ExtensionProofs`. Of the allowances: `AllowanceInv` says that the ledger is the file, and of each
  browser (`Sound`) that its rows, in the ledger, in the queue and in its storage,
  are pairwise apart and none ends after the tracker's last heartbeat. A new row
  starts at the last heartbeat, so it is apart from all of them; a restart falls
  back to rows that are among them already; an accepted row moves from one set to
  the other. With it, `AcceptedIsStoredAlways`, `NoSecondTwiceEver` and
  `UsageAccountedAlways`, which joins them, for any number of browsers, leases and faults.
  `BudgetInv` is about what a browser may still get accepted: its rows of the ledger, its
  waiting rows whose lease the service knows, and the whole of its lease, in use or on its way (`Potential`). All of it together respects
  the budget of each period and the cap of each day (`Affordable`). A lease is the one step
  that adds to it, and a browser asks for one only when it has none and nothing waits
  (`OneLease`), so what is granted is computed from all of its usage. What only the
  browser's storage remembers belongs to leases the service no longer knows, so that a
  restart, which takes the queue from there, brings back nothing that would be accepted
  beyond the budget. With it, `WholeBudgetsHold`, `DayCapRespected` and
  `LiveLeasesWithinBudgetAlways`, for any lengths of period, day and lease, which need not
  divide each other. Of the adapter: `MatchersInv` says
  for each stage of a refresh which policy the dynamic rules are made from, and `LeasesInv`
  that a worker in its first life knows the session rules in force, so the last update of
  the queue removes all of them and adds what the leases ask for then. With them
  `MatchersFollowRulesAlways` and `LeasesDecideAtFirstAlways`. The restarts that the
  second one excludes are those of section 6.
* `ScheduledActionsProofs`. `PreferenceInv` says of the keys of the desktop and the
  saved file together that they keep the user's choice: the keys are the choice, or
  the file holds it. Each outcome of the notifications command, done, failed half
  way or killed after any of its writes, turns a desktop that keeps the choice into
  one that does, as the file is written before the first key is and removed after the last;
  `PreferenceKeptAlways` follows for the pass, the handlers and the user.
  `OnceInv` says of each action that the occurrences that ran were all due at or before
  the time of the one it has noted (`RanBefore`), and of a pass under way that what it is
  about to save is the item it read, or that item with the occurrence it is in
  (`LookInv`). Without overlapping rows and a change of the offset a schedule is never in
  an occurrence again after it has been in a later one: two dates and rows that cover one
  local time have one start (`OccurrencesRunOnceAlways`).
  `NextChangeIsExact` shows that the activity of a schedule is constant between two of the
  candidates of `_weekly_events`: a row that covers one instant and not another has a
  boundary between them, which is a candidate with one of the two folds, or the zone's
  transition is between them. The candidates of twelve dates reach eight days.
  `PlaceInv` is the invariant of the walk through a day: its intervals, with the open one,
  show the activity up to the place it has reached, they do not touch, and when it is over
  nothing changes up to the end of the day. `WalkBegins` and `StepKeeps` are its two cases,
  `WalkKeeps` the induction, and `DayIsExact` and `ViewsAgreeAlways` what follows.
* `StatisticsProofs`. `AccountInv` adds the places of the denials to `AppInv`: each step
  of the listener and of the drain moves one denial from one place to the next, so that
  the sum for each path stays, and `QueueInv` says that nothing is taken out but for the
  merge and that nothing outlives the service. With it, `DenialsAccountedAlways`, for any
  sizes of buffer and table. `AppInv` says that the mounts of all blocked paths are marked,
  that nobody waits for a service that is gone, that a waiting program's path
  is blocked or was free at some time since, and that the listener holds an `allow`
  only for the latter. It needs that a pass marks before it replaces the set of
  blocked paths. With it, `BlockedProgramsWaitAlways`. `WebInv` is `ReportsCountOnce`
  rule by rule, with the fact that denials under way are never more than are pending:
  Chromium's copy drops an entry whose reported part reaches its count, and would drop
  more than was reported otherwise. With it, `ReportsCountOnceAlways`.
* `DesktopProofs`. `DesktopInv` joins three facts. `BrowserInv`: a reader that is
  between two pages holds the domains of one revision's list up to its offset, by
  rank, and what is applied is all of that list. `UploadInv`: what a client's
  token holds is the list the client means up to its offset, as chunks of another
  owner or of an expired token do not reach it. `MeantInv`: every list that was in
  force is one that was meant. With it, `AppliedIsOnePolicyAlways` and
  `UploadsAreWholeAlways`, for any lists, sizes of page, clients and faults.

Some invariants are proved and not listed in a configuration, as others of the same
run imply them or are about more: the type invariants, `NeverStale`
(`NeverStaleAlways`) and `OthersStay`
(`OthersStayAlways`). They stay defined in their modules, for any configuration.

Model-checked only:

* the liveness properties (`ComesUp`, `LostTrustIsSaved`, `DelaysTakeTheirCourse`,
  `ReportsSettle`, `EnforcementSettles`, `DueCommandsRun`,
  `BlockedPagesLeave`, `ExecsAreAnswered`, `ReportsArrive`, `EverybodyCatchesUp`), as
  temporal reasoning with fairness and ENABLED is out of the prover's reach;
* the refill windows of `NoBrowserOverspends`. Which window a use falls in depends on all
  earlier uses, and an accepted report may be earlier than the lease that follows it;
  the proof needs the recursion of `WindowsOf` over arbitrary sets of uses;
* that walks end. How many changes a day has depends on the rows of a schedule together,
  and the number the code allows for is too small for some (section 6).

The library's induction theorems take an operator as a parameter, which the provers cannot
instantiate. Where a recursive function had to be reasoned about (the walk through a day),
the induction is a least counterexample for the one predicate in question
(`WalkExists`, `WalkEndIs`, `WalkKeeps`).

## 5. Mutants

Each property of a passing run has a mutant in the module it checks: a definition
named in a comment as a mutant, put in place of the one `PROJECT.json` names. They
are the plausible mistakes: state exposed before it is persisted, a grant not
burnt, a comparison left out, a directory not synced, a countdown restarted.

## 6. Disagreements found

* A grant survives its change when enforcement fails after the save, or the save raises
  after it has replaced the file (`LockedPolicyGrantReuse`, `OneChangeOnly`): the README
  promises one weakening change. A command that was not answered with an error has burned its
  grant (`OneChangePerAuthorization`).
* New exclusions from a managed list pass an effective lock
  (`LockedPolicyExclusions`).
* A start before the time is synchronized, followed by a save or checkpoint and a
  restart, becomes the permanent latch (`TrustedClockRecovery`).
* Two browsers spend more than a rule's budget without any fault: a report that
  comes after its lease has ended is judged at its own end, where later usage is
  not seen, and the lease was not reserved any more (`AllowanceBudget`).
* Safe search together with a block of all the names of a search provider cannot be
  enforced (`NetworkCombination`): the addresses of all providers are passed to a
  function that demands those of the providers not blocked, so every reconciliation
  ends in the fence. The docstring of `network_enforcement.py` (60-61) says that any
  combination is the union of its members.

* After Chromium restarts the service worker, the ids of the session rules that are in
  force are forgotten: adding them again is refused, and the site stays blocked in spite
  of a lease until the browser restarts (`ChromiumRestart`, `LeasesDecide`). While the
  worker is never stopped, the session rules follow the leases (`LeasesDecideAtFirst`).
* A scheduled block of notifications is restored by the next pass of the service,
  although its window goes on (`ScheduledActionsWindow`, `BlockedForTheWindow`): the
  occurrence that fired is not due again, and not due is taken as the end.
* The overview of a day stops after a number of changes (`schedule_view.py:19`) that is
  two for each row and the two of the zone. A row in an hour that comes twice changes four
  times, so on the day the clock goes back intervals may be missing at the end of the day
  or drawn to its end (`ScheduledActionsOverview`, `ViewsAgree`): sixteen rows of one
  minute in the hour that is repeated, twice each, are shown as twenty intervals of 32.
  With `WalksEnd` the overview is exact (`ViewsAgreeAlways`).
* When the clock goes back, an action whose row comes twice may run its occurrence again
  (`ScheduledActionsOffset`, `DueRunsOnce`): a later row ran in between, and
  `occurrence_at` knows the last occurrence only. A test says that a due action runs once.

* A first installation that fails before its last file, or a removal that fails within the
  directory, leaves `/usr/lib/distraction-blocker` without its marker
  (`InstallationMarker`, `MarkerIsThere`): the installer then takes the directory for
  somebody else's and the uninstaller refuses too, until root removes it. An upgrade killed
  while it writes the marker leaves an empty one, with the same effect, and an installation
  killed while it fills the opt-in leaves one that all three scripts refuse.
  `InterruptedRepeats` excepts these.
* `uninstall.py` reports "removed" although the manifests in the owner's home, and maybe his
  blocked notifications, stay, if `owner.uid` is missing or empty
  (`InstallationManifests`, `RemovedIsAll`): the installer writes it last and in its place, so
  a kill between the marker and it is enough. `EndsAsReported` excepts these two.
* A service whose listener died may wait for ever for a program of its own, on a filesystem
  that it watches, before it notices (`StatisticsStuck`, `ExecsAreAlwaysAnswered`): nobody
  answers the blocked programs, and the service reports nothing, where the README (206)
  says that it reports itself as unhealthy. `ExecsAreAnswered` excepts this.
* `uninstall.py --remove-policy` leaves the ledger of allowances, signed with the key it
  removes (`InstallationLedger`, `InstalledLoads`): the service of the next installation
  refuses it at every start.

Noted while modelling, without a configuration:

* An active weekly or pomodoro rule may be given fewer periods: the README (32) says
  that an active finite rule cannot shorten its schedule; a comment in the code
  (`service.py` 1110-1112) leaves it to the locks.
* A refill window need not start with a use, as the README (450-452) says: after the
  first one, windows follow each other without a gap while the pauses are short.
* When recovery fails after it has removed the table, the user is not fenced until
  the host restarts, although the docstring of `recover` says that the machine stays
  fenced; the service is stopped by then.
* An `OSError` while the resolver's file is written is not a `NetworkError`:
  `reconcile` neither fences nor clears its flag of health, against the docstring of
  `NetworkEnforcer`. The service notices by its own flag.
* The probe of the resolver asks for a sample of the blocked names only.
* A service that dies while notifications are blocked does not restore them when it
  starts; the saved file waits for the next restoring or for the user's command.
* The window and the command line join the pages of a list without comparing revisions.
* While a rule is disabled, its tracker drops the reports that are answered `not_found`:
  what was used is forgotten, or sent again if the browser ends before its storage has
  caught up, and then accepted when the rule is enabled again.
* The extension's counts of a rule whose allowance went are dropped with it, and a
  report that was counted but whose answer was lost is counted again.

## 7. Plan

1. `LockedPolicy`, `ProtectedStore`, `TrustedClock`, `DelayBreaks`, `Allowance`,
   `NetworkEnforcement`, `Schedules`, `ScheduledActions`, `ChromiumAdapter`,
   `Statistics`, `ManagedLists`, `Desktop` and `Installation`: done as above.
2. Proofs: every invariant and action property of the runs, with the exceptions of section
   4. Left: the refill windows of `NoBrowserOverspends`, and conditions on a schedule's rows
   from which `WalksEnd` follows.
3. `Allowance`: edits of the allowance under a live lease, pruning, the cache of
   exhausted rules. `NetworkEnforcement`: a service without the opt-in, and the hosts
   file that is reconciled with it.
4. Firefox's adapter with its own matcher and startup queue.

Not modelled: widgets, command-line parsing, text formats and categories
(`transfer.py`, `categories.py`: pure functions of text; what their result does to the
policy is in `LockedPolicy`), URL matching (`engine.js`, `dnr.js` beyond the numbering
of rules), the frames of the socket, the native messaging host (a filter of commands
without state), and the acceptance and packaging scripts. They keep no protected state, or
are pure formatting, or run outside of the system.
