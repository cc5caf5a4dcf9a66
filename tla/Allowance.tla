----------------------------- MODULE Allowance -----------------------------
(***************************************************************************)
(* Timed allowances: a weekly rule may leave its targets open for some     *)
(* elapsed time in each of its periods.  The root service owns the budget: *)
(* it keeps a ledger of accepted usage in a signed file of its own and     *)
(* hands out leases, which it keeps in memory.  In each browser a tracker  *)
(* counts the time that the focused tab shows a page of the rule under a   *)
(* lease, queues it as reports, and sends the queue before it asks for     *)
(* another lease.  Calls may be lost with their request or their answer,   *)
(* and either side may restart.                                            *)
(*                                                                         *)
(* One rule: budgets of different rules do not meet.  Time is counted in   *)
(* whole units and usage is the set of units used, so that a union of      *)
(* intervals is a union of sets.  Clocks only go forward here.             *)
(***************************************************************************)
EXTENDS Naturals, Sequences, FiniteSetsExt

CONSTANTS
    Browsers,
    Allowances,   \* the allowances the rule may have
    None,         \* no lease, or a time not known yet
    MaxLease,     \* the longest lease
    Gap,          \* the longest time between heartbeats that counts as usage
    Grace,        \* how long a lease is kept after its end
    MaxRows,      \* the most rows of the ledger
    Cycle,        \* a period begins each Cycle units,
    Length,       \*   is Length units long,
    Day,          \*   and a local day is Day units long
    MaxTime,      \* bound on the clock
    MaxLeases,    \* bound on the leases issued
    MaxFaults     \* bound on restarts, lost calls and failed saves

Modes == {"total", "fixed_window"}

ASSUME AllowanceAssumption ==
    /\ Allowances \subseteq [mode : Modes, quota : Nat, window : Nat \ {0}, cap : Nat]
    /\ MaxLease \in Nat \ {0} /\ Gap \in Nat /\ Grace \in Nat /\ MaxRows \in Nat
    /\ Cycle \in Nat \ {0} /\ Day \in Nat \ {0} /\ Length \in 1 .. Cycle
    /\ MaxTime \in Nat /\ MaxLeases \in Nat /\ MaxFaults \in Nat

VARIABLES
    allowance,    \* the rule's allowance
    enabled,      \* the rule exists and is enabled
    steady,       \* history: it has been so all the time
    ledger,       \* service._allowance_usage
    stored,       \* allowance-usage.json
    leases,       \* service._allowance_leases
    issued,       \* how many leases were issued: it names the next one
    tracker,      \* the AllowanceTracker of each browser
    kept,         \* the reports each browser has in its local storage
    trusted, now,
    faults

ruleVars == <<allowance, enabled, steady>>
service == <<ruleVars, ledger, stored, leases, issued>>
vars == <<service, tracker, kept, trusted, now, faults>>

Lease == [by : Browsers, id : Nat \ {0}, from : Nat, to : Nat]
\* The report identity is unique to the lease and the interval.
Row == [by : Browsers, lease : Nat \ {0}, from : Nat, to : Nat]
Answers == {"none", "ok", "not_found", "failed"}
Call == [kind : {"idle", "report", "lease"}, answer : Answers,
         lease : Lease \cup {None}, fresh : BOOLEAN]
Tracker == [viewing : BOOLEAN,               \* _eligible()
            lease : Lease \cup {None},
            last : Nat \cup {None},          \* last_ms
            pending : Seq(Row),
            call : Call]                     \* where pump() waits, or not busy

Idle == [kind |-> "idle", answer |-> "none", lease |-> None, fresh |-> TRUE]
SendReport == [Idle EXCEPT !.kind = "report"]
SendRequest == [Idle EXCEPT !.kind = "lease"]
FreshTracker == [viewing |-> FALSE, lease |-> None, last |-> None,
                 pending |-> <<>>, call |-> Idle]

TypeOK ==
    /\ allowance \in Allowances
    /\ enabled \in BOOLEAN
    /\ steady \in BOOLEAN
    /\ ledger \subseteq Row /\ stored \subseteq Row
    /\ leases \subseteq Lease
    /\ issued \in 0 .. MaxLeases
    /\ tracker \in [Browsers -> Tracker]
    /\ kept \in [Browsers -> Seq(Row)]
    /\ trusted \in BOOLEAN
    /\ now \in 0 .. MaxTime
    /\ faults \in 0 .. MaxFaults

-----------------------------------------------------------------------------
(* The budget at unit i, when the units of S are used and none is after i. *)

Units(rows) == UNION {r.from .. r.to - 1 : r \in rows}
Least(a, b) == IF a < b THEN a ELSE b
Later(a, b) == IF a < b THEN b ELSE a
Left(budget, used) == IF used < budget THEN budget - used ELSE 0

\* occurrence_at: the concrete period of a unit.
Occurrence(i) == i \div Cycle
OccurrenceEnd(i) == Occurrence(i) * Cycle + Length
Active(i) == i < OccurrenceEnd(i)

\* Mutant: a window starts at each look.
WindowFromNow(S, i) == i

\* _rolling_window_start: windows follow each other from the first use after an
\* idle time of a whole window; one without use has not begun.
RollingWindow(S, i) ==
    LET anchors == {s \in S : \A p \in S : p < s => s - p > allowance.window}
        anchor  == Max(anchors)
        start   == anchor + ((i - anchor) \div allowance.window) * allowance.window
    IN  IF S = {} THEN i ELSE IF start > Max(S) THEN i ELSE start

UsedInPeriod(S, i) == {s \in S : Occurrence(s) = Occurrence(i)}

WindowStart(S, i) ==
    IF allowance.mode = "total" THEN Occurrence(i) * Cycle
    ELSE RollingWindow(UsedInPeriod(S, i), i)
WindowEnd(S, i) ==
    IF allowance.mode = "total" THEN OccurrenceEnd(i)
    ELSE Least(WindowStart(S, i) + allowance.window, OccurrenceEnd(i))

PeriodUsed(S, i) == Cardinality({s \in UsedInPeriod(S, i) : s >= WindowStart(S, i)})
DayUsed(S, i) == Cardinality({s \in S : s \div Day = i \div Day})

Remaining(S, i) == Least(Left(allowance.quota, PeriodUsed(S, i)),
                         Left(allowance.cap, DayUsed(S, i)))
WithinBudget(S, i) ==
    PeriodUsed(S, i) <= allowance.quota /\ DayUsed(S, i) <= allowance.cap

Before(S, i) == {s \in S : s < i}
UpTo(S, i) == {s \in S : s <= i}

-----------------------------------------------------------------------------
(* The service. *)

Reserving(l) == l.to > now
\* The seconds of all leases that may still be used, each lease for itself.
ReservedSeconds(ls) ==
    UNION {{l} \X (l.from .. l.to - 1) : l \in {x \in ls : Reserving(x)}}
Reserved(ls) == Cardinality(ReservedSeconds(ls))

Kept(ls) == {l \in ls : l.to + Grace > now}

\* The lengths of a lease that the budget, the window and the period allow now.
Lengths ==
    LET used == Before(Units(ledger), now)
    IN  {d \in 1 .. MaxLease :
            /\ Active(now)
            /\ now + d <= WindowEnd(used, now) /\ now + d <= OccurrenceEnd(now)
            /\ Reserved(leases) + d <= Remaining(used, now)}

KnownReport(r) == r \in ledger

Fits(r, l) == r.from >= l.from /\ r.to <= l.to /\ r.to <= now

\* AllowanceUsageState.record refuses another row.
Full == Cardinality(ledger) >= MaxRows

\* The answer to a report that is not in the ledger, other than the acceptance.
Refusal(r) ==
    LET found == {l \in leases : l.id = r.lease}
        i     == r.to - 1
    IN  IF found = {} THEN "not_found"
        ELSE IF ~trusted \/ \E l \in found : ~Fits(r, l) THEN "failed"
        ELSE IF ~enabled THEN "not_found"
        ELSE IF \/ Full
                \/ ~Active(i)
                \/ ~WithinBudget(UpTo(Units(ledger \cup {r}), i), i)
             THEN "failed"
        ELSE "none"

Answer(b, a) == tracker' = [tracker EXCEPT ![b].call.answer = a]

InFlight(b, kind) == tracker[b].call.kind = kind /\ tracker[b].call.answer = "none"

Spend == faults < MaxFaults /\ faults' = faults + 1

\* Mutant: a report is answered before it is saved.
AcceptUnsaved(r) == ledger' = ledger \cup {r} /\ stored' = stored
Accept(r) == ledger' = ledger \cup {r} /\ stored' = ledger \cup {r}

\* _cmd_report_allowance_usage
ServeReport(b) ==
    LET r       == Head(tracker[b].pending)
        refusal == Refusal(r)
    IN  /\ InFlight(b, "report")
        /\ \/ /\ KnownReport(r)
              /\ Answer(b, "ok")
              /\ UNCHANGED <<ledger, stored, faults>>
           \/ /\ ~KnownReport(r) /\ refusal # "none"
              /\ Answer(b, refusal)
              /\ UNCHANGED <<ledger, stored, faults>>
           \/ /\ ~KnownReport(r) /\ refusal = "none"
              /\ Accept(r)
              /\ Answer(b, "ok")
              /\ UNCHANGED faults
           \/ /\ ~KnownReport(r) /\ refusal = "none"   \* the save fails
              /\ Spend
              /\ Answer(b, "failed")
              /\ UNCHANGED <<ledger, stored>>
        /\ UNCHANGED <<ruleVars, leases, issued, kept, trusted, now>>

\* _cmd_request_allowance_lease, when it gives a lease of this length.
Grants(b, length) ==
    LET l == [by |-> b, id |-> issued + 1, from |-> now, to |-> now + length]
    IN  /\ issued < MaxLeases
        /\ leases' = Kept(leases) \cup {l}
        /\ issued' = issued + 1
        /\ tracker' = [tracker EXCEPT ![b].call.answer = "ok", ![b].call.lease = l]

ServeLease(b) ==
    LET lengths == Lengths
    IN  /\ InFlight(b, "lease")
        /\ \/ /\ trusted /\ enabled
              /\ \E d \in lengths : (\A e \in lengths : e <= d) /\ Grants(b, d)
           \/ /\ trusted /\ enabled /\ lengths = {}
              /\ leases' = Kept(leases)
              /\ Answer(b, "failed")
              /\ UNCHANGED issued
           \/ /\ ~(trusted /\ enabled)
              /\ Answer(b, "failed")
              /\ UNCHANGED <<leases, issued>>
        /\ UNCHANGED <<ruleVars, ledger, stored, kept, trusted, now, faults>>

\* The process restarts: what it kept in memory is gone.
RestartService ==
    /\ Spend
    /\ ledger' = stored
    /\ leases' = {}
    /\ UNCHANGED <<ruleVars, stored, issued, tracker, kept, trusted, now>>

-----------------------------------------------------------------------------
(* The browser. *)

\* Mutant: usage is counted from the start of the lease.
CountedFromLease(x, t) ==
    [by |-> x.lease.by, lease |-> x.lease.id,
     from |-> x.lease.from, to |-> Least(t, x.lease.to)]
Counted(x, t) ==
    [by |-> x.lease.by, lease |-> x.lease.id,
     from |-> Later(x.last, x.lease.from), to |-> Least(t, x.lease.to)]

\* _advance: the time since the last heartbeat becomes a report when the page was
\* in view under a lease; a lease does not survive its end, a gap, or a page out of
\* view.
Advanced(x, t) ==
    IF x.last = None THEN [x EXCEPT !.last = t]
    ELSE IF t - x.last > Gap \/ ~x.viewing \/ x.lease = None
         THEN [x EXCEPT !.last = t, !.lease = None]
    ELSE LET r == Counted(x, t)
         IN  [x EXCEPT !.last = t,
                       !.pending = IF r.from < r.to THEN Append(@, r) ELSE @,
                       !.lease = IF t >= x.lease.to THEN None ELSE @]

\* pump, up to its next await.
Pumped(x) ==
    [x EXCEPT !.call = IF x.pending # <<>> THEN SendReport
                       ELSE IF x.viewing /\ x.lease = None THEN SendRequest ELSE Idle]

\* pump returns at once while another call of it is waiting.
Touched(x) == IF x.call.kind = "idle" THEN Pumped(x) ELSE x

Becomes(b, x) == tracker' = [tracker EXCEPT ![b] = x]
BrowserStep == UNCHANGED <<service, trusted, now>>

\* pulse, from the timer that runs while the tracker needs it, and the alarm.
Pulse(b) ==
    /\ Becomes(b, Touched(Advanced(tracker[b], now)))
    /\ BrowserStep /\ UNCHANGED <<kept, faults>>

\* set_active_tab, set_tab_match, set_focused and set_idle when their input
\* changes: the lease is given up, and an answer on its way is of no use.
Look(b, viewing) ==
    LET x == Advanced(tracker[b], now)
    IN  /\ viewing \/ tracker[b].viewing
        /\ Becomes(b, Touched([x EXCEPT !.lease = None, !.viewing = viewing,
                                        !.call.fresh = FALSE]))
        /\ BrowserStep /\ UNCHANGED <<kept, faults>>

\* Mutant: a report of a forgotten lease is kept and sent again.
ReportKeptWithoutLease(b) ==
    LET x == tracker[b]
    IN  /\ x.call.kind = "report" /\ x.call.answer # "none"
        /\ Becomes(b, IF x.call.answer = "ok"
                      THEN Pumped([x EXCEPT !.pending = Tail(@)])
                      ELSE [x EXCEPT !.lease = None, !.call = Idle])
        /\ BrowserStep /\ UNCHANGED <<kept, faults>>

\* pump after an answer to a report.
ReportAnswered(b) ==
    LET x == tracker[b]
    IN  /\ x.call.kind = "report" /\ x.call.answer # "none"
        /\ Becomes(b, IF x.call.answer = "failed"
                      THEN [x EXCEPT !.lease = None, !.call = Idle]
                      ELSE Pumped([x EXCEPT !.pending = Tail(@)]))
        /\ BrowserStep /\ UNCHANGED <<kept, faults>>

\* pump after an answer to a request.
LeaseAnswered(b) ==
    LET x == tracker[b]
        l == x.call.lease
    IN  /\ x.call.kind = "lease" /\ x.call.answer # "none"
        /\ Becomes(b, IF ~x.call.fresh \/ ~x.viewing
                      THEN [x EXCEPT !.lease = None, !.call = Idle]
                      ELSE IF l = None THEN [x EXCEPT !.call = Idle]
                      ELSE [x EXCEPT !.lease = l, !.call = Idle,
                              !.last = IF @ = None THEN Later(now, l.from)
                                       ELSE Later(@, l.from)])
        /\ BrowserStep /\ UNCHANGED <<kept, faults>>

\* The storage has taken what on_pending_changed gave it.  (Nothing reads it any
\* more once the bound on restarts is reached.)
Flush(b) ==
    /\ faults < MaxFaults
    /\ kept' = [kept EXCEPT ![b] = tracker[b].pending]
    /\ BrowserStep /\ UNCHANGED <<tracker, faults>>

\* The browser restarts and restores the reports it had stored.
RestartBrowser(b) ==
    /\ Spend
    /\ Becomes(b, [FreshTracker EXCEPT !.pending = kept[b]])
    /\ BrowserStep /\ UNCHANGED kept

-----------------------------------------------------------------------------
(* The environment. *)

\* The request or its answer is lost: the host reports an error.
LoseCall(b) ==
    /\ tracker[b].call.kind # "idle" /\ tracker[b].call.answer # "failed"
    /\ Spend
    /\ tracker' = [tracker EXCEPT ![b].call.answer = "failed", ![b].call.lease = None]
    /\ BrowserStep /\ UNCHANGED kept

\* The policy or the clock changes; LockedPolicy and TrustedClock say when they may.
EnableRule(on) ==
    /\ on # enabled
    /\ Spend
    /\ enabled' = on
    /\ steady' = FALSE
    /\ UNCHANGED <<allowance, ledger, stored, leases, issued,
                   tracker, kept, trusted, now>>

SetTrust(on) ==
    /\ on # trusted
    /\ Spend
    /\ trusted' = on
    /\ UNCHANGED <<service, tracker, kept, now>>

Elapse ==
    /\ now < MaxTime
    /\ now' = now + 1
    /\ UNCHANGED <<service, tracker, kept, trusted, faults>>

Init ==
    /\ allowance \in Allowances
    /\ enabled = TRUE
    /\ steady = TRUE
    /\ ledger = {} /\ stored = {} /\ leases = {}
    /\ issued = 0
    /\ tracker = [b \in Browsers |-> FreshTracker]
    /\ kept = [b \in Browsers |-> <<>>]
    /\ trusted = TRUE
    /\ now = 0
    /\ faults = 0

Next ==
    \/ \E b \in Browsers :
        \/ ServeReport(b) \/ ServeLease(b)
        \/ Pulse(b) \/ ReportAnswered(b) \/ LeaseAnswered(b)
        \/ Flush(b) \/ RestartBrowser(b) \/ LoseCall(b)
        \/ \E v \in BOOLEAN : Look(b, v)
    \/ RestartService
    \/ \E on \in BOOLEAN : EnableRule(on) \/ SetTrust(on)
    \/ Elapse

\* The service answers each call, the browser takes each answer, and its timer
\* pulses while reports wait.
Fairness ==
    \A b \in Browsers :
        /\ WF_vars(ServeReport(b)) /\ WF_vars(ServeLease(b))
        /\ WF_vars(ReportAnswered(b)) /\ WF_vars(LeaseAnswered(b))
        /\ WF_vars(Pulse(b))

Spec == Init /\ [][Next]_vars
FairSpec == Spec /\ Fairness

-----------------------------------------------------------------------------
(* Properties. *)

\* The windows that used units fall in, from the first on: a use after a whole idle
\* window opens one, and others follow it without a gap.
WindowsOf(S) ==
    LET w[i \in S] ==
          LET earlier == {s \in S : s < i}
              start   == w[Max(earlier)]
          IN  IF earlier = {} THEN i
              ELSE IF i - Max(earlier) > allowance.window THEN i
              ELSE start + ((i - start) \div allowance.window) * allowance.window
    IN  w

\* The usage respects the budget of each period or window, and the cap of each day.
PeriodsRespected(units) ==
    allowance.mode = "total" =>
        \A i \in units : Cardinality({s \in units : s \div Cycle = i \div Cycle}) <= allowance.quota
WindowsRespected(units) ==
    allowance.mode = "fixed_window" =>
        \A i \in units :
            LET period == {s \in units : s \div Cycle = i \div Cycle}
                window == WindowsOf(period)
            IN  Cardinality({s \in period : window[s] = window[i]}) <= allowance.quota
DaysRespected(units) ==
    \A i \in units : Cardinality({s \in units : s \div Day = i \div Day}) <= allowance.cap
InBudget(rows) ==
    LET units == Units(rows)
    IN  PeriodsRespected(units) /\ WindowsRespected(units) /\ DaysRespected(units)

EachInBudget == \A b \in Browsers : InBudget({r \in ledger : r.by = b})

\* However its calls are delayed, lost and repeated and whatever restarts, no
\* browser gets more usage accepted than the rule's period, each refill window and
\* the day allow (the checks of _cmd_report_allowance_usage with the reservations
\* of _cmd_request_allowance_lease), as long as the rule is not disabled: a report
\* that comes then is answered not_found, and the browser forgets what it used.
NoBrowserOverspends == steady => EachInBudget

\* The same of all browsers together, as docs/FUTURE-VERSIONS.md promises.
BudgetHolds == InBudget(ledger)

\* The leases that may still be used never add up to more than the budget or the
\* day's cap, with those that a browser has given up or whose answer was lost
\* (_cmd_request_allowance_lease).
LiveLeasesWithinBudget ==
    Reserved(leases) <= allowance.quota /\ Reserved(leases) <= allowance.cap

\* A report that a browser may drop because it was accepted is in the service's
\* file, so that no restart loses it (_cmd_report_allowance_usage, pump).
AcceptedIsStored ==
    \A b \in Browsers :
        tracker[b].call.kind = "report" /\ tracker[b].call.answer = "ok"
            => Head(tracker[b].pending) \in stored

\* No second of a browser is reported twice, whatever becomes of its leases
\* (_advance, _invalidate_context and pump).
NoSecondTwice ==
    \A b \in Browsers :
        LET rows == {r \in ledger : r.by = b} \cup {tracker[b].pending[k] : k \in DOMAIN tracker[b].pending}
        IN  \A r, s \in rows : r # s => Units({r}) \cap Units({s}) = {}

\* What a browser has used is counted, and counted once: neither the loss of answers, files,
\* leases or processes on either side loses an accepted second or repeats one.
UsageAccounted == AcceptedIsStored /\ NoSecondTwice

\* Waiting reports do not wait for ever while the clock is trusted and the ledger
\* has room: each is accepted or found to be of a lease no longer known (pump: a
\* report is not passed over, and no lease is asked for before).
ReportsSettle ==
    \A b \in Browsers :
        <>[]trusted => ([](tracker[b].pending # <<>>
                             => <>(tracker[b].pending = <<>> \/ Full)))
=============================================================================
