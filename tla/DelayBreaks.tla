---------------------------- MODULE DelayBreaks ----------------------------
(***************************************************************************)
(* Delay breaks: a user asks for a break of a rule with a Delay lock, the  *)
(* rule stays enforced while a countdown runs, then it is left out of the  *)
(* enforcement for a fixed time.  The root service keeps the countdowns    *)
(* and breaks in a signed file of their own, delay-breaks.json, beside the *)
(* policy file that holds the locks; every command and every tick advances *)
(* them first.                                                             *)
(*                                                                         *)
(* Who may change a lock is the subject of LockedPolicy: here a lock is    *)
(* changed by anyone, as root may at any time.                             *)
(***************************************************************************)
EXTENDS Naturals, Functions

CONSTANTS
    Rules,       \* rules of the policy
    Delays,      \* configurations of a Delay lock: its wait and its break
    NoDelay,     \* the rule has no lock, or one of another kind
    MaxTime,     \* bound on the clock
    MaxFaults    \* bound on crashes, failed saves and failed reconciliations

Delay == [wait : Nat \ {0}, length : Nat \ {0}]

ASSUME DelayAssumption ==
    /\ Delays \subseteq Delay
    /\ NoDelay \notin Delays
    /\ MaxTime \in Nat /\ MaxFaults \in Nat

VARIABLES
    lock,      \* the Delay lock of each rule, in the signed policy file
    active,    \* the rule is enabled and its schedule is active
    items,     \* service._delay_breaks
    stored,    \* delay-breaks.json
    blocked,   \* the rules the last reconciliation enforced
    trusted, now,
    up,
    faults,
    asked      \* history: when and for what each rule's last break was asked

vars == <<lock, active, items, stored, blocked, trusted, now, up, faults, asked>>

NotStarted == 0
Break == [pending_until : Nat, length : Nat \ {0}, break_until : Nat]
Never == [at |-> 0, wait |-> 0, length |-> 0]
IsBreaks(f) == DOMAIN f \subseteq Rules /\ f \in [DOMAIN f -> Break]
Nothing == [r \in {} |-> 0]

TypeOK ==
    /\ lock \in [Rules -> Delays \cup {NoDelay}]
    /\ active \in [Rules -> BOOLEAN]
    /\ IsBreaks(items)
    /\ IsBreaks(stored)
    /\ blocked \subseteq Rules
    /\ trusted \in BOOLEAN
    /\ now \in Nat
    /\ up \in BOOLEAN
    /\ faults \in 0 .. MaxFaults
    /\ asked \in [Rules -> [at : Nat, wait : Nat, length : Nat]]

Without(f, keys) == Restrict(f, DOMAIN f \ keys)
WithKey(f, k, v) == [x \in DOMAIN f \cup {k} |-> IF x = k THEN v ELSE f[x]]

-----------------------------------------------------------------------------
(* What the service decides. *)

Started(item) == item.break_until # NotStarted

\* DelayBreak.start_break: the break runs from the end of the countdown, however
\* late the service notices it.
StartBreak(item) == [item EXCEPT !.break_until = item.pending_until + item.length]

\* A rule with a finite schedule counts as active when the clock is not trusted.
Active(r) == active[r] \/ ~trusted

\* Mutant: a break is over when it is removed, not when its time is up.
OnBreakUntilRemoved(its, locks, r) ==
    /\ trusted
    /\ locks[r] # NoDelay
    /\ r \in DOMAIN its
    /\ Started(its[r])

\* _active_delay_rule_ids
OnBreak(its, locks, r) ==
    /\ trusted
    /\ locks[r] # NoDelay
    /\ r \in DOMAIN its
    /\ Started(its[r])
    /\ now < its[r].break_until

\* _active_targets: the rules a reconciliation enforces.
Enforced(its, locks) == {r \in Rules : Active(r) /\ ~OnBreak(its, locks, r)}

\* Mutant: a break starts only while its rule is active.
AdvancedWhileActive(its) ==
    IF ~trusted THEN its
    ELSE LET kept == {r \in DOMAIN its :
                        /\ lock[r] # NoDelay
                        /\ ~(Started(its[r]) /\ its[r].break_until <= now)}
         IN  [r \in kept |->
                IF ~Started(its[r]) /\ its[r].pending_until <= now /\ active[r]
                THEN StartBreak(its[r])
                ELSE its[r]]

\* What _advance_delay_breaks computes: with a trusted clock it drops breaks of
\* rules without a Delay lock and breaks that are over, and starts those whose
\* countdown has ended.
Advanced(its) ==
    IF ~trusted THEN its
    ELSE LET kept == {r \in DOMAIN its :
                        /\ lock[r] # NoDelay
                        /\ ~(Started(its[r]) /\ its[r].break_until <= now)}
         IN  [r \in kept |->
                IF ~Started(its[r]) /\ its[r].pending_until <= now
                THEN StartBreak(its[r])
                ELSE its[r]]

\* _advance_delay_breaks saves the result; when the save fails the service goes
\* on with what it had.
Advances(its, current, cost) ==
    \/ current = Advanced(its) /\ cost = 0
    \/ current = its /\ Advanced(its) # its /\ cost = 1

Spend(cost) == faults' = faults + cost /\ faults + cost <= MaxFaults

\* dispatch reconciles when the advance changed something.
BlockedAfter(current) == IF current = items THEN blocked ELSE Enforced(current, lock)

\* The countdown or the break is still running at the time of a request.
Running(item) == (Started(item) /\ item.break_until > now) \/ item.pending_until > now

-----------------------------------------------------------------------------
(* The commands; each begins with the advance that dispatch makes. *)

\* The countdown of a request made now.
NewBreak(r) == [pending_until |-> now + lock[r].wait,
                length |-> lock[r].length,
                break_until |-> NotStarted]
NewAsk(r) == [at |-> now, wait |-> lock[r].wait, length |-> lock[r].length]

\* Mutant: a request starts a new countdown while one is running.
RequestAgain(r) ==
    \E current \in {items, Advanced(items)}, cost \in 0 .. 1 :
        /\ up
        /\ Advances(items, current, cost)
        /\ trusted /\ Active(r) /\ lock[r] # NoDelay
        /\ stored' = WithKey(current, r, NewBreak(r))
        /\ items' = stored'
        /\ asked' = [asked EXCEPT ![r] = NewAsk(r)]
        /\ Spend(cost)
        /\ blocked' = BlockedAfter(current)
        /\ UNCHANGED <<lock, active, trusted, now, up>>

\* request_delay_break, when it does not return a running break: what is over is
\* removed, then the new countdown is saved; the second save may fail, and the
\* process may die after it.
Request(r) ==
    \E current \in {items, Advanced(items)}, cost \in 0 .. 1, out \in {"saved", "removed", "crash"} :
        /\ up
        /\ Advances(items, current, cost)
        /\ trusted /\ Active(r) /\ lock[r] # NoDelay
        /\ r \in DOMAIN current => ~Running(current[r])
        /\ stored' = IF out = "removed" THEN Without(current, {r})
                     ELSE WithKey(current, r, NewBreak(r))
        /\ items' = IF out = "crash" THEN Nothing ELSE stored'
        /\ asked' = IF out = "removed" THEN asked ELSE [asked EXCEPT ![r] = NewAsk(r)]
        /\ up' = (out # "crash")
        /\ Spend(IF out = "saved" THEN cost ELSE cost + 1)
        /\ blocked' = BlockedAfter(current)
        /\ UNCHANGED <<lock, active, trusted, now>>

\* cancel_delay_break: a countdown may be cancelled, a break may not.
Cancel(r) ==
    \E current \in {items, Advanced(items)}, cost \in 0 .. 1 :
        /\ up
        /\ Advances(items, current, cost)
        /\ r \in DOMAIN current
        /\ ~Started(current[r])
        /\ stored' = Without(current, {r})
        /\ items' = stored'
        /\ Spend(cost)
        /\ blocked' = BlockedAfter(current)
        /\ UNCHANGED <<lock, active, trusted, now, up, asked>>

\* Any other command, and one that is refused: only the advance happens; when the
\* reconciliation after it raises, the command is answered with an error.
OtherCommand ==
    /\ up
    /\ Advanced(items) # items
    /\ stored' = Advanced(items)
    /\ items' = Advanced(items)
    /\ \/ Spend(0) /\ blocked' = Enforced(Advanced(items), lock)
       \/ Spend(1) /\ blocked' \in {blocked, Enforced(Advanced(items), lock)}
    /\ UNCHANGED <<lock, active, trusted, now, up, asked>>

\* _save and _save_controls of a change that gives rule r the lock `new' (or
\* leaves it as it is): the policy is saved, then enforced, then
\* _prune_delay_breaks saves the breaks without those of rules that have no
\* Delay lock.
\*   done          every step returns
\*   unreconciled  the reconciliation raises
\*   unpruned      the save of the breaks fails
\*   crash         the process dies after the policy was saved
SaveLock(r, new) ==
    \E current \in {items, Advanced(items)}, cost \in 0 .. 1,
       out \in {"done", "unreconciled", "unpruned", "crash"} :
        /\ up
        /\ Advances(items, current, cost)
        /\ lock' = [lock EXCEPT ![r] = new]
        /\ LET pruned == Without(current, {x \in Rules : lock'[x] = NoDelay})
           IN  /\ out = "unpruned" => pruned # current
               /\ stored' = IF out = "done" THEN pruned ELSE current
               /\ items' = IF out = "crash" THEN Nothing ELSE stored'
               /\ blocked' \in {Enforced(current, lock')}
                      \cup (IF out \in {"unreconciled", "crash"}
                            THEN {BlockedAfter(current)} ELSE {})
        /\ up' = (out # "crash")
        /\ Spend(IF out = "done" THEN cost ELSE cost + 1)
        /\ UNCHANGED <<active, trusted, now, asked>>

-----------------------------------------------------------------------------
(* The daemon and its environment. *)

\* Mutant: a tick reconciles only when the advance changed something.
TickWhenAdvanced ==
    \E current \in {items, Advanced(items)}, cost \in 0 .. 1 :
        /\ up
        /\ Advances(items, current, cost)
        /\ stored' = current
        /\ items' = current
        /\ blocked' = BlockedAfter(current)
        /\ Spend(cost)
        /\ UNCHANGED <<lock, active, trusted, now, up, asked>>

\* tick: advance, then reconcile; when that raises the daemon ends.
Tick ==
    \E current \in {items, Advanced(items)}, cost \in 0 .. 1, fails \in BOOLEAN :
        /\ up
        /\ Advances(items, current, cost)
        /\ stored' = current
        /\ items' = IF fails THEN Nothing ELSE current
        /\ blocked' \in {Enforced(current, lock)} \cup (IF fails THEN {blocked} ELSE {})
        /\ up' = ~fails
        /\ Spend(IF fails THEN cost + 1 ELSE cost)
        /\ UNCHANGED <<lock, active, trusted, now, asked>>

Crash ==
    /\ up
    /\ up' = FALSE
    /\ items' = Nothing
    /\ Spend(1)
    /\ UNCHANGED <<lock, active, stored, blocked, trusted, now, asked>>

\* start() loads the breaks, advances and reconciles; when that raises the daemon
\* ends again.
Start ==
    \E current \in {stored, Advanced(stored)}, cost \in 0 .. 1, fails \in BOOLEAN :
        /\ ~up
        /\ Advances(stored, current, cost)
        /\ stored' = current
        /\ items' = IF fails THEN Nothing ELSE current
        /\ blocked' \in {Enforced(current, lock)} \cup (IF fails THEN {blocked} ELSE {})
        /\ up' = ~fails
        /\ Spend(IF fails THEN cost + 1 ELSE cost)
        /\ UNCHANGED <<lock, active, trusted, now, asked>>

Elapse ==
    /\ now < MaxTime
    /\ now' = now + 1
    /\ UNCHANGED <<lock, active, items, stored, blocked, trusted, up, faults, asked>>

\* A schedule begins or ends, or the rule is enabled or disabled.
Turn(r) ==
    /\ active' = [active EXCEPT ![r] = ~@]
    /\ UNCHANGED <<lock, items, stored, blocked, trusted, now, up, faults, asked>>

\* The clock loses its trust, root clears the latch, or the next process finds
\* otherwise than the last.
ChangeTrust ==
    /\ trusted' = ~trusted
    /\ UNCHANGED <<lock, active, items, stored, blocked, now, up, faults, asked>>

Init ==
    /\ lock = [r \in Rules |-> NoDelay]
    /\ active \in [Rules -> BOOLEAN]
    /\ items = Nothing
    /\ stored = Nothing
    /\ trusted = TRUE
    /\ now = 0
    /\ up = TRUE
    /\ blocked = Enforced(items, lock)
    /\ faults = 0
    /\ asked = [r \in Rules |-> Never]

Command ==
    \/ \E r \in Rules : Request(r) \/ Cancel(r)
    \/ OtherCommand
    \/ \E r \in Rules, new \in Delays \cup {NoDelay} : SaveLock(r, new)

Environment ==
    \/ Crash
    \/ Elapse
    \/ ChangeTrust
    \/ \E r \in Rules : Turn(r)

Next == Command \/ Tick \/ Start \/ Environment

\* serve_forever ticks before each connection and after each second without one,
\* and systemd restarts the daemon without a limit.
Fairness == WF_vars(Tick) /\ WF_vars(Start)

Spec == Init /\ [][Next]_vars /\ Fairness

-----------------------------------------------------------------------------
(* Properties. *)

\* A rule is on a break only during the time that was asked for: after the whole
\* wait since the request, and no longer than the break, whatever crashes,
\* restarts, late ticks, failed saves and further requests came between.
BreaksAreWaitedFor ==
    \A r \in Rules :
        up /\ OnBreak(items, lock, r)
            => now - asked[r].at \in asked[r].wait .. (asked[r].wait + asked[r].length - 1)

\* A countdown or break that is running is not moved by another request: its end
\* stays where it was until it is over, cancelled, or dropped with the lock.
RequestsDoNotMoveIt ==
    [][\A r \in DOMAIN stored \cap DOMAIN stored' :
         Running(stored[r]) => /\ stored'[r].pending_until = stored[r].pending_until
                               /\ stored'[r].length = stored[r].length]_vars

\* A restart continues with the countdowns and breaks the service had: none is
\* known only to a process that may die.
NothingUnsaved == up => items = stored

\* Enforcement comes back: a rule that stays active and is not on a break is
\* enforced, though breaks end, clocks lose their trust, saves fail and the
\* daemon dies between two ticks.
EnforcementResumes ==
    \A r \in Rules :
        <>[](Active(r) /\ ~OnBreak(stored, lock, r)) => <>[](r \in blocked)

\* A countdown that has ended does not stay pending: with a trusted clock the
\* break starts (or the request is cancelled or dropped with the lock).
CountdownsEnd ==
    \A r \in Rules :
        LET due == r \in DOMAIN stored /\ ~Started(stored[r]) /\ stored[r].pending_until <= now
        IN  due ~> (~due \/ ~trusted)

\* A delay takes its course: the break that was asked for begins when the wait is over, and
\* enforcement is back when the break is, whatever failed or died in between.
DelaysTakeTheirCourse == CountdownsEnd /\ EnforcementResumes
=============================================================================
