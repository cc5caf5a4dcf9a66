---------------------------- MODULE LockedPolicy ----------------------------
(***************************************************************************)
(* The policy and lock state of the root service: the rules, the managed   *)
(* lists, the lock of each rule, the challenges and the one-time grants    *)
(* that authorize one change of a locked rule, and the signed file they    *)
(* are persisted in.  One action per command of BlockerService.dispatch    *)
(* that changes this state; the import commands are represented by the     *)
(* commit that ends them (the staging of their chunks is volatile and      *)
(* changes nothing here).                                                  *)
(*                                                                         *)
(* A rule's schedule is the set of instants at which it is active, with    *)
(* the schedule's kind; `now' is the service's clock in an abstract unit.  *)
(***************************************************************************)
EXTENDS Naturals, FiniteSets, Functions

CONSTANTS
    RuleIds, ListIds, Domains,   \* identifiers of rules, managed lists, domains
    Users, Root,                 \* the configured owner(s) of the socket, and uid 0
    RuleValues,                  \* the rules a client may submit
    ImportLocks,                 \* the locks a staged import may carry
    Secrets,                     \* passwords
    ChallengeIds,                \* _MAX_AUTHORIZATIONS challenge slots
    MaxGrants,                   \* _MAX_AUTHORIZATIONS
    ChallengeTime, GrantTime,    \* _CHALLENGE_SECONDS and _AUTH_SECONDS
    FocusTime,                   \* durations of a focus session
    MaxTimedLock,                \* the 366-day limit of a timed lock
    Outcomes,                    \* what may happen to a save, see SaveOutcomes
    MaxTime                      \* bound on the clock

SaveOutcomes == {"saved", "unsaved", "unenforced", "torn", "crash"}
ScheduleKinds == {"indefinite", "weekly", "pomodoro", "one_time"}
LockKinds == {"timed", "schedule", "friction", "password", "delay"}
NoAllowance == 0

Schedule == [kind : ScheduleKinds, times : SUBSET Nat]
Rule == [enabled : BOOLEAN,
         targets : SUBSET (Domains \cup ListIds),
         system_blocking : BOOLEAN,
         system_targets : SUBSET (Domains \cup ListIds),
         exceptions : SUBSET Domains,
         excluded : SUBSET Domains,
         schedule : Schedule,
         time_allowance : Nat]
Lock == [kind : LockKinds, until : Nat, secret : Nat,
         failures : Nat, retry_after : Nat]

ASSUME ConstantsAssumption ==
    /\ Domains \cap ListIds = {}
    /\ Root \notin Users
    /\ RuleValues \subseteq Rule
    /\ ImportLocks \subseteq Lock
    /\ Secrets \subseteq Nat \ {0}
    /\ MaxGrants \in Nat /\ MaxTimedLock \in Nat /\ MaxTime \in Nat
    /\ ChallengeTime \in Nat /\ GrantTime \in Nat
    /\ FocusTime \subseteq Nat
    /\ Outcomes \subseteq SaveOutcomes

\* Partial functions: a rule, list, lock, challenge or grant that does not
\* exist is not in the function's domain.
Partial(S, T) == UNION {[D -> T] : D \in SUBSET S}
IsPartial(f, S, T) == DOMAIN f \subseteq S /\ f \in [DOMAIN f -> T]
Nothing == [x \in {} |-> 0]

IsPolicy(p) ==
    /\ p = [rules |-> p.rules, lists |-> p.lists]
    /\ IsPartial(p.rules, RuleIds, Rule)
    /\ IsPartial(p.lists, ListIds, SUBSET Domains)
Challenge == [owner : Users \cup {Root}, rule : RuleIds, kind : LockKinds, expires : Nat]
Uids == Users \cup {Root}

VARIABLES
    policy, locks,         \* service.policy and service.controls
    disk,                  \* what store.load() returns
    challenges, grants,    \* the volatile authorization state
    healthy,               \* service.healthy
    trusted, now,          \* clock.trusted and clock.now()
    up,                    \* the process runs
    byRoot,                \* history: the last step was a command of uid 0
    raised                 \* history: it had written the file when it was answered with an error

authVars == <<challenges, grants>>
stateVars == <<policy, locks, disk>>
clockVars == <<trusted, now>>
vars == <<policy, locks, disk, challenges, grants, healthy, trusted, now, up, byRoot, raised>>

TypeOK ==
    /\ IsPolicy(policy)
    /\ IsPartial(locks, RuleIds, Lock)
    /\ disk = [policy |-> disk.policy, locks |-> disk.locks]
    /\ IsPolicy(disk.policy)
    /\ IsPartial(disk.locks, RuleIds, Lock)
    /\ IsPartial(challenges, ChallengeIds, Challenge)
    /\ IsPartial(grants, Uids \X RuleIds, Nat)
    /\ healthy \in BOOLEAN
    /\ trusted \in BOOLEAN
    /\ now \in Nat
    /\ up \in BOOLEAN
    /\ byRoot \in BOOLEAN
    /\ raised \in BOOLEAN

-----------------------------------------------------------------------------
(* Pure operators over rules, lists and locks. *)

\* Rule.is_active: with an untrusted clock every rule whose schedule is finite
\* counts as active.
IsActive(rule, t, clockTrusted) ==
    /\ rule.enabled
    /\ \/ ~clockTrusted /\ rule.schedule.kind # "indefinite"
       \/ rule.schedule.kind = "indefinite"
       \/ t \in rule.schedule.times

\* RuleLock.is_effective
IsEffective(lock, t, clockTrusted, root, scheduleActive) ==
    /\ ~root
    /\ CASE lock.kind \in {"schedule", "delay"} -> scheduleActive
         [] lock.kind \in {"friction", "password"} -> TRUE
         [] OTHER -> ~clockTrusted \/ t < lock.until

RuleActive(r) == r \in DOMAIN policy.rules /\ IsActive(policy.rules[r], now, trusted)

EffectivelyLocked(u, r) ==
    /\ r \in DOMAIN locks
    /\ IsEffective(locks[r], now, trusted, u = Root, RuleActive(r))

HasGrant(u, r) == <<u, r>> \in DOMAIN grants /\ grants[<<u, r>>] > now

\* _lock_refusal: some rule of the set has an effective lock that no grant opens.
LockRefused(u, rs) ==
    \E r \in rs :
        /\ EffectivelyLocked(u, r)
        /\ \/ locks[r].kind \in {"timed", "schedule"}
           \/ ~HasGrant(u, r)

\* _weakened_allowance, for the time allowance of a rule
WeakenedAllowance(old, new) ==
    /\ new.time_allowance # NoAllowance
    /\ old.time_allowance # new.time_allowance

\* Mutant: a new exception is not a weakening.
WeakenedChangeWithoutExceptions(old, new) ==
    \/ old.enabled /\ ~new.enabled
    \/ old.system_blocking /\ ~new.system_blocking
    \/ ~(old.targets \subseteq new.targets)
    \/ old.schedule # new.schedule
    \/ WeakenedAllowance(old, new)

\* _weakened_change
WeakenedChange(old, new) ==
    \/ old.enabled /\ ~new.enabled
    \/ old.system_blocking /\ ~new.system_blocking
    \/ ~(old.targets \subseteq new.targets)
    \/ old.system_blocking /\ ~(old.system_targets \subseteq new.system_targets)
    \/ ~(new.exceptions \subseteq old.exceptions)
    \/ old.schedule # new.schedule
    \/ WeakenedAllowance(old, new)

\* Mutant: an active one-time schedule may be shortened.
WeakenedActiveChangeWithoutEnd(old, new) ==
    /\ IsActive(old, now, trusted)
    /\ \/ ~(old.targets \subseteq new.targets)
       \/ old.schedule.kind # new.schedule.kind

\* _weakened_active_change: an active rule may not lose targets, change the
\* kind of its schedule, or shorten a one-time schedule.
WeakenedActiveChange(old, new) ==
    /\ IsActive(old, now, trusted)
    /\ \/ ~(old.targets \subseteq new.targets)
       \/ /\ old.system_blocking
          /\ ~new.system_blocking \/ ~(old.system_targets \subseteq new.system_targets)
       \/ old.schedule.kind # new.schedule.kind
       \/ /\ old.schedule.kind = "one_time"
          /\ ~(old.schedule.times \subseteq new.schedule.times)

References(rule, l) == l \in rule.targets \cup rule.system_targets
ReferencingRules(l) == {r \in DOMAIN policy.rules : References(policy.rules[r], l)}

\* Mutant: a list that stays is not reduced.
RemovedLists(old, new) == DOMAIN old \ DOMAIN new

\* Lists of `old' whose domains do not all survive in `new'.
ReducedLists(old, new) ==
    {l \in DOMAIN old : l \notin DOMAIN new \/ ~(old[l] \subseteq new[l])}

\* The checks Policy.from_dict and _validate_control_refs make on what is
\* saved: list references resolve, exclusions need a managed-list target,
\* and every lock names a rule of the policy.
Storable(p, l) ==
    /\ DOMAIN l \subseteq DOMAIN p.rules
    /\ \A r \in DOMAIN p.rules :
        /\ (p.rules[r].targets \cup p.rules[r].system_targets) \cap ListIds
               \subseteq DOMAIN p.lists
        /\ p.rules[r].excluded = {} \/ p.rules[r].targets \cap ListIds # {}

-----------------------------------------------------------------------------
(* Saving, failing and crashing. *)

\* _expire_staged drops what is out of date before a command is handled.
LiveChallenges == Restrict(challenges, {c \in DOMAIN challenges : challenges[c].expires > now})
LiveGrants == Restrict(grants, {g \in DOMAIN grants : grants[g] > now})
Without(f, keys) == Restrict(f, DOMAIN f \ keys)
WithKey(f, k, v) == [x \in DOMAIN f \cup {k} |-> IF x = k THEN v ELSE f[x]]

\* _save and _save_controls: validate, persist, then expose the new state and
\* reconcile enforcement.
\*   saved       the call returns
\*   unsaved     a check, the network union or store.save raises: nothing changed
\*   torn        store.save raises after it has replaced the file
\*   unenforced  the state is persisted and exposed, then reconciling raises
\*   crash       the process dies after the file was replaced
\* `done' and `failed' are the grants left when the call returns or raises.
Save(u, p, l, done, failed, out) ==
    /\ up
    /\ Storable(p, l)
    /\ out \in Outcomes
    /\ disk' = IF out = "unsaved" THEN disk ELSE [policy |-> p, locks |-> l]
    /\ policy' = IF out \in {"unsaved", "torn"} THEN policy ELSE p
    /\ locks' = IF out \in {"unsaved", "torn"} THEN locks ELSE l
    /\ grants' = CASE out = "saved" -> done
                   [] out = "crash" -> Nothing
                   [] OTHER -> failed
    /\ up' = (out # "crash")
    /\ healthy' \in IF out \in {"unsaved", "unenforced"} THEN {healthy, FALSE} ELSE {healthy}
    /\ byRoot' = (u = Root)
    /\ raised' = (out \in {"torn", "unenforced"})
    /\ UNCHANGED clockVars

\* Mutant: the grants are left for another change.
SaveWithoutBurning(p, l, u, used) ==
    \E out \in SaveOutcomes :
        /\ Save(u, p, l, LiveGrants, LiveGrants, out)
        /\ challenges' = IF out = "crash" THEN Nothing ELSE LiveChallenges

\* A weakening change burns the grants it used once the save has returned.
SaveAndBurn(p, l, u, used) ==
    \E out \in SaveOutcomes :
        /\ Save(u, p, l, Without(LiveGrants, {u} \X used), LiveGrants, out)
        /\ challenges' = IF out = "crash" THEN Nothing ELSE LiveChallenges

SetRules(rules) == [policy EXCEPT !.rules = rules]

-----------------------------------------------------------------------------
(* The commands. *)

\* A command is refused while enforcement is unhealthy if it could weaken it
\* (_UNHEALTHY_COMMANDS).
Ready == up /\ healthy

\* put_rule
PutRule(u, r, new) ==
    LET exists   == r \in DOMAIN policy.rules
        old      == policy.rules[r]
        weakened == exists /\ WeakenedChange(old, new)
    IN  /\ Ready
        /\ exists => ~WeakenedActiveChange(old, new)
        /\ weakened => ~LockRefused(u, {r})
        /\ SaveAndBurn(SetRules(WithKey(policy.rules, r, new)), locks,
                       u, IF weakened THEN {r} ELSE {})

\* set_enabled: only turning a rule off asks for an authorization.
SetEnabled(u, r, enabled) ==
    /\ Ready
    /\ r \in DOMAIN policy.rules
    /\ LET old      == policy.rules[r]
           new      == [old EXCEPT !.enabled = enabled]
           weakened == old.enabled /\ ~enabled
       IN  /\ ~WeakenedActiveChange(old, new)
           /\ weakened => ~LockRefused(u, {r})
           /\ SaveAndBurn(SetRules(WithKey(policy.rules, r, new)), locks,
                          u, IF weakened THEN {r} ELSE {})

\* delete_rule removes the rule's lock with it.
DeleteRule(u, r) ==
    /\ Ready
    /\ r \in DOMAIN policy.rules
    /\ ~RuleActive(r)
    /\ ~LockRefused(u, {r})
    /\ SaveAndBurn(SetRules(Without(policy.rules, {r})), Without(locks, {r}), u, {r})

\* start_focus: a new one-time rule with the targets of an existing one.
StartFocus(u, r, focus, minutes) ==
    /\ Ready
    /\ r \in DOMAIN policy.rules
    /\ focus \in RuleIds \ DOMAIN policy.rules
    /\ policy.rules[r].targets # {}
    /\ LET rule == [enabled |-> TRUE, targets |-> policy.rules[r].targets,
                    system_blocking |-> FALSE, system_targets |-> {},
                    exceptions |-> {}, excluded |-> {},
                    schedule |-> [kind |-> "one_time", times |-> now .. (now + minutes - 1)],
                    time_allowance |-> NoAllowance]
       IN  SaveAndBurn(SetRules(WithKey(policy.rules, focus, rule)), locks, u, {})

\* Rules that a replacement of the policy would remove or weaken.
WeakenedRules(new) ==
    {r \in DOMAIN policy.rules :
        r \notin DOMAIN new.rules \/ WeakenedChange(policy.rules[r], new.rules[r])}

\* Rules that lose domains of a list they reference.
RulesOfReducedLists(new) ==
    UNION {ReferencingRules(l) : l \in ReducedLists(policy.lists, new.lists)}

\* _validate_replacement
ReplacementRefused(u, new) ==
    \/ \E r \in DOMAIN policy.rules :
        /\ RuleActive(r)
        /\ r \notin DOMAIN new.rules \/ WeakenedActiveChange(policy.rules[r], new.rules[r])
    \/ \E r \in RulesOfReducedLists(new) : RuleActive(r)
    \/ LockRefused(u, WeakenedRules(new) \cup RulesOfReducedLists(new))

\* _replacement_grant_ids
ReplacementGrants(new) == WeakenedRules(new) \cup RulesOfReducedLists(new)

\* _commit_native: rules and lists are replaced, locks of surviving rules stay.
CommitNativeImport(u, new) ==
    /\ Ready
    /\ ~ReplacementRefused(u, new)
    /\ SaveAndBurn(new, Restrict(locks, DOMAIN locks \cap DOMAIN new.rules),
                   u, ReplacementGrants(new))

\* _replace_rules: as above with the lists kept; an import of another
\* application's rules may carry locks, for rules that are new.
ReplaceRules(u, rules, newLocks) ==
    LET new == SetRules(rules)
    IN  /\ Ready
        /\ ~ReplacementRefused(u, new)
        /\ DOMAIN newLocks \subseteq DOMAIN rules \ DOMAIN policy.rules
        /\ SaveAndBurn(new, [r \in (DOMAIN locks \cap DOMAIN rules) \cup DOMAIN newLocks |->
                                IF r \in DOMAIN newLocks THEN newLocks[r] ELSE locks[r]],
                       u, ReplacementGrants(new))

\* _commit_list: a list is added, or replaced by one that may have lost domains.
CommitListImport(u, l, domains) ==
    LET new     == [policy EXCEPT !.lists = WithKey(policy.lists, l, domains)]
        reduced == l \in ReducedLists(policy.lists, new.lists)
        users   == IF reduced THEN ReferencingRules(l) ELSE {}
    IN  /\ Ready
        /\ \A r \in users : ~RuleActive(r)
        /\ ~LockRefused(u, users)
        /\ SaveAndBurn(new, locks, u, users)

\* delete_managed_list
DeleteManagedList(u, l) ==
    /\ Ready
    /\ l \in DOMAIN policy.lists
    /\ ReferencingRules(l) = {}
    /\ SaveAndBurn([policy EXCEPT !.lists = Without(policy.lists, {l})], locks, u, {})

PlainLock(kind) == [kind |-> kind, until |-> 0, secret |-> 0, failures |-> 0, retry_after |-> 0]

\* The locks set_rule_lock accepts for a rule, as values.
NewLocks(r) ==
    {[PlainLock("timed") EXCEPT !.until = t] :
        t \in IF trusted THEN (now + 1) .. (now + MaxTimedLock) ELSE {}}
    \cup {[PlainLock("password") EXCEPT !.secret = s] : s \in Secrets}
    \cup {PlainLock("friction"), PlainLock("delay")}
    \cup {PlainLock(k) : k \in IF policy.rules[r].schedule.kind = "weekly"
                               THEN {"schedule"} ELSE {}}

\* Mutant: a timed lock may be set again to any end.
NeedsAuthorizationByKind(u, r, lock) ==
    /\ EffectivelyLocked(u, r)
    /\ ~(locks[r].kind = lock.kind /\ lock.kind \in {"timed", "schedule", "friction"})

\* Replacing an effective lock asks for an authorization, except to extend a
\* timed lock and to set a schedule or friction lock again.
NeedsAuthorization(u, r, lock) ==
    /\ EffectivelyLocked(u, r)
    /\ ~ \/ locks[r].kind = "timed" /\ lock.kind = "timed" /\ lock.until >= locks[r].until
         \/ locks[r].kind = lock.kind /\ lock.kind \in {"schedule", "friction"}

\* set_rule_lock with a lock
SetRuleLock(u, r, lock) ==
    /\ Ready
    /\ r \in DOMAIN policy.rules
    /\ lock \in NewLocks(r)
    /\ NeedsAuthorization(u, r, lock) => ~LockRefused(u, {r})
    /\ SaveAndBurn(policy, WithKey(locks, r, lock),
                   u, IF NeedsAuthorization(u, r, lock) THEN {r} ELSE {})

\* set_rule_lock with kind none
RemoveRuleLock(u, r) ==
    /\ Ready
    /\ r \in DOMAIN policy.rules
    /\ ~LockRefused(u, {r})
    /\ SaveAndBurn(policy, Without(locks, {r}),
                   u, IF EffectivelyLocked(u, r) THEN {r} ELSE {})

\* begin_rule_authorization
BeginRuleAuthorization(u, r, c) ==
    /\ up
    /\ EffectivelyLocked(u, r)
    /\ locks[r].kind \in {"friction", "password"}
    /\ locks[r].kind = "password" => trusted /\ locks[r].retry_after <= now
    /\ c \in ChallengeIds \ DOMAIN LiveChallenges
    /\ challenges' = WithKey(LiveChallenges, c,
           [owner |-> u, rule |-> r, kind |-> locks[r].kind, expires |-> now + ChallengeTime])
    /\ grants' = LiveGrants
    /\ byRoot' = (u = Root) /\ raised' = FALSE
    /\ UNCHANGED <<stateVars, clockVars, healthy, up>>

\* with_password_failure and with_password_success; the wait doubles with each
\* failure up to 1 << 6.
RetryDelay == <<2, 4, 8, 16, 32, 64>>
AtMost(n, limit) == IF n <= limit THEN n ELSE limit
\* Mutant: the wait does not grow with the failures.
PasswordFailureConstant(lock) ==
    [lock EXCEPT !.failures = AtMost(lock.failures + 1, 64), !.retry_after = now + 2]
PasswordFailure(lock) ==
    LET failures == AtMost(lock.failures + 1, 64)
    IN  [lock EXCEPT !.failures = failures,
                     !.retry_after = now + RetryDelay[AtMost(failures, 6)]]
PasswordSuccess(lock) == [lock EXCEPT !.failures = 0, !.retry_after = 0]

\* The grant a completed authorization adds; when all slots are taken, none.
Granted(u, r) ==
    IF Cardinality(DOMAIN LiveGrants) >= MaxGrants
    THEN LiveGrants
    ELSE WithKey(LiveGrants, <<u, r>>, now + GrantTime)

\* Mutant: a challenge is accepted for a lock of another kind.
AnswersAnyKind(u, r, c) ==
    /\ c \in DOMAIN LiveChallenges
    /\ challenges[c].owner = u
    /\ challenges[c].rule = r
    /\ EffectivelyLocked(u, r)

\* The challenge answers the request: it is removed whatever follows.
Answers(u, r, c) ==
    /\ c \in DOMAIN LiveChallenges
    /\ challenges[c].owner = u
    /\ challenges[c].rule = r
    /\ EffectivelyLocked(u, r)
    /\ locks[r].kind = challenges[c].kind

\* The password is compared with the lock's hash.
Verifies(r) == locks[r].kind = "password" /\ trusted /\ locks[r].retry_after <= now

\* complete_rule_authorization of a friction lock, or of any challenge whose
\* answer is refused without a verification.
CompleteAuthorization(u, r, c, correct) ==
    /\ up
    /\ c \in DOMAIN LiveChallenges
    /\ ~(Answers(u, r, c) /\ Verifies(r))
    /\ challenges' = Without(LiveChallenges, {c})
    /\ grants' = IF Answers(u, r, c) /\ locks[r].kind = "friction" /\ correct
                 THEN Granted(u, r)
                 ELSE LiveGrants
    /\ byRoot' = (u = Root) /\ raised' = FALSE
    /\ UNCHANGED <<stateVars, clockVars, healthy, up>>

\* complete_rule_authorization of a password lock: the attempt is persisted
\* before the reply, a correct one earns a grant.
CompletePassword(u, r, c, secret) ==
    /\ up
    /\ Answers(u, r, c)
    /\ Verifies(r)
    /\ LET correct == secret = locks[r].secret
           lock    == IF correct THEN PasswordSuccess(locks[r]) ELSE PasswordFailure(locks[r])
       IN  \E out \in SaveOutcomes :
            /\ Save(u, policy, WithKey(locks, r, lock),
                    IF correct THEN Granted(u, r) ELSE LiveGrants, LiveGrants, out)
            /\ challenges' = IF out = "crash" THEN Nothing ELSE Without(LiveChallenges, {c})

-----------------------------------------------------------------------------
(* The daemon's own steps and its environment. *)

\* tick drops what is out of date; other work of tick is modelled elsewhere.
ServiceTick ==
    /\ up
    /\ challenges' = LiveChallenges
    /\ grants' = LiveGrants
    /\ byRoot' = FALSE /\ raised' = FALSE
    /\ UNCHANGED <<stateVars, clockVars, healthy, up>>

Advance ==
    /\ now < MaxTime
    /\ now' = now + 1
    /\ byRoot' = FALSE /\ raised' = FALSE
    /\ UNCHANGED <<stateVars, authVars, healthy, trusted, up>>

\* The clock finds that it cannot be trusted, or root clears the latch.
LoseTrust ==
    /\ up /\ trusted
    /\ trusted' = FALSE
    /\ byRoot' = FALSE /\ raised' = FALSE
    /\ UNCHANGED <<stateVars, authVars, healthy, now, up>>

ClearClockLatch(u) ==
    /\ up /\ u = Root
    /\ trusted' = TRUE
    /\ challenges' = LiveChallenges
    /\ grants' = LiveGrants
    /\ byRoot' = TRUE /\ raised' = FALSE
    /\ UNCHANGED <<stateVars, healthy, now, up>>

\* An enforcer reports that it failed.
EnforcementFails ==
    /\ up
    /\ healthy' = FALSE
    /\ byRoot' = FALSE /\ raised' = FALSE
    /\ UNCHANGED <<stateVars, authVars, clockVars, up>>

\* The process dies at any time; an unhealthy service ends itself.
Crash ==
    /\ up
    /\ "crash" \in Outcomes
    /\ up' = FALSE
    /\ challenges' = Nothing
    /\ grants' = Nothing
    /\ byRoot' = FALSE /\ raised' = FALSE
    /\ UNCHANGED <<stateVars, clockVars, healthy>>

\* systemd starts it again and start() loads the signed state; the clock may
\* or may not be trusted then.
Restart ==
    /\ ~up
    /\ Storable(disk.policy, disk.locks)
    /\ up' = TRUE
    /\ policy' = disk.policy
    /\ locks' = disk.locks
    /\ healthy' = TRUE
    /\ trusted' \in BOOLEAN
    /\ byRoot' = FALSE /\ raised' = FALSE
    /\ UNCHANGED <<disk, authVars, now>>

-----------------------------------------------------------------------------
Init ==
    /\ policy = [rules |-> Nothing, lists |-> Nothing]
    /\ locks = Nothing
    /\ disk = [policy |-> policy, locks |-> locks]
    /\ challenges = Nothing
    /\ grants = Nothing
    /\ healthy = TRUE
    /\ trusted = TRUE
    /\ now = 0
    /\ up = TRUE
    /\ byRoot = FALSE /\ raised = FALSE

PolicyCommand(u) ==
    \/ \E r \in RuleIds, new \in RuleValues : PutRule(u, r, new)
    \/ \E r \in RuleIds, enabled \in BOOLEAN : SetEnabled(u, r, enabled)
    \/ \E r \in RuleIds : DeleteRule(u, r)
    \/ \E r, focus \in RuleIds, minutes \in FocusTime : StartFocus(u, r, focus, minutes)
    \/ \E rules \in Partial(RuleIds, RuleValues), lists \in Partial(ListIds, SUBSET Domains) :
            CommitNativeImport(u, [rules |-> rules, lists |-> lists])
    \/ \E rules \in Partial(RuleIds, RuleValues), newLocks \in Partial(RuleIds, ImportLocks) :
            ReplaceRules(u, rules, newLocks)
    \/ \E l \in ListIds, domains \in SUBSET Domains : CommitListImport(u, l, domains)
    \/ \E l \in ListIds : DeleteManagedList(u, l)

LockCommand(u) ==
    \/ \E r \in DOMAIN policy.rules : \E lock \in NewLocks(r) : SetRuleLock(u, r, lock)
    \/ \E r \in RuleIds : RemoveRuleLock(u, r)
    \/ \E r \in RuleIds, c \in ChallengeIds : BeginRuleAuthorization(u, r, c)
    \/ \E r \in RuleIds, c \in ChallengeIds, correct \in BOOLEAN :
            CompleteAuthorization(u, r, c, correct)
    \/ \E r \in RuleIds, c \in ChallengeIds, secret \in Secrets :
            CompletePassword(u, r, c, secret)

Command(u) == PolicyCommand(u) \/ LockCommand(u) \/ ClearClockLatch(u)

Environment ==
    \/ ServiceTick
    \/ Advance
    \/ LoseTrust
    \/ EnforcementFails
    \/ Crash
    \/ Restart

Next == Environment \/ \E u \in Uids : Command(u)

Spec == Init /\ [][Next]_vars

-----------------------------------------------------------------------------
(* Properties.  They compare the state that the process works with before a  *)
(* step with what the step makes of it and with what it writes, which the    *)
(* next start loads: also where a save writes the file and then fails.       *)

After == {[policy |-> policy', locks |-> locks']} \cup (IF disk' = disk THEN {} ELSE {disk'})

\* The rule has a lock that is effective for a user who is not root.
Locked(r) ==
    /\ up
    /\ r \in DOMAIN locks \cap DOMAIN policy.rules
    /\ IsEffective(locks[r], now, trusted, FALSE, RuleActive(r))

\* An authorization a user holds opens friction, password and delay locks only.
Opened(r) ==
    /\ locks[r].kind \notin {"timed", "schedule"}
    /\ \E u \in Users : HasGrant(u, r)

RootStep == byRoot'

\* What a rule blocks, in the browser and in the system.
Resolve(targets, lists) ==
    (targets \cap Domains) \cup UNION {lists[l] : l \in targets \cap DOMAIN lists}
Browser(rule, lists) ==
    ((rule.targets \cap Domains)
        \cup (Resolve(rule.targets \ Domains, lists) \ rule.excluded)) \ rule.exceptions
System(rule, lists) ==
    IF rule.system_blocking THEN Resolve(rule.system_targets, lists) ELSE {}

BlocksLess(old, oldLists, new, newLists) ==
    \/ ~new.enabled
    \/ ~(Browser(old, oldLists) \subseteq Browser(new, newLists))
    \/ ~(System(old, oldLists) \subseteq System(new, newLists))
    \/ /\ new.schedule.kind # "indefinite"
       /\ \/ old.schedule.kind = "indefinite"
          \/ ~(old.schedule.times \subseteq new.schedule.times)
    \/ new.time_allowance > old.time_allowance

CoverageLost(r) ==
    LET old == policy.rules[r]
    IN  /\ old.enabled
        /\ \E new \in After :
             \/ r \notin DOMAIN new.policy.rules
             \/ BlocksLess(old, policy.lists, new.policy.rules[r], new.policy.lists)

Relaxes(old, new, r) ==
    \/ r \notin DOMAIN new
    \/ new[r].kind # old[r].kind
    \/ old[r].kind = "timed" /\ new[r].until < old[r].until
    \/ old[r].kind = "password" /\ new[r].secret # old[r].secret

LockRelaxed(r) == \E new \in After : Relaxes(locks, new.locks, r)

\* While a rule's lock is effective, nobody but root removes the lock, replaces
\* it by one of another kind, shortens it or changes its password, unless he
\* holds an unexpired grant; no grant does that to a timed or schedule lock.
LocksHold ==
    [][\A r \in RuleIds : Locked(r) /\ ~RootStep /\ LockRelaxed(r) => Opened(r)]_vars

\* While a rule's lock is effective, nobody but root makes the rule block less
\* (fewer domains, less of the time, with a larger allowance, or not at all),
\* unless he holds an unexpired grant for a lock that a grant opens.
RulesHold ==
    [][\A r \in RuleIds : Locked(r) /\ ~RootStep /\ CoverageLost(r) => Opened(r)]_vars

\* What a user takes from a locked rule or its lock he had a grant for, and the
\* grant is gone when the change is made, or the command was answered with an
\* error: one authorization allows one change that succeeds.
OneChangePerAuthorization ==
    [][\A r \in RuleIds :
         Locked(r) /\ ~RootStep /\ (CoverageLost(r) \/ LockRelaxed(r))
            => \E u \in Users : HasGrant(u, r) /\ (raised' \/ <<u, r>> \notin DOMAIN grants')]_vars

\* One authorization allows one change, as README.md has it.  The code does not
\* ensure it: a save that fails after it has written leaves the grant.
OneChangeOnly ==
    [][\A r \in RuleIds :
         Locked(r) /\ ~RootStep /\ (CoverageLost(r) \/ LockRelaxed(r))
            => \E u \in Users : HasGrant(u, r) /\ <<u, r>> \notin DOMAIN grants']_vars

\* A grant appears, or is renewed, only when a challenge given to the same user
\* for the same rule and for the kind of lock the rule still has is used up.
GrantsAreEarned ==
    [][\A g \in DOMAIN grants' :
         (g \in DOMAIN grants => grants'[g] > grants[g])
            => \E c \in DOMAIN challenges \ DOMAIN challenges' :
                 /\ challenges[c].owner = g[1] /\ challenges[c].rule = g[2]
                 /\ challenges[c].expires > now
                 /\ locks[g[2]].kind = challenges[c].kind]_vars

\* A rule that is active keeps its targets, the domains of its lists and the
\* kind of its schedule, and a one-time schedule is not shortened; this binds
\* root too.  (A rule may be disabled: that is what locks are for.)
ActiveRulesKeepTargets ==
    [][up => \A r \in DOMAIN policy.rules, after \in After :
         LET old == policy.rules[r]
             new == after.policy.rules[r]
         IN  RuleActive(r) =>
                /\ r \in DOMAIN after.policy.rules
                /\ old.targets \subseteq new.targets
                /\ Resolve(old.targets, policy.lists)
                     \subseteq Resolve(new.targets, after.policy.lists)
                /\ old.schedule.kind = new.schedule.kind
                /\ old.schedule.kind = "one_time"
                     => old.schedule.times \subseteq new.schedule.times]_vars

\* Guessing a password costs time whatever restarts and failures of the save
\* come between: after f failures at least 2 + 4 + ... + 2^f units have passed
\* or must pass before the next verification.
Costs(l) ==
    \A r \in DOMAIN l :
        l[r].kind = "password" /\ l[r].failures \in 1 .. 6
            => l[r].retry_after + 2 >= 2 * RetryDelay[l[r].failures]
GuessesCostTime == Costs(locks) /\ Costs(disk.locks)
=============================================================================
