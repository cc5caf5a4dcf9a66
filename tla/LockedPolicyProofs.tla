------------------------- MODULE LockedPolicyProofs -------------------------
(***************************************************************************)
(* What is true of LockedPolicy for every choice of rules, lists, users,   *)
(* durations and failures of a save: its state is well typed, start()      *)
(* accepts what is in the file, and an effective lock yields only to root  *)
(* or to an authorization.                                                 *)
(***************************************************************************)
EXTENDS LockedPolicy, TLAPS

-----------------------------------------------------------------------------
(* Partial functions. *)

LEMMA NothingPartial == ASSUME NEW S, NEW T PROVE IsPartial(Nothing, S, T)
BY DEF Nothing, IsPartial

LEMMA RestrictPartial ==
    ASSUME NEW S, NEW T, NEW f, IsPartial(f, S, T), NEW D \in SUBSET DOMAIN f
    PROVE  /\ IsPartial(Restrict(f, D), S, T)
           /\ DOMAIN Restrict(f, D) = D
           /\ \A x \in D : Restrict(f, D)[x] = f[x]
BY DEF IsPartial, Restrict

LEMMA WithoutPartial ==
    ASSUME NEW S, NEW T, NEW f, IsPartial(f, S, T), NEW K
    PROVE  /\ IsPartial(Without(f, K), S, T)
           /\ DOMAIN Without(f, K) = DOMAIN f \ K
           /\ \A x \in DOMAIN f \ K : Without(f, K)[x] = f[x]
BY RestrictPartial DEF Without

LEMMA WithKeyPartial ==
    ASSUME NEW S, NEW T, NEW f, IsPartial(f, S, T), NEW k \in S, NEW v \in T
    PROVE  /\ IsPartial(WithKey(f, k, v), S, T)
           /\ DOMAIN WithKey(f, k, v) = DOMAIN f \cup {k}
           /\ WithKey(f, k, v)[k] = v
           /\ \A x \in DOMAIN f : x # k => WithKey(f, k, v)[x] = f[x]
BY DEF IsPartial, WithKey

LEMMA LivePartial ==
    ASSUME TypeOK
    PROVE  /\ IsPartial(LiveChallenges, ChallengeIds, Challenge)
           /\ DOMAIN LiveChallenges \subseteq DOMAIN challenges
           /\ IsPartial(LiveGrants, Uids \X RuleIds, Nat)
           /\ DOMAIN LiveGrants \subseteq DOMAIN grants
           /\ \A g \in DOMAIN LiveGrants : LiveGrants[g] = grants[g]
<1>1. /\ IsPartial(challenges, ChallengeIds, Challenge)
      /\ IsPartial(grants, Uids \X RuleIds, Nat)
  BY DEF TypeOK
<1>2. /\ {c \in DOMAIN challenges : challenges[c].expires > now} \in SUBSET DOMAIN challenges
      /\ {g \in DOMAIN grants : grants[g] > now} \in SUBSET DOMAIN grants
  OBVIOUS
<1>3. QED BY <1>1, <1>2, RestrictPartial DEF LiveChallenges, LiveGrants

LEMMA AddGrantPartial ==
    ASSUME TypeOK, NEW u \in Uids, NEW r \in RuleIds
    PROVE  IsPartial(Granted(u, r), Uids \X RuleIds, Nat)
<1>1. now + GrantTime \in Nat
  BY ConstantsAssumption DEF TypeOK
<1>2. QED BY <1>1, LivePartial, WithKeyPartial DEF Granted

-----------------------------------------------------------------------------
(* What a save does to the state, whatever becomes of it. *)

\* The invariant: the state is well typed, and both the state in memory and the
\* one in the file, which differ after a save that failed late, can be loaded.
Loadable == Storable(policy, locks) /\ Storable(disk.policy, disk.locks)
Inv == TypeOK /\ Loadable

\* The parts of the state a challenge does not belong to.
RestOK ==
    /\ IsPolicy(policy) /\ IsPartial(locks, RuleIds, Lock)
    /\ disk = [policy |-> disk.policy, locks |-> disk.locks]
    /\ IsPolicy(disk.policy) /\ IsPartial(disk.locks, RuleIds, Lock)
    /\ IsPartial(grants, Uids \X RuleIds, Nat)
    /\ healthy \in BOOLEAN /\ trusted \in BOOLEAN /\ now \in Nat
    /\ up \in BOOLEAN /\ byRoot \in BOOLEAN /\ raised \in BOOLEAN
    /\ Loadable

\* A step that leaves memory and file as they were, or with p and l.
Current == [policy |-> policy, locks |-> locks]
SavedAs(p, l) ==
    /\ <<policy', locks'>> \in {<<policy, locks>>, <<p, l>>}
    /\ disk' \in {disk, [policy |-> p, locks |-> l]}

LEMMA AfterSave ==
    ASSUME NEW p, NEW l, SavedAs(p, l)
    PROVE  \A new \in After : new = Current \/ (new.policy = p /\ new.locks = l)
BY DEF SavedAs, After, Current

LEMMA SaveSaves ==
    ASSUME NEW u, NEW p, NEW l, NEW done, NEW failed, NEW out, Save(u, p, l, done, failed, out)
    PROVE  up /\ SavedAs(p, l) /\ byRoot' = (u = Root)
<1>1. /\ up /\ byRoot' = (u = Root)
      /\ disk' = IF out = "unsaved" THEN disk ELSE [policy |-> p, locks |-> l]
      /\ policy' = IF out \in {"unsaved", "torn"} THEN policy ELSE p
      /\ locks' = IF out \in {"unsaved", "torn"} THEN locks ELSE l
  BY DEF Save
<1>2. QED BY <1>1 DEF SavedAs

LEMMA SaveKeepsInv ==
    ASSUME Inv, NEW u \in Uids, NEW p, NEW l, NEW done, NEW failed, NEW out \in SaveOutcomes,
           IsPolicy(p), IsPartial(l, RuleIds, Lock),
           IsPartial(done, Uids \X RuleIds, Nat), IsPartial(failed, Uids \X RuleIds, Nat),
           Save(u, p, l, done, failed, out)
    PROVE  RestOK'
<1> USE DEF Inv
<1>1. /\ Storable(p, l)
      /\ up' = (out # "crash")
      /\ raised' = (out \in {"torn", "unenforced"})
      /\ healthy' \in IF out \in {"unsaved", "unenforced"} THEN {healthy, FALSE} ELSE {healthy}
      /\ trusted' = trusted /\ now' = now
  BY DEF Save, clockVars
<1>2. IsPartial(grants', Uids \X RuleIds, Nat)
  <2>1. grants' = CASE out = "saved" -> done
                    [] out = "crash" -> Nothing
                    [] OTHER -> failed
    BY DEF Save
  <2>2. CASE out = "saved"
    BY <2>1, <2>2
  <2>3. CASE out = "crash"
    BY <2>1, <2>3, NothingPartial
  <2>4. CASE out \notin {"saved", "crash"}
    BY <2>1, <2>4
  <2>5. QED BY <2>2, <2>3, <2>4
<1>3. /\ up /\ byRoot' = (u = Root)
      /\ <<policy', locks'>> \in {<<policy, locks>>, <<p, l>>}
      /\ disk' \in {disk, [policy |-> p, locks |-> l]}
  BY SaveSaves DEF SavedAs
<1>4. /\ IsPolicy(policy)' /\ IsPartial(locks, RuleIds, Lock)' /\ Storable(policy, locks)'
  <2>1. CASE policy' = policy /\ locks' = locks
    BY <2>1 DEF TypeOK, IsPolicy, Loadable, Storable
  <2>2. CASE policy' = p /\ locks' = l
    BY <1>1, <2>2 DEF IsPolicy, Storable
  <2>3. QED BY <1>3, <2>1, <2>2
<1>5. /\ (disk = [policy |-> disk.policy, locks |-> disk.locks])'
      /\ IsPolicy(disk.policy)' /\ IsPartial(disk.locks, RuleIds, Lock)'
      /\ Storable(disk.policy, disk.locks)'
  <2>1. CASE disk' = disk
    BY <2>1 DEF TypeOK, IsPolicy, Loadable, Storable
  <2>2. CASE disk' = [policy |-> p, locks |-> l]
    <3>1. disk'.policy = p /\ disk'.locks = l
      BY <2>2
    <3>2. QED BY <1>1, <2>2, <3>1 DEF IsPolicy, Storable
  <2>3. QED BY <1>3, <2>1, <2>2
<1>6. healthy' \in BOOLEAN /\ trusted' \in BOOLEAN /\ now' \in Nat /\ up' \in BOOLEAN
      /\ byRoot' \in BOOLEAN /\ raised' \in BOOLEAN
  <2>1. healthy \in BOOLEAN /\ trusted \in BOOLEAN /\ now \in Nat
    BY DEF TypeOK
  <2>2. healthy' \in {healthy, FALSE}
    BY <1>1
  <2>3. up' \in BOOLEAN /\ raised' \in BOOLEAN
    BY <1>1
  <2>4. byRoot' \in BOOLEAN
    BY <1>3
  <2>5. QED BY <1>1, <2>1, <2>2, <2>3, <2>4
<1>7. QED BY <1>2, <1>4, <1>5, <1>6 DEF RestOK, Loadable

LEMMA SaveAndBurnKeepsInv ==
    ASSUME Inv, NEW u \in Uids, NEW p, NEW l, NEW used \in SUBSET RuleIds,
           IsPolicy(p), IsPartial(l, RuleIds, Lock),
           SaveAndBurn(p, l, u, used)
    PROVE  Inv' /\ SavedAs(p, l) /\ byRoot' = (u = Root) /\ up
<1>1. PICK out \in SaveOutcomes :
        /\ Save(u, p, l, Without(LiveGrants, {u} \X used), LiveGrants, out)
        /\ challenges' = IF out = "crash" THEN Nothing ELSE LiveChallenges
  BY DEF SaveAndBurn
<1>2. /\ IsPartial(LiveGrants, Uids \X RuleIds, Nat)
      /\ IsPartial(LiveChallenges, ChallengeIds, Challenge)
  BY LivePartial DEF Inv
<1>3. IsPartial(Without(LiveGrants, {u} \X used), Uids \X RuleIds, Nat)
  BY <1>2, WithoutPartial
<1>4. RestOK' /\ SavedAs(p, l) /\ byRoot' = (u = Root) /\ up
  BY <1>1, <1>2, <1>3, SaveKeepsInv, SaveSaves
<1>5. IsPartial(challenges', ChallengeIds, Challenge)
  BY <1>1, <1>2, NothingPartial
<1>6. Inv'
  BY <1>4, <1>5 DEF RestOK, Inv, TypeOK
<1>7. QED BY <1>4, <1>6

-----------------------------------------------------------------------------
(* Effective locks. *)

\* The step claim of LocksHold.
LockStep ==
    \A r \in RuleIds : Locked(r) /\ ~RootStep /\ LockRelaxed(r) => Opened(r)

\* What a refusal protects: a locked rule that a user may change is opened.
LEMMA UnrefusedIsOpened ==
    ASSUME Inv, NEW u \in Users, NEW r \in RuleIds, Locked(r)
    PROVE  /\ EffectivelyLocked(u, r)
           /\ r \in DOMAIN policy.rules
           /\ \A rs : r \in rs /\ ~LockRefused(u, rs) => Opened(r) /\ HasGrant(u, r)
<1>1. u # Root
  BY ConstantsAssumption
<1>2. EffectivelyLocked(u, r) /\ r \in DOMAIN policy.rules
  BY <1>1 DEF Locked, EffectivelyLocked, IsEffective
<1>3. ASSUME NEW rs, r \in rs, ~LockRefused(u, rs)
      PROVE  Opened(r) /\ HasGrant(u, r)
  BY <1>2, <1>3 DEF LockRefused, Opened
<1>4. QED BY <1>2, <1>3

\* Locks that stay as they are relax nothing.
LEMMA SameLockRelaxesNothing ==
    ASSUME Inv, NEW l, NEW r \in DOMAIN locks, r \in DOMAIN l, l[r] = locks[r]
    PROVE  ~Relaxes(locks, l, r)
BY DEF Relaxes, Inv, TypeOK, IsPartial, Lock

LEMMA LockedHasLock ==
    ASSUME NEW r, Locked(r)
    PROVE  up /\ r \in DOMAIN locks
BY DEF Locked

\* A save by u changes locks as l says: if what l relaxes is opened to u, the
\* step respects the locks.
LEMMA SaveRespectsLocks ==
    ASSUME Inv, NEW u \in Uids, NEW p, NEW l, SavedAs(p, l), byRoot' = (u = Root),
           u \in Users => \A r \in RuleIds : Locked(r) /\ Relaxes(locks, l, r) => Opened(r)
    PROVE  LockStep
<1> SUFFICES ASSUME NEW r \in RuleIds, Locked(r), ~RootStep, LockRelaxed(r)
             PROVE  Opened(r)
  BY DEF LockStep
<1>1. u \in Users
  BY DEF RootStep, Uids
<1>2. PICK new \in After : Relaxes(locks, new.locks, r)
  BY DEF LockRelaxed
<1>3. ~Relaxes(locks, locks, r)
  BY LockedHasLock, SameLockRelaxesNothing
<1>4. new.locks = locks \/ new.locks = l
  BY AfterSave DEF Current
<1>5. QED BY <1>1, <1>2, <1>3, <1>4

-----------------------------------------------------------------------------
(* One lemma for each command: it keeps the invariant and respects the locks. *)

LEMMA SetRulesIsPolicy ==
    ASSUME Inv, NEW rules, IsPartial(rules, RuleIds, Rule)
    PROVE  IsPolicy(SetRules(rules))
BY DEF Inv, TypeOK, IsPolicy, SetRules

\* Commands that leave every lock in place.
LEMMA LocksKept ==
    ASSUME Inv, NEW u \in Uids, NEW p, NEW used \in SUBSET RuleIds,
           IsPolicy(p), SaveAndBurn(p, locks, u, used)
    PROVE  Inv' /\ LockStep
<1>1. IsPartial(locks, RuleIds, Lock)
  BY DEF Inv, TypeOK
<1>2. Inv' /\ byRoot' = (u = Root) /\ SavedAs(p, locks)
  BY <1>1, SaveAndBurnKeepsInv
<1>3. \A r \in RuleIds : Locked(r) => ~Relaxes(locks, locks, r)
  BY LockedHasLock, SameLockRelaxesNothing
<1>4. QED BY <1>2, <1>3, SaveRespectsLocks

LEMMA PutRuleStep ==
    ASSUME Inv, NEW u \in Uids, NEW r \in RuleIds, NEW new \in RuleValues, PutRule(u, r, new)
    PROVE  Inv' /\ LockStep
<1> DEFINE rules == WithKey(policy.rules, r, new)
           used  == IF r \in DOMAIN policy.rules /\ WeakenedChange(policy.rules[r], new)
                    THEN {r} ELSE {}
<1>1. SaveAndBurn(SetRules(rules), locks, u, used)
  BY DEF PutRule
<1>2. new \in Rule
  BY ConstantsAssumption
<1>3. IsPartial(rules, RuleIds, Rule)
  BY <1>2, WithKeyPartial DEF Inv, TypeOK, IsPolicy
<1>4. used \in SUBSET RuleIds
  OBVIOUS
<1> HIDE DEF rules, used
<1>5. QED BY <1>1, <1>3, <1>4, SetRulesIsPolicy, LocksKept

LEMMA SetEnabledStep ==
    ASSUME Inv, NEW u \in Uids, NEW r \in RuleIds, NEW enabled \in BOOLEAN,
           SetEnabled(u, r, enabled)
    PROVE  Inv' /\ LockStep
<1> DEFINE old   == policy.rules[r]
           new   == [old EXCEPT !.enabled = enabled]
           rules == WithKey(policy.rules, r, new)
           used  == IF old.enabled /\ ~enabled THEN {r} ELSE {}
<1>1. r \in DOMAIN policy.rules /\ SaveAndBurn(SetRules(rules), locks, u, used)
  BY DEF SetEnabled
<1>2. new \in Rule
  <2>1. old \in Rule
    BY <1>1 DEF Inv, TypeOK, IsPolicy, IsPartial
  <2>2. QED BY <2>1 DEF Rule
<1>3. IsPartial(rules, RuleIds, Rule)
  BY <1>2, WithKeyPartial DEF Inv, TypeOK, IsPolicy
<1>4. used \in SUBSET RuleIds
  OBVIOUS
<1> HIDE DEF rules, used
<1>5. QED BY <1>1, <1>3, <1>4, SetRulesIsPolicy, LocksKept

LEMMA StartFocusStep ==
    ASSUME Inv, NEW u \in Uids, NEW r \in RuleIds, NEW focus \in RuleIds,
           NEW minutes \in FocusTime, StartFocus(u, r, focus, minutes)
    PROVE  Inv' /\ LockStep
<1> DEFINE rule  == [enabled |-> TRUE, targets |-> policy.rules[r].targets,
                     system_blocking |-> FALSE, system_targets |-> {},
                     exceptions |-> {}, excluded |-> {},
                     schedule |-> [kind |-> "one_time", times |-> now .. (now + minutes - 1)],
                     time_allowance |-> NoAllowance]
           rules == WithKey(policy.rules, focus, rule)
<1>1. r \in DOMAIN policy.rules /\ SaveAndBurn(SetRules(rules), locks, u, {})
  BY DEF StartFocus
<1>2. rule \in Rule
  <2>1. policy.rules[r].targets \in SUBSET (Domains \cup ListIds)
    BY <1>1 DEF Inv, TypeOK, IsPolicy, IsPartial, Rule
  <2>2. now .. (now + minutes - 1) \in SUBSET Nat
    BY ConstantsAssumption DEF Inv, TypeOK
  <2>3. [kind |-> "one_time", times |-> now .. (now + minutes - 1)] \in Schedule
    BY <2>2 DEF Schedule, ScheduleKinds
  <2>4. QED BY <2>1, <2>3 DEF Rule, NoAllowance
<1>3. IsPartial(rules, RuleIds, Rule)
  BY <1>2, WithKeyPartial DEF Inv, TypeOK, IsPolicy
<1> HIDE DEF rules
<1>4. QED BY <1>1, <1>3, SetRulesIsPolicy, LocksKept

LEMMA ReferencingRulesAreRules ==
    ASSUME Inv PROVE \A l : ReferencingRules(l) \in SUBSET RuleIds
BY DEF Inv, TypeOK, IsPolicy, IsPartial, ReferencingRules

LEMMA CommitListImportStep ==
    ASSUME Inv, NEW u \in Uids, NEW l \in ListIds, NEW domains \in SUBSET Domains,
           CommitListImport(u, l, domains)
    PROVE  Inv' /\ LockStep
<1> DEFINE lists == WithKey(policy.lists, l, domains)
           new   == [policy EXCEPT !.lists = lists]
           used  == IF l \in ReducedLists(policy.lists, new.lists)
                    THEN ReferencingRules(l) ELSE {}
<1>1. SaveAndBurn(new, locks, u, used)
  BY DEF CommitListImport
<1>2. IsPartial(lists, ListIds, SUBSET Domains)
  BY WithKeyPartial DEF Inv, TypeOK, IsPolicy
<1>3. used \in SUBSET RuleIds
  BY ReferencingRulesAreRules
<1> HIDE DEF lists, used
<1>4. IsPolicy(new)
  BY <1>2 DEF Inv, TypeOK, IsPolicy
<1> HIDE DEF new
<1>5. QED BY <1>1, <1>3, <1>4, LocksKept

LEMMA DeleteManagedListStep ==
    ASSUME Inv, NEW u \in Uids, NEW l \in ListIds, DeleteManagedList(u, l)
    PROVE  Inv' /\ LockStep
<1> DEFINE lists == Without(policy.lists, {l})
           new   == [policy EXCEPT !.lists = lists]
<1>1. SaveAndBurn(new, locks, u, {})
  BY DEF DeleteManagedList
<1>2. IsPartial(lists, ListIds, SUBSET Domains)
  BY WithoutPartial DEF Inv, TypeOK, IsPolicy
<1> HIDE DEF lists
<1>3. IsPolicy(new)
  BY <1>2 DEF Inv, TypeOK, IsPolicy
<1> HIDE DEF new
<1>4. QED BY <1>1, <1>3, LocksKept

\* Commands that drop the locks of rules they were not refused.
LEMMA LocksDropped ==
    ASSUME Inv, NEW u \in Uids, NEW p, NEW l, NEW used \in SUBSET RuleIds, NEW rs,
           IsPolicy(p), IsPartial(l, RuleIds, Lock), SaveAndBurn(p, l, u, used),
           ~LockRefused(u, rs),
           \A r \in DOMAIN locks : r \in rs \/ (r \in DOMAIN l /\ l[r] = locks[r])
    PROVE  Inv' /\ LockStep
<1>1. Inv' /\ byRoot' = (u = Root) /\ SavedAs(p, l)
  BY SaveAndBurnKeepsInv
<1>2. ASSUME u \in Users, NEW r \in RuleIds, Locked(r), Relaxes(locks, l, r)
      PROVE  Opened(r)
  <2>1. r \in DOMAIN locks
    BY <1>2, LockedHasLock
  <2>2. r \in rs
    BY <1>2, <2>1, SameLockRelaxesNothing
  <2>3. QED BY <1>1, <1>2, <2>2, UnrefusedIsOpened
<1>3. QED BY <1>1, <1>2, SaveRespectsLocks

LEMMA DeleteRuleStep ==
    ASSUME Inv, NEW u \in Uids, NEW r \in RuleIds, DeleteRule(u, r)
    PROVE  Inv' /\ LockStep
<1> DEFINE rules == Without(policy.rules, {r})
           l     == Without(locks, {r})
<1>1. ~LockRefused(u, {r}) /\ SaveAndBurn(SetRules(rules), l, u, {r})
  BY DEF DeleteRule
<1>2. IsPartial(rules, RuleIds, Rule)
  BY WithoutPartial DEF Inv, TypeOK, IsPolicy
<1>3. /\ IsPartial(l, RuleIds, Lock)
      /\ \A x \in DOMAIN locks : x \in {r} \/ (x \in DOMAIN l /\ l[x] = locks[x])
  <2>1. IsPartial(locks, RuleIds, Lock)
    BY DEF Inv, TypeOK
  <2>2. /\ IsPartial(l, RuleIds, Lock)
        /\ DOMAIN l = DOMAIN locks \ {r}
        /\ \A x \in DOMAIN locks \ {r} : l[x] = locks[x]
    <3>1. IsPartial(l, RuleIds, Lock)
      BY <2>1, WithoutPartial
    <3>2. QED BY <3>1 DEF Without, Restrict
  <2> HIDE DEF l
  <2>3. QED BY <2>2
<1> HIDE DEF rules, l
<1>4. QED BY <1>1, <1>2, <1>3, SetRulesIsPolicy, LocksDropped

\* A replacement that is not refused may drop the locks of the rules it removes.
LEMMA UnrefusedReplacement ==
    ASSUME Inv, NEW u, NEW new, ~ReplacementRefused(u, new)
    PROVE  /\ ~LockRefused(u, WeakenedRules(new) \cup RulesOfReducedLists(new))
           /\ \A r \in DOMAIN policy.rules : r \notin DOMAIN new.rules => r \in WeakenedRules(new)
           /\ ReplacementGrants(new) \in SUBSET RuleIds
<1>1. ~LockRefused(u, WeakenedRules(new) \cup RulesOfReducedLists(new))
  BY DEF ReplacementRefused
<1>2. \A r \in DOMAIN policy.rules : r \notin DOMAIN new.rules => r \in WeakenedRules(new)
  BY DEF WeakenedRules
<1>3. WeakenedRules(new) \in SUBSET RuleIds
  BY DEF WeakenedRules, Inv, TypeOK, IsPolicy, IsPartial
<1>4. RulesOfReducedLists(new) \in SUBSET RuleIds
  BY ReferencingRulesAreRules DEF RulesOfReducedLists
<1>5. ReplacementGrants(new) \in SUBSET RuleIds
  BY <1>3, <1>4 DEF ReplacementGrants
<1>6. QED BY <1>1, <1>2, <1>5

LEMMA CommitNativeImportStep ==
    ASSUME Inv, NEW u \in Uids, NEW rules \in Partial(RuleIds, RuleValues),
           NEW lists \in Partial(ListIds, SUBSET Domains),
           CommitNativeImport(u, [rules |-> rules, lists |-> lists])
    PROVE  Inv' /\ LockStep
<1> DEFINE new == [rules |-> rules, lists |-> lists]
           l   == Restrict(locks, DOMAIN locks \cap DOMAIN new.rules)
           rs  == WeakenedRules(new) \cup RulesOfReducedLists(new)
<1>1. ~ReplacementRefused(u, new) /\ SaveAndBurn(new, l, u, ReplacementGrants(new))
  BY DEF CommitNativeImport
<1>2. IsPolicy(new)
  <2>1. IsPartial(rules, RuleIds, Rule) /\ IsPartial(lists, ListIds, SUBSET Domains)
    BY ConstantsAssumption DEF Partial, IsPartial
  <2>2. QED BY <2>1 DEF IsPolicy
<1>3. DOMAIN locks \cap DOMAIN new.rules \in SUBSET DOMAIN locks
  OBVIOUS
<1>4. /\ IsPartial(l, RuleIds, Lock)
      /\ DOMAIN l = DOMAIN locks \cap DOMAIN new.rules
      /\ \A x \in DOMAIN l : l[x] = locks[x]
  BY <1>3, RestrictPartial DEF Inv, TypeOK
<1>5. /\ ~LockRefused(u, rs)
      /\ \A r \in DOMAIN policy.rules : r \notin DOMAIN new.rules => r \in rs
      /\ ReplacementGrants(new) \in SUBSET RuleIds
  BY <1>1, UnrefusedReplacement
<1>6. DOMAIN locks \subseteq DOMAIN policy.rules
  BY DEF Inv, Loadable, Storable
<1> HIDE DEF l, rs
<1>7. \A x \in DOMAIN locks : x \in rs \/ (x \in DOMAIN l /\ l[x] = locks[x])
  BY <1>4, <1>5, <1>6
<1> HIDE DEF new
<1>8. QED BY <1>1, <1>2, <1>4, <1>5, <1>7, LocksDropped

LEMMA ReplaceRulesStep ==
    ASSUME Inv, NEW u \in Uids, NEW rules \in Partial(RuleIds, RuleValues),
           NEW newLocks \in Partial(RuleIds, ImportLocks), ReplaceRules(u, rules, newLocks)
    PROVE  Inv' /\ LockStep
<1> DEFINE new == SetRules(rules)
           l   == [r \in (DOMAIN locks \cap DOMAIN rules) \cup DOMAIN newLocks |->
                      IF r \in DOMAIN newLocks THEN newLocks[r] ELSE locks[r]]
           rs  == WeakenedRules(new) \cup RulesOfReducedLists(new)
<1>1. /\ ~ReplacementRefused(u, new)
      /\ DOMAIN newLocks \subseteq DOMAIN rules \ DOMAIN policy.rules
      /\ SaveAndBurn(new, l, u, ReplacementGrants(new))
  BY DEF ReplaceRules
<1>2. IsPartial(rules, RuleIds, Rule) /\ IsPartial(newLocks, RuleIds, Lock)
  BY ConstantsAssumption DEF Partial, IsPartial
<1>3. IsPolicy(new) /\ new.rules = rules
  BY <1>2, SetRulesIsPolicy DEF SetRules, Inv, TypeOK, IsPolicy
<1>4. /\ ~LockRefused(u, rs)
      /\ \A r \in DOMAIN policy.rules : r \notin DOMAIN rules => r \in rs
      /\ ReplacementGrants(new) \in SUBSET RuleIds
  BY <1>1, <1>3, UnrefusedReplacement
<1>5. IsPartial(l, RuleIds, Lock)
  BY <1>2 DEF IsPartial, Inv, TypeOK
<1>6. DOMAIN locks \subseteq DOMAIN policy.rules
  BY DEF Inv, Loadable, Storable
<1> HIDE DEF rs, new
<1>7. \A x \in DOMAIN locks : x \in rs \/ (x \in DOMAIN l /\ l[x] = locks[x])
  BY <1>1, <1>4, <1>6
<1> HIDE DEF l
<1>8. QED BY <1>1, <1>3, <1>4, <1>5, <1>7, LocksDropped

LEMMA RemoveRuleLockStep ==
    ASSUME Inv, NEW u \in Uids, NEW r \in RuleIds, RemoveRuleLock(u, r)
    PROVE  Inv' /\ LockStep
<1> DEFINE l    == Without(locks, {r})
           used == IF EffectivelyLocked(u, r) THEN {r} ELSE {}
<1>1. ~LockRefused(u, {r}) /\ SaveAndBurn(policy, l, u, used)
  BY DEF RemoveRuleLock
<1>2. IsPartial(locks, RuleIds, Lock) /\ IsPolicy(policy)
  BY DEF Inv, TypeOK
<1>3. /\ IsPartial(l, RuleIds, Lock)
      /\ DOMAIN l = DOMAIN locks \ {r}
      /\ \A x \in DOMAIN locks \ {r} : l[x] = locks[x]
  <2>1. IsPartial(l, RuleIds, Lock)
    BY <1>2, WithoutPartial
  <2>2. QED BY <2>1 DEF Without, Restrict
<1>4. used \in SUBSET RuleIds
  OBVIOUS
<1> HIDE DEF l, used
<1>5. \A x \in DOMAIN locks : x \in {r} \/ (x \in DOMAIN l /\ l[x] = locks[x])
  BY <1>3
<1>6. QED BY <1>1, <1>2, <1>3, <1>4, <1>5, LocksDropped

LEMMA NewLocksAreLocks == ASSUME Inv PROVE \A r : NewLocks(r) \subseteq Lock
<1>1. now \in Nat
  BY DEF Inv, TypeOK
<1>2. QED BY <1>1, ConstantsAssumption DEF NewLocks, PlainLock, Lock, LockKinds

LEMMA SetRuleLockStep ==
    ASSUME Inv, NEW u \in Uids, NEW r \in DOMAIN policy.rules, NEW lock \in NewLocks(r),
           SetRuleLock(u, r, lock)
    PROVE  Inv' /\ LockStep
<1> DEFINE l    == WithKey(locks, r, lock)
           used == IF NeedsAuthorization(u, r, lock) THEN {r} ELSE {}
<1>1. /\ NeedsAuthorization(u, r, lock) => ~LockRefused(u, {r})
      /\ SaveAndBurn(policy, l, u, used)
  BY DEF SetRuleLock
<1>2. IsPartial(locks, RuleIds, Lock) /\ IsPolicy(policy) /\ r \in RuleIds
  BY DEF Inv, TypeOK, IsPolicy, IsPartial
<1>3. /\ IsPartial(l, RuleIds, Lock)
      /\ DOMAIN l = DOMAIN locks \cup {r} /\ l[r] = lock
      /\ \A x \in DOMAIN locks : x # r => l[x] = locks[x]
  <2>1. lock \in Lock
    BY NewLocksAreLocks
  <2>2. IsPartial(l, RuleIds, Lock)
    BY <1>2, <2>1, WithKeyPartial
  <2>3. QED BY <2>2 DEF WithKey
<1>4. used \in SUBSET RuleIds
  BY <1>2
<1> HIDE DEF l, used
<1>5. Inv' /\ byRoot' = (u = Root) /\ SavedAs(policy, l)
  BY <1>1, <1>2, <1>3, <1>4, SaveAndBurnKeepsInv
<1>6. ASSUME u \in Users, NEW x \in RuleIds, Locked(x), Relaxes(locks, l, x)
      PROVE  Opened(x)
  <2>1. x \in DOMAIN locks
    BY <1>6, LockedHasLock
  <2>2. x = r
    BY <1>3, <1>6, <2>1, SameLockRelaxesNothing
  <2>3. EffectivelyLocked(u, r) /\ (~LockRefused(u, {r}) => Opened(r))
    BY <1>6, <2>2, UnrefusedIsOpened
  <2>4. NeedsAuthorization(u, r, lock)
    <3>1. /\ locks[r] \in Lock /\ lock \in Lock
      BY <1>2, <2>1, <2>2, NewLocksAreLocks DEF IsPartial
    <3>2. \/ lock.kind # locks[r].kind
          \/ locks[r].kind = "timed" /\ lock.until < locks[r].until
          \/ locks[r].kind = "password" /\ lock.secret # locks[r].secret
      BY <1>3, <1>6, <2>2 DEF Relaxes
    <3>3. QED BY <2>3, <3>1, <3>2 DEF NeedsAuthorization, Lock
  <2>5. QED BY <1>1, <2>2, <2>3, <2>4
<1>7. QED BY <1>5, <1>6, SaveRespectsLocks

-----------------------------------------------------------------------------
(* Authorization, and the steps that are not commands. *)

\* Steps that leave policy, locks and file alone.
Untouched ==
    /\ UNCHANGED stateVars
    /\ IsPartial(challenges', ChallengeIds, Challenge)
    /\ IsPartial(grants', Uids \X RuleIds, Nat)
    /\ healthy' \in BOOLEAN /\ trusted' \in BOOLEAN /\ now' \in Nat
    /\ up' \in BOOLEAN /\ byRoot' \in BOOLEAN /\ raised' \in BOOLEAN

\* A step that changes neither memory nor file, or starts the process again.
Quiet ==
    \/ UNCHANGED stateVars
    \/ ~up /\ policy' = disk.policy /\ locks' = disk.locks /\ disk' = disk

LEMMA QuietAfter == ASSUME Quiet, up PROVE \A new \in After : new = Current
BY DEF Quiet, stateVars, After, Current

LEMMA QuietRelaxesNothing ==
    ASSUME Inv, Quiet, NEW r \in RuleIds, Locked(r)
    PROVE  ~LockRelaxed(r)
<1>1. ~Relaxes(locks, locks, r)
  BY LockedHasLock, SameLockRelaxesNothing
<1>2. QED BY <1>1, LockedHasLock, QuietAfter DEF LockRelaxed, Current

LEMMA UntouchedStep ==
    ASSUME Inv, Untouched
    PROVE  Inv' /\ LockStep
<1>1. policy' = policy /\ locks' = locks /\ disk' = disk
  BY DEF Untouched, stateVars
<1>2. TypeOK'
  BY <1>1 DEF Untouched, Inv, TypeOK, IsPolicy
<1>3. Loadable'
  BY <1>1 DEF Inv, Loadable, Storable
<1>4. LockStep
  BY QuietRelaxesNothing DEF LockStep, Quiet, Untouched
<1>5. QED BY <1>2, <1>3, <1>4 DEF Inv

LEMMA BeginRuleAuthorizationStep ==
    ASSUME Inv, NEW u \in Uids, NEW r \in RuleIds, NEW c \in ChallengeIds,
           BeginRuleAuthorization(u, r, c)
    PROVE  Inv' /\ LockStep
<1> DEFINE ch == [owner |-> u, rule |-> r, kind |-> locks[r].kind,
                  expires |-> now + ChallengeTime]
<1>1. ch \in Challenge
  <2>1. locks[r].kind \in LockKinds
    BY DEF BeginRuleAuthorization, EffectivelyLocked, Inv, TypeOK, IsPartial, Lock
  <2>2. now + ChallengeTime \in Nat
    BY ConstantsAssumption DEF Inv, TypeOK
  <2>3. QED BY <2>1, <2>2 DEF Challenge, Uids
<1>2. /\ challenges' = WithKey(LiveChallenges, c, ch)
      /\ grants' = LiveGrants /\ byRoot' = (u = Root) /\ raised' = FALSE
      /\ UNCHANGED <<stateVars, clockVars, healthy, up>>
  BY DEF BeginRuleAuthorization
<1> HIDE DEF ch
<1>3. IsPartial(challenges', ChallengeIds, Challenge)
  BY <1>1, <1>2, LivePartial, WithKeyPartial DEF Inv
<1>4. Untouched
  BY <1>2, <1>3, LivePartial DEF Untouched, Inv, TypeOK, clockVars
<1>5. QED BY <1>4, UntouchedStep

LEMMA CompleteAuthorizationStep ==
    ASSUME Inv, NEW u \in Uids, NEW r \in RuleIds, NEW c \in ChallengeIds,
           NEW correct \in BOOLEAN, CompleteAuthorization(u, r, c, correct)
    PROVE  Inv' /\ LockStep
<1>1. /\ challenges' = Without(LiveChallenges, {c})
      /\ grants' = Granted(u, r) \/ grants' = LiveGrants
      /\ byRoot' = (u = Root) /\ raised' = FALSE
      /\ UNCHANGED <<stateVars, clockVars, healthy, up>>
  BY DEF CompleteAuthorization
<1>2. IsPartial(challenges', ChallengeIds, Challenge)
  BY <1>1, LivePartial, WithoutPartial DEF Inv
<1>3. IsPartial(grants', Uids \X RuleIds, Nat)
  BY <1>1, LivePartial, AddGrantPartial DEF Inv
<1>4. Untouched
  BY <1>1, <1>2, <1>3 DEF Untouched, Inv, TypeOK, clockVars
<1>5. QED BY <1>4, UntouchedStep

\* A verification changes the attempt counter of a password lock only.
LEMMA VerifiedLock ==
    ASSUME Inv, NEW lock \in Lock
    PROVE  /\ PasswordSuccess(lock) \in Lock /\ PasswordFailure(lock) \in Lock
           /\ PasswordSuccess(lock).kind = lock.kind /\ PasswordFailure(lock).kind = lock.kind
           /\ PasswordSuccess(lock).until = lock.until /\ PasswordFailure(lock).until = lock.until
           /\ PasswordSuccess(lock).secret = lock.secret
           /\ PasswordFailure(lock).secret = lock.secret
<1>1. now \in Nat /\ lock.failures \in Nat
  BY DEF Inv, TypeOK, Lock
<1> DEFINE failures == AtMost(lock.failures + 1, 64)
           wait     == RetryDelay[AtMost(failures, 6)]
<1>2. failures \in Nat /\ AtMost(failures, 6) \in 1 .. 6
  BY <1>1 DEF AtMost
<1>3. wait \in Nat
  BY <1>2 DEF RetryDelay
<1>4. now + wait \in Nat
  BY <1>1, <1>3
<1>5. PasswordFailure(lock) = [lock EXCEPT !.failures = failures, !.retry_after = now + wait]
  BY DEF PasswordFailure
<1> HIDE DEF failures, wait
<1>6. QED BY <1>2, <1>4, <1>5 DEF PasswordSuccess, Lock

LEMMA CompletePasswordStep ==
    ASSUME Inv, NEW u \in Uids, NEW r \in RuleIds, NEW c \in ChallengeIds,
           NEW secret \in Secrets, CompletePassword(u, r, c, secret)
    PROVE  Inv' /\ LockStep
<1> DEFINE correct == secret = locks[r].secret
           lock    == IF correct THEN PasswordSuccess(locks[r]) ELSE PasswordFailure(locks[r])
           l       == WithKey(locks, r, lock)
           done    == IF correct THEN Granted(u, r) ELSE LiveGrants
<1>1. PICK out \in SaveOutcomes :
        /\ Save(u, policy, l, done, LiveGrants, out)
        /\ challenges' = IF out = "crash" THEN Nothing ELSE Without(LiveChallenges, {c})
  BY DEF CompletePassword
<1>2. r \in DOMAIN locks /\ IsPartial(locks, RuleIds, Lock) /\ IsPolicy(policy)
  BY DEF CompletePassword, Answers, EffectivelyLocked, Inv, TypeOK
<1>3. locks[r] \in Lock
  BY <1>2 DEF IsPartial
<1>4. lock \in Lock /\ ~Relaxes(locks, l, r) /\ l[r] = lock
  BY <1>2, <1>3, VerifiedLock DEF Relaxes, WithKey, Lock
<1>5. \A x \in DOMAIN locks : x # r => x \in DOMAIN l /\ l[x] = locks[x]
  BY DEF WithKey
<1>6. IsPartial(l, RuleIds, Lock)
  BY <1>2, <1>4, WithKeyPartial
<1>7. IsPartial(LiveGrants, Uids \X RuleIds, Nat) /\ IsPartial(done, Uids \X RuleIds, Nat)
  BY LivePartial, AddGrantPartial DEF Inv
<1>8. IsPartial(challenges', ChallengeIds, Challenge)
  BY <1>1, LivePartial, WithoutPartial, NothingPartial DEF Inv
<1> HIDE DEF l, lock, done
<1>9. RestOK' /\ byRoot' = (u = Root) /\ SavedAs(policy, l)
  BY <1>1, <1>2, <1>6, <1>7, SaveKeepsInv, SaveSaves
<1>10. Inv'
  BY <1>8, <1>9 DEF RestOK, Inv, TypeOK
<1>11. \A x \in RuleIds : Locked(x) => ~Relaxes(locks, l, x)
  BY <1>4, <1>5, LockedHasLock, SameLockRelaxesNothing
<1>12. QED BY <1>9, <1>10, <1>11, SaveRespectsLocks

LEMMA EnvironmentStep ==
    ASSUME Inv, Environment
    PROVE  Inv' /\ LockStep
<1>1. /\ IsPartial(challenges, ChallengeIds, Challenge)
      /\ IsPartial(grants, Uids \X RuleIds, Nat)
      /\ healthy \in BOOLEAN /\ trusted \in BOOLEAN /\ now \in Nat /\ up \in BOOLEAN
  BY DEF Inv, TypeOK
<1>2. CASE ServiceTick
  BY <1>1, <1>2, LivePartial, UntouchedStep DEF ServiceTick, Untouched, Inv, clockVars
<1>3. CASE Advance
  <2>1. /\ now' = now + 1 /\ byRoot' = FALSE /\ raised' = FALSE
        /\ UNCHANGED stateVars /\ UNCHANGED authVars /\ UNCHANGED <<healthy, trusted, up>>
    BY <1>3, Zenon DEF Advance
  <2>2. now' \in Nat
    <3>1. now \in Nat
      BY <1>1
    <3>2. QED BY <2>1, <3>1
  <2>3. challenges' = challenges /\ grants' = grants
    BY <2>1 DEF authVars
  <2>4. Untouched
    BY <1>1, <2>1, <2>2, <2>3 DEF Untouched
  <2>5. QED BY <2>4, UntouchedStep
<1>4. CASE LoseTrust
  BY <1>1, <1>4, UntouchedStep DEF LoseTrust, Untouched, authVars
<1>5. CASE EnforcementFails
  BY <1>1, <1>5, UntouchedStep DEF EnforcementFails, Untouched, authVars, clockVars
<1>6. CASE Crash
  BY <1>1, <1>6, NothingPartial, UntouchedStep DEF Crash, Untouched, clockVars
<1>7. CASE Restart
  <2>1. /\ ~up /\ disk' = disk /\ policy' = disk.policy /\ locks' = disk.locks
        /\ UNCHANGED <<challenges, grants, now>>
        /\ up' = TRUE /\ healthy' = TRUE /\ trusted' \in BOOLEAN /\ byRoot' = FALSE
        /\ raised' = FALSE
    BY <1>7 DEF Restart, authVars
  <2>2. TypeOK'
    BY <1>1, <2>1 DEF Inv, TypeOK, IsPolicy
  <2>3. Loadable'
    BY <2>1 DEF Inv, Loadable, Storable
  <2>4. LockStep
    BY <2>1, QuietRelaxesNothing DEF LockStep, Quiet
  <2>5. QED BY <2>2, <2>3, <2>4 DEF Inv
<1>8. QED BY <1>2, <1>3, <1>4, <1>5, <1>6, <1>7 DEF Environment

LEMMA ClearClockLatchStep ==
    ASSUME Inv, NEW u \in Uids, ClearClockLatch(u)
    PROVE  Inv' /\ LockStep
<1>1. Untouched
  BY LivePartial DEF ClearClockLatch, Untouched, Inv, TypeOK
<1>2. QED BY <1>1, UntouchedStep

-----------------------------------------------------------------------------
(* The theorems. *)

LEMMA InvInit == Init => Inv
<1> SUFFICES ASSUME Init PROVE Inv
  OBVIOUS
<1>1. TypeOK
  BY NothingPartial DEF Init, TypeOK, IsPolicy
<1>2. Loadable
  BY DEF Init, Loadable, Storable, Nothing
<1>3. QED BY <1>1, <1>2 DEF Inv

LEMMA NextStep == ASSUME Inv, Next PROVE Inv' /\ LockStep
<1>1. CASE Environment
  BY <1>1, EnvironmentStep
<1>2. ASSUME NEW u \in Uids, PolicyCommand(u)
      PROVE  Inv' /\ LockStep
  BY <1>2, PutRuleStep, SetEnabledStep, DeleteRuleStep, StartFocusStep,
     CommitNativeImportStep, ReplaceRulesStep, CommitListImportStep, DeleteManagedListStep
     DEF PolicyCommand
<1>3. ASSUME NEW u \in Uids, LockCommand(u)
      PROVE  Inv' /\ LockStep
  BY <1>3, SetRuleLockStep, RemoveRuleLockStep, BeginRuleAuthorizationStep,
     CompleteAuthorizationStep, CompletePasswordStep
     DEF LockCommand
<1>4. ASSUME NEW u \in Uids, ClearClockLatch(u)
      PROVE  Inv' /\ LockStep
  BY <1>4, ClearClockLatchStep
<1>5. QED BY <1>1, <1>2, <1>3, <1>4 DEF Next, Command

\* The inductive invariant: types, and a file and a memory that start() would
\* accept, in every reachable state.
THEOREM InvHolds == Spec => []Inv
<1>1. Inv /\ [Next]_vars => Inv'
  <2> SUFFICES ASSUME Inv, [Next]_vars PROVE Inv'
    OBVIOUS
  <2>1. CASE Next
    BY <2>1, NextStep
  <2>2. CASE UNCHANGED vars
    BY <2>2 DEF vars, Inv, TypeOK, IsPolicy, Loadable, Storable
  <2>3. QED BY <2>1, <2>2
<1>2. QED BY InvInit, <1>1, PTL DEF Spec

\* Every variable keeps its type.
THEOREM TypeCorrect == Spec => []TypeOK
<1>1. Inv => TypeOK
  BY DEF Inv
<1>2. QED BY <1>1, InvHolds, PTL

\* An effective lock is removed, replaced or relaxed by root or under a grant
\* only, and a timed or schedule lock by root only, in memory and in the file,
\* whatever commands, crashes, restarts and failures of a save come in between,
\* also those that leave the file ahead of the memory.
THEOREM LocksHoldAlways == Spec => LocksHold
<1>1. Inv /\ [Next]_vars => [LockStep]_vars
  BY NextStep
<1>2. QED BY <1>1, InvHolds, PTL DEF Spec, LocksHold, LockStep

-----------------------------------------------------------------------------
(* Rules.                                                                    *)

\* The step claims of ActiveRulesKeepTargets, RulesHold and
\* OneChangePerAuthorization.
ActiveStep ==
    up => \A r \in DOMAIN policy.rules, after \in After :
        LET old == policy.rules[r]
            new == after.policy.rules[r]
        IN  RuleActive(r) =>
               /\ r \in DOMAIN after.policy.rules
               /\ old.targets \subseteq new.targets
               /\ Resolve(old.targets, policy.lists)
                    \subseteq Resolve(new.targets, after.policy.lists)
               /\ old.schedule.kind = new.schedule.kind
               /\ old.schedule.kind = "one_time"
                    => old.schedule.times \subseteq new.schedule.times

CoverageStep == \A r \in RuleIds : Locked(r) /\ ~RootStep /\ CoverageLost(r) => Opened(r)

OneChangeStep ==
    \A r \in RuleIds :
        Locked(r) /\ ~RootStep /\ (CoverageLost(r) \/ LockRelaxed(r))
            => \E u \in Users : HasGrant(u, r) /\ (raised' \/ <<u, r>> \notin DOMAIN grants')

\* Exclusions of a rule are not among what WeakenedChange looks at.
NoExclusions == \A v \in RuleValues : v.excluded = {}
ExcludesNothing(p) == \A r \in DOMAIN p.rules : p.rules[r].excluded = {}
NothingExcluded == ExcludesNothing(policy) /\ ExcludesNothing(disk.policy)

\* The lists a rule uses keep their domains.
ListsKept(rule, old, new) ==
    \A l \in (rule.targets \cup rule.system_targets) \cap DOMAIN old :
        l \in DOMAIN new /\ old[l] \subseteq new[l]

\* What a command that leads to the policy p, and uses the grants of the rules
\* `used', grants each rule: who weakens it is not refused and uses its grant,
\* and an active one is not weakened in what binds root.
Guarded(u, p, used, r) ==
    /\ \/ r \in used /\ ~LockRefused(u, {r})
       \/ /\ r \in DOMAIN p.rules /\ ~WeakenedChange(policy.rules[r], p.rules[r])
          /\ ListsKept(policy.rules[r], policy.lists, p.lists)
    /\ \/ ~RuleActive(r)
       \/ /\ r \in DOMAIN p.rules /\ ~WeakenedActiveChange(policy.rules[r], p.rules[r])
          /\ ListsKept(policy.rules[r], policy.lists, p.lists)

LEMMA ResolveGrows ==
    ASSUME NEW t, NEW t2, t \subseteq t2, NEW lists, NEW lists2,
           \A l \in t \cap DOMAIN lists : l \in DOMAIN lists2 /\ lists[l] \subseteq lists2[l]
    PROVE  Resolve(t, lists) \subseteq Resolve(t2, lists2)
<1> SUFFICES ASSUME NEW d \in Resolve(t, lists) PROVE d \in Resolve(t2, lists2)
  OBVIOUS
<1>1. CASE d \in t \cap Domains
  BY <1>1 DEF Resolve
<1>2. ASSUME NEW l \in t \cap DOMAIN lists, d \in lists[l]
      PROVE  d \in Resolve(t2, lists2)
  <2>1. l \in t2 \cap DOMAIN lists2 /\ d \in lists2[l]
    BY <1>2
  <2>2. QED BY <2>1 DEF Resolve
<1>3. QED BY <1>1, <1>2 DEF Resolve

\* A change that is no weakening blocks no less, if it excludes nothing.
LEMMA UnweakenedBlocks ==
    ASSUME NEW old \in Rule, NEW new \in Rule, NEW lists, NEW lists2,
           old.enabled, ~WeakenedChange(old, new), old.excluded = {}, new.excluded = {},
           ListsKept(old, lists, lists2)
    PROVE  ~BlocksLess(old, lists, new, lists2)
<1>1. /\ new.enabled /\ old.targets \subseteq new.targets
      /\ old.schedule = new.schedule /\ new.exceptions \subseteq old.exceptions
      /\ old.system_blocking => new.system_blocking
      /\ old.system_blocking => old.system_targets \subseteq new.system_targets
      /\ ~WeakenedAllowance(old, new)
  BY DEF WeakenedChange
<1>2. Browser(old, lists) \subseteq Browser(new, lists2)
  <2>1. old.targets \ Domains \subseteq new.targets \ Domains
    BY <1>1
  <2>2. Resolve(old.targets \ Domains, lists) \subseteq Resolve(new.targets \ Domains, lists2)
    BY <2>1, ResolveGrows DEF ListsKept
  <2>3. QED BY <1>1, <2>2 DEF Browser
<1>3. System(old, lists) \subseteq System(new, lists2)
  <2>1. CASE old.system_blocking
    <3>1. old.system_targets \subseteq new.system_targets /\ new.system_blocking
      BY <1>1, <2>1
    <3>2. Resolve(old.system_targets, lists) \subseteq Resolve(new.system_targets, lists2)
      BY <3>1, ResolveGrows DEF ListsKept
    <3>3. QED BY <2>1, <3>1, <3>2 DEF System
  <2>2. CASE ~old.system_blocking
    BY <2>2 DEF System
  <2>3. QED BY <2>1, <2>2
<1>4. ~(new.time_allowance > old.time_allowance)
  BY <1>1 DEF WeakenedAllowance, NoAllowance, Rule
<1>5. QED BY <1>1, <1>2, <1>3, <1>4 DEF BlocksLess

LEMMA SameRuleIsUnweakened ==
    ASSUME NEW rule
    PROVE  ~WeakenedChange(rule, rule) /\ ~WeakenedActiveChange(rule, rule)
BY DEF WeakenedChange, WeakenedActiveChange, WeakenedAllowance

LEMMA RulesAreRules ==
    ASSUME Inv
    PROVE  \A r \in DOMAIN policy.rules : policy.rules[r] \in Rule
BY DEF Inv, TypeOK, IsPolicy, IsPartial

\* What the state `new' takes from rule r or its lock.
Loses(new, r) ==
    \/ /\ policy.rules[r].enabled
       /\ \/ r \notin DOMAIN new.policy.rules
          \/ BlocksLess(policy.rules[r], policy.lists, new.policy.rules[r], new.policy.lists)
    \/ Relaxes(locks, new.locks, r)

LEMMA LostAfter ==
    ASSUME NEW r, CoverageLost(r) \/ LockRelaxed(r)
    PROVE  \E new \in After : Loses(new, r)
BY DEF CoverageLost, LockRelaxed, Loses

LEMMA CurrentLosesNothing ==
    ASSUME Inv, NEW r, Locked(r)
    PROVE  ~Loses(Current, r)
<1> DEFINE rule == policy.rules[r]
<1>1. r \in DOMAIN policy.rules /\ rule \in Rule /\ ~Relaxes(locks, locks, r)
  BY LockedHasLock, SameLockRelaxesNothing, RulesAreRules DEF Locked
<1>2. rule.time_allowance \in Nat
  BY <1>1 DEF Rule
<1> HIDE DEF rule
<1>3. rule.enabled => ~BlocksLess(rule, policy.lists, rule, policy.lists)
  BY <1>2 DEF BlocksLess
<1>4. QED BY <1>1, <1>3 DEF Loses, Current, rule

\* A step is as sound in what it leaves as the invariant says.
LEMMA AfterIsSound ==
    ASSUME Inv', NEW new \in After
    PROVE  IsPolicy(new.policy) /\ (NothingExcluded' => ExcludesNothing(new.policy))
<1>1. CASE new = [policy |-> policy', locks |-> locks']
  BY <1>1 DEF Inv, TypeOK, NothingExcluded, IsPolicy, ExcludesNothing
<1>2. CASE new = disk'
  BY <1>2 DEF Inv, TypeOK, NothingExcluded, IsPolicy, ExcludesNothing
<1>3. QED BY <1>1, <1>2 DEF After

LEMMA QuietRules ==
    ASSUME Inv, Quiet
    PROVE  ActiveStep /\ CoverageStep /\ OneChangeStep /\ (NothingExcluded => NothingExcluded')
<1>1. ActiveStep
  BY QuietAfter DEF ActiveStep, Current
<1>2. ASSUME NEW r \in RuleIds, Locked(r), CoverageLost(r) \/ LockRelaxed(r)
      PROVE  FALSE
  BY <1>2, LockedHasLock, QuietAfter, LostAfter, CurrentLosesNothing
<1>3. NothingExcluded => NothingExcluded'
  BY DEF Quiet, stateVars, NothingExcluded, ExcludesNothing
<1>4. QED BY <1>1, <1>2, <1>3 DEF CoverageStep, OneChangeStep

\* The locks a command leaves: it relaxes those whose grant it uses, if any.
LockGuarded(u, l, used, r) ==
    EffectivelyLocked(u, r) /\ Relaxes(locks, l, r) => r \in used /\ ~LockRefused(u, {r})

\* What a guarded save of a user takes from a locked rule, he was authorized to
\* by a grant among those it uses.
LEMMA GuardedChange ==
    ASSUME Inv, NEW u \in Users, NEW new, IsPolicy(new.policy),
           ExcludesNothing(policy), ExcludesNothing(new.policy), NEW used, NEW r \in RuleIds,
           Guarded(u, new.policy, used, r), LockGuarded(u, new.locks, used, r),
           Locked(r), Loses(new, r)
    PROVE  r \in used /\ Opened(r) /\ HasGrant(u, r)
<1> DEFINE p == new.policy
<1>1. EffectivelyLocked(u, r) /\ r \in DOMAIN policy.rules
  BY UnrefusedIsOpened
<1>2. r \in used /\ ~LockRefused(u, {r})
  <2>1. CASE Relaxes(locks, new.locks, r)
    BY <1>1, <2>1 DEF LockGuarded
  <2>2. CASE /\ r \in DOMAIN p.rules /\ ~WeakenedChange(policy.rules[r], p.rules[r])
             /\ ListsKept(policy.rules[r], policy.lists, p.lists)
    <3>1. policy.rules[r] \in Rule /\ policy.rules[r].excluded = {}
      BY <1>1, RulesAreRules DEF ExcludesNothing
    <3>2. p.rules[r] \in Rule
      BY <2>2 DEF IsPolicy, IsPartial
    <3>3. p.rules[r].excluded = {}
      BY <2>2 DEF ExcludesNothing
    <3>4. policy.rules[r].enabled
              => ~BlocksLess(policy.rules[r], policy.lists, p.rules[r], p.lists)
      BY <2>2, <3>1, <3>2, <3>3, UnweakenedBlocks
    <3>5. QED BY <2>1, <2>2, <3>4 DEF Loses
  <2>3. QED BY <2>1, <2>2 DEF Guarded
<1>3. QED BY <1>2, UnrefusedIsOpened

\* A command that leads to p keeps what is active.
LEMMA GuardedKeepsActive ==
    ASSUME NEW u, NEW p, NEW l, NEW used, SavedAs(p, l),
           \A r \in DOMAIN policy.rules : Guarded(u, p, used, r)
    PROVE  ActiveStep
<1> SUFFICES ASSUME NEW r \in DOMAIN policy.rules, NEW after \in After, RuleActive(r)
             PROVE  LET old == policy.rules[r]
                        new == after.policy.rules[r]
                    IN  /\ r \in DOMAIN after.policy.rules
                        /\ old.targets \subseteq new.targets
                        /\ Resolve(old.targets, policy.lists)
                             \subseteq Resolve(new.targets, after.policy.lists)
                        /\ old.schedule.kind = new.schedule.kind
                        /\ old.schedule.kind = "one_time"
                             => old.schedule.times \subseteq new.schedule.times
  BY DEF ActiveStep
<1>1. CASE after = Current
  BY <1>1 DEF Current
<1>2. CASE after.policy = p
  <2>1. /\ r \in DOMAIN p.rules /\ ~WeakenedActiveChange(policy.rules[r], p.rules[r])
        /\ ListsKept(policy.rules[r], policy.lists, p.lists)
    BY DEF Guarded
  <2>2. IsActive(policy.rules[r], now, trusted)
    BY DEF RuleActive
  <2>3. /\ policy.rules[r].targets \subseteq p.rules[r].targets
        /\ policy.rules[r].schedule.kind = p.rules[r].schedule.kind
        /\ policy.rules[r].schedule.kind = "one_time"
             => policy.rules[r].schedule.times \subseteq p.rules[r].schedule.times
    BY <2>1, <2>2 DEF WeakenedActiveChange
  <2>4. Resolve(policy.rules[r].targets, policy.lists) \subseteq Resolve(p.rules[r].targets, p.lists)
    BY <2>1, <2>3, ResolveGrows DEF ListsKept
  <2>5. QED BY <1>2, <2>1, <2>3, <2>4
<1>3. QED BY <1>1, <1>2, AfterSave

\* What NextStep says of rules.
RulesStep ==
    /\ ActiveStep
    /\ NoExclusions /\ NothingExcluded => NothingExcluded' /\ CoverageStep /\ OneChangeStep

\* A save that guards every rule and every lock, adds no exclusion, and takes the
\* grants it used if it changes something and is not answered with an error.
LEMMA GuardedSave ==
    ASSUME Inv, Inv', NEW u \in Uids, NEW p, NEW l, NEW used, SavedAs(p, l),
           byRoot' = (u = Root),
           \A r \in DOMAIN policy.rules : Guarded(u, p, used, r),
           \A r \in DOMAIN locks : LockGuarded(u, l, used, r),
           NoExclusions /\ ExcludesNothing(policy) => ExcludesNothing(p),
           \A new \in After, r \in used :
               new # Current => raised' \/ <<u, r>> \notin DOMAIN grants'
    PROVE  RulesStep
<1>1. NoExclusions /\ NothingExcluded => NothingExcluded'
  BY DEF NothingExcluded, SavedAs, ExcludesNothing
<1>2. ASSUME NothingExcluded, NothingExcluded', NEW r \in RuleIds, Locked(r), ~RootStep,
             CoverageLost(r) \/ LockRelaxed(r)
      PROVE  /\ u \in Users /\ Opened(r) /\ HasGrant(u, r)
             /\ raised' \/ <<u, r>> \notin DOMAIN grants'
  <2>1. u \in Users
    BY <1>2 DEF RootStep, Uids
  <2>2. PICK new \in After : Loses(new, r)
    BY <1>2, LostAfter
  <2>3. new # Current
    BY <1>2, <2>2, CurrentLosesNothing
  <2>4. new.policy = p /\ new.locks = l
    BY <2>3, AfterSave
  <2>5. IsPolicy(new.policy) /\ ExcludesNothing(policy) /\ ExcludesNothing(new.policy)
    BY <1>2, AfterIsSound DEF NothingExcluded
  <2>6. r \in DOMAIN policy.rules /\ r \in DOMAIN locks
    BY <1>2 DEF Locked
  <2>7. r \in used /\ Opened(r) /\ HasGrant(u, r)
    BY <1>2, <2>1, <2>2, <2>4, <2>5, <2>6, GuardedChange
  <2>8. QED BY <2>1, <2>3, <2>7
<1>3. ActiveStep
  BY GuardedKeepsActive
<1>4. QED BY <1>1, <1>2, <1>3 DEF RulesStep, CoverageStep, OneChangeStep

\* The grants a command used are gone when it has changed something, unless it
\* was answered with an error; a process that died has none left.
LEMMA UsedGrantsGo ==
    ASSUME NEW u, NEW p, NEW l, NEW used, SaveAndBurn(p, l, u, used), ~raised',
           NEW new \in After, new # Current, NEW r \in used
    PROVE  <<u, r>> \notin DOMAIN grants'
<1>1. PICK out \in SaveOutcomes :
          Save(u, p, l, Without(LiveGrants, {u} \X used), LiveGrants, out)
  BY DEF SaveAndBurn
<1>2. out \notin {"torn", "unenforced"}
  BY <1>1 DEF Save
<1>3. out # "unsaved"
  BY <1>1 DEF Save, After, Current
<1>4. grants' = Without(LiveGrants, {u} \X used) \/ grants' = Nothing
  BY <1>1, <1>2, <1>3 DEF Save, SaveOutcomes
<1>5. <<u, r>> \in {u} \X used
  OBVIOUS
<1>6. QED BY <1>4, <1>5 DEF Without, Restrict, Nothing

\* A saved command that guards every rule and every lock and adds no exclusion.
LEMMA GuardedCommand ==
    ASSUME Inv, Inv', NEW u \in Uids, NEW p, NEW l, NEW used, SaveAndBurn(p, l, u, used),
           \A r \in DOMAIN policy.rules : Guarded(u, p, used, r),
           \A r \in DOMAIN locks : LockGuarded(u, l, used, r),
           NoExclusions /\ ExcludesNothing(policy) => ExcludesNothing(p)
    PROVE  RulesStep
<1>1. SavedAs(p, l) /\ byRoot' = (u = Root)
  BY SaveSaves DEF SaveAndBurn
<1>2. \A new \in After, r \in used : new # Current => raised' \/ <<u, r>> \notin DOMAIN grants'
  BY UsedGrantsGo
<1>3. QED BY <1>1, <1>2, GuardedSave

\* Locks that a command leaves in place.
LEMMA SameLocksGuarded ==
    ASSUME Inv, NEW u, NEW used
    PROVE  \A r \in DOMAIN locks : LockGuarded(u, locks, used, r)
BY SameLockRelaxesNothing DEF LockGuarded

LEMMA SameListsKept == \A rule, lists : ListsKept(rule, lists, lists)
BY DEF ListsKept

LEMMA KeptIsGuarded ==
    ASSUME NEW u, NEW p, NEW used, NEW r, r \in DOMAIN p.rules, p.rules[r] = policy.rules[r],
           ListsKept(policy.rules[r], policy.lists, p.lists)
    PROVE  Guarded(u, p, used, r)
BY SameRuleIsUnweakened DEF Guarded

LEMMA RefusedAlone ==
    ASSUME NEW u, NEW rs, ~LockRefused(u, rs), NEW r \in rs
    PROVE  ~LockRefused(u, {r})
BY DEF LockRefused

LEMMA SetRulesIs ==
    ASSUME Inv, NEW rules
    PROVE  SetRules(rules).rules = rules /\ SetRules(rules).lists = policy.lists
BY DEF SetRules, Inv, TypeOK, IsPolicy

LEMMA PutRuleRules ==
    ASSUME Inv, Inv', NEW u \in Uids, NEW r \in RuleIds, NEW new \in RuleValues, PutRule(u, r, new)
    PROVE  RulesStep
<1> DEFINE rules == WithKey(policy.rules, r, new)
           p     == SetRules(rules)
           used  == IF r \in DOMAIN policy.rules /\ WeakenedChange(policy.rules[r], new)
                    THEN {r} ELSE {}
<1>1. SaveAndBurn(p, locks, u, used)
  BY DEF PutRule
<1>2. /\ p.rules = rules /\ p.lists = policy.lists /\ DOMAIN rules = DOMAIN policy.rules \cup {r}
      /\ rules[r] = new /\ \A x \in DOMAIN policy.rules : x # r => rules[x] = policy.rules[x]
  BY SetRulesIs DEF WithKey
<1>3. r \in DOMAIN policy.rules => /\ ~WeakenedActiveChange(policy.rules[r], new)
                                   /\ WeakenedChange(policy.rules[r], new) => ~LockRefused(u, {r})
  BY DEF PutRule
<1> HIDE DEF p, rules
<1>4. ASSUME NEW x \in DOMAIN policy.rules PROVE Guarded(u, p, used, x)
  <2>1. CASE x = r
    BY <1>2, <1>3, <2>1, SameListsKept DEF Guarded
  <2>2. CASE x # r
    BY <1>2, <2>2, SameListsKept, KeptIsGuarded
  <2>3. QED BY <2>1, <2>2
<1>5. NoExclusions /\ ExcludesNothing(policy) => ExcludesNothing(p)
  BY <1>2 DEF NoExclusions, ExcludesNothing
<1>6. QED BY <1>1, <1>4, <1>5, SameLocksGuarded, GuardedCommand

LEMMA SetEnabledRules ==
    ASSUME Inv, Inv', NEW u \in Uids, NEW r \in RuleIds, NEW enabled \in BOOLEAN,
           SetEnabled(u, r, enabled)
    PROVE  RulesStep
<1> DEFINE old   == policy.rules[r]
           new   == [old EXCEPT !.enabled = enabled]
           rules == WithKey(policy.rules, r, new)
           p     == SetRules(rules)
           used  == IF old.enabled /\ ~enabled THEN {r} ELSE {}
<1>1. r \in DOMAIN policy.rules /\ SaveAndBurn(p, locks, u, used)
  BY DEF SetEnabled
<1>2. /\ p.rules = rules /\ p.lists = policy.lists /\ DOMAIN rules = DOMAIN policy.rules \cup {r}
      /\ rules[r] = new /\ \A x \in DOMAIN policy.rules : x # r => rules[x] = policy.rules[x]
  BY SetRulesIs DEF WithKey
<1>3. ~WeakenedActiveChange(old, new) /\ (old.enabled /\ ~enabled => ~LockRefused(u, {r}))
  BY DEF SetEnabled
<1>4. /\ new.enabled = enabled /\ new.targets = old.targets /\ new.system_blocking = old.system_blocking
      /\ new.system_targets = old.system_targets /\ new.exceptions = old.exceptions
      /\ new.schedule = old.schedule /\ new.time_allowance = old.time_allowance
      /\ new.excluded = old.excluded
  <2>1. old \in Rule
    BY <1>1, RulesAreRules
  <2>2. QED BY <2>1 DEF Rule
<1>5. WeakenedChange(old, new) => old.enabled /\ ~enabled
  BY <1>4 DEF WeakenedChange, WeakenedAllowance
<1> HIDE DEF p, rules, new
<1>6. ASSUME NEW x \in DOMAIN policy.rules PROVE Guarded(u, p, used, x)
  <2>1. CASE x = r
    BY <1>2, <1>3, <1>5, <2>1, SameListsKept DEF Guarded
  <2>2. CASE x # r
    BY <1>2, <2>2, SameListsKept, KeptIsGuarded
  <2>3. QED BY <2>1, <2>2
<1>7. NoExclusions /\ ExcludesNothing(policy) => ExcludesNothing(p)
  BY <1>1, <1>2, <1>4 DEF ExcludesNothing
<1>8. QED BY <1>1, <1>6, <1>7, SameLocksGuarded, GuardedCommand

LEMMA DeleteRuleRules ==
    ASSUME Inv, Inv', NEW u \in Uids, NEW r \in RuleIds, DeleteRule(u, r)
    PROVE  RulesStep
<1> DEFINE rules == Without(policy.rules, {r})
           p     == SetRules(rules)
           l     == Without(locks, {r})
<1>1. ~RuleActive(r) /\ ~LockRefused(u, {r}) /\ SaveAndBurn(p, l, u, {r})
  BY DEF DeleteRule
<1>2. /\ p.rules = rules /\ p.lists = policy.lists /\ DOMAIN rules = DOMAIN policy.rules \ {r}
      /\ \A x \in DOMAIN rules : rules[x] = policy.rules[x]
  BY SetRulesIs DEF Without, Restrict
<1>6. ASSUME NEW x \in DOMAIN locks PROVE LockGuarded(u, l, {r}, x)
  <2>1. x # r => x \in DOMAIN l /\ l[x] = locks[x]
    BY DEF Without, Restrict
  <2> HIDE DEF l
  <2>2. QED BY <1>1, <2>1, SameLockRelaxesNothing DEF LockGuarded
<1> HIDE DEF p, rules, l
<1>3. ASSUME NEW x \in DOMAIN policy.rules PROVE Guarded(u, p, {r}, x)
  <2>1. CASE x = r
    BY <1>1, <2>1 DEF Guarded
  <2>2. CASE x # r
    BY <1>2, <2>2, SameListsKept, KeptIsGuarded
  <2>3. QED BY <2>1, <2>2
<1>4. NoExclusions /\ ExcludesNothing(policy) => ExcludesNothing(p)
  BY <1>2 DEF ExcludesNothing
<1>5. QED BY <1>1, <1>3, <1>4, <1>6, GuardedCommand

LEMMA StartFocusRules ==
    ASSUME Inv, Inv', NEW u \in Uids, NEW r \in RuleIds, NEW focus \in RuleIds,
           NEW minutes \in FocusTime, StartFocus(u, r, focus, minutes)
    PROVE  RulesStep
<1> DEFINE rule  == [enabled |-> TRUE, targets |-> policy.rules[r].targets,
                     system_blocking |-> FALSE, system_targets |-> {},
                     exceptions |-> {}, excluded |-> {},
                     schedule |-> [kind |-> "one_time", times |-> now .. (now + minutes - 1)],
                     time_allowance |-> NoAllowance]
           rules == WithKey(policy.rules, focus, rule)
           p     == SetRules(rules)
<1>1. focus \notin DOMAIN policy.rules /\ SaveAndBurn(p, locks, u, {})
  BY DEF StartFocus
<1>2. /\ p.rules = rules /\ p.lists = policy.lists
      /\ DOMAIN rules = DOMAIN policy.rules \cup {focus} /\ rules[focus].excluded = {}
      /\ \A x \in DOMAIN policy.rules : x # focus => rules[x] = policy.rules[x]
  BY SetRulesIs DEF WithKey
<1> HIDE DEF p, rules
<1>3. \A x \in DOMAIN policy.rules : Guarded(u, p, {}, x)
  BY <1>1, <1>2, SameListsKept, KeptIsGuarded
<1>4. NoExclusions /\ ExcludesNothing(policy) => ExcludesNothing(p)
  BY <1>2 DEF ExcludesNothing
<1>5. QED BY <1>1, <1>3, <1>4, SameLocksGuarded, GuardedCommand

\* Both imports that replace the rules.
LEMMA ReplacementGuards ==
    ASSUME NEW u, NEW new, ~ReplacementRefused(u, new), NEW r \in DOMAIN policy.rules
    PROVE  Guarded(u, new, ReplacementGrants(new), r)
<1>1. ~LockRefused(u, WeakenedRules(new) \cup RulesOfReducedLists(new))
  BY DEF ReplacementRefused
<1>2. r \in WeakenedRules(new) \cup RulesOfReducedLists(new) => ~LockRefused(u, {r})
  BY <1>1, RefusedAlone
<1>3. r \notin RulesOfReducedLists(new) => ListsKept(policy.rules[r], policy.lists, new.lists)
  <2> SUFFICES ASSUME r \notin RulesOfReducedLists(new),
                      NEW l \in (policy.rules[r].targets \cup policy.rules[r].system_targets)
                                    \cap DOMAIN policy.lists
               PROVE  l \in DOMAIN new.lists /\ policy.lists[l] \subseteq new.lists[l]
    BY DEF ListsKept
  <2>1. r \in ReferencingRules(l)
    BY DEF ReferencingRules, References
  <2>2. l \notin ReducedLists(policy.lists, new.lists)
    BY <2>1 DEF RulesOfReducedLists
  <2>3. QED BY <2>2 DEF ReducedLists
<1>4. r \notin WeakenedRules(new)
          => r \in DOMAIN new.rules /\ ~WeakenedChange(policy.rules[r], new.rules[r])
  BY DEF WeakenedRules
<1>5. RuleActive(r) => /\ r \in DOMAIN new.rules
                       /\ ~WeakenedActiveChange(policy.rules[r], new.rules[r])
                       /\ r \notin RulesOfReducedLists(new)
  BY DEF ReplacementRefused
<1>6. QED BY <1>2, <1>3, <1>4, <1>5 DEF Guarded, ReplacementGrants

\* They keep the locks of the rules that stay; a rule that goes is weakened.
LEMMA ReplacementLocksGuarded ==
    ASSUME Inv, NEW u, NEW new, ~ReplacementRefused(u, new), NEW l,
           \A r \in DOMAIN locks : r \in DOMAIN new.rules => r \in DOMAIN l /\ l[r] = locks[r]
    PROVE  \A r \in DOMAIN locks : LockGuarded(u, l, ReplacementGrants(new), r)
<1> SUFFICES ASSUME NEW r \in DOMAIN locks, Relaxes(locks, l, r)
             PROVE  r \in ReplacementGrants(new) /\ ~LockRefused(u, {r})
  BY DEF LockGuarded
<1>1. r \in DOMAIN policy.rules
  BY DEF Inv, Loadable, Storable
<1>2. r \notin DOMAIN new.rules
  BY SameLockRelaxesNothing
<1>3. /\ ~LockRefused(u, WeakenedRules(new) \cup RulesOfReducedLists(new))
      /\ r \in WeakenedRules(new)
  BY <1>1, <1>2, UnrefusedReplacement
<1>4. QED BY <1>3, RefusedAlone DEF ReplacementGrants

LEMMA CommitNativeImportRules ==
    ASSUME Inv, Inv', NEW u \in Uids, NEW rules \in Partial(RuleIds, RuleValues),
           NEW lists \in Partial(ListIds, SUBSET Domains),
           CommitNativeImport(u, [rules |-> rules, lists |-> lists])
    PROVE  RulesStep
<1> DEFINE new == [rules |-> rules, lists |-> lists]
           l   == Restrict(locks, DOMAIN locks \cap DOMAIN new.rules)
<1>1. ~ReplacementRefused(u, new) /\ SaveAndBurn(new, l, u, ReplacementGrants(new))
  BY DEF CommitNativeImport
<1>2. NoExclusions => ExcludesNothing(new)
  BY DEF NoExclusions, ExcludesNothing, Partial
<1>3. \A r \in DOMAIN locks : r \in DOMAIN new.rules => r \in DOMAIN l /\ l[r] = locks[r]
  BY DEF Restrict
<1> HIDE DEF new, l
<1>4. QED BY <1>1, <1>2, <1>3, ReplacementGuards, ReplacementLocksGuarded, GuardedCommand

LEMMA ReplaceRulesRules ==
    ASSUME Inv, Inv', NEW u \in Uids, NEW rules \in Partial(RuleIds, RuleValues),
           NEW newLocks \in Partial(RuleIds, ImportLocks), ReplaceRules(u, rules, newLocks)
    PROVE  RulesStep
<1> DEFINE new == SetRules(rules)
           l   == [r \in (DOMAIN locks \cap DOMAIN rules) \cup DOMAIN newLocks |->
                      IF r \in DOMAIN newLocks THEN newLocks[r] ELSE locks[r]]
<1>1. /\ ~ReplacementRefused(u, new) /\ SaveAndBurn(new, l, u, ReplacementGrants(new))
      /\ DOMAIN newLocks \cap DOMAIN policy.rules = {}
  BY DEF ReplaceRules
<1>2. NoExclusions => ExcludesNothing(new)
  BY SetRulesIs DEF NoExclusions, ExcludesNothing, Partial
<1>3. DOMAIN locks \subseteq DOMAIN policy.rules /\ new.rules = rules
  BY SetRulesIs DEF Inv, Loadable, Storable
<1>4. \A r \in DOMAIN locks : r \in DOMAIN rules => r \in DOMAIN l /\ l[r] = locks[r]
  BY <1>1, <1>3
<1> HIDE DEF new, l
<1>5. QED BY <1>1, <1>2, <1>3, <1>4, ReplacementGuards, ReplacementLocksGuarded, GuardedCommand

LEMMA CommitListImportRules ==
    ASSUME Inv, Inv', NEW u \in Uids, NEW l \in ListIds, NEW domains \in SUBSET Domains,
           CommitListImport(u, l, domains)
    PROVE  RulesStep
<1> DEFINE lists == WithKey(policy.lists, l, domains)
           new   == [policy EXCEPT !.lists = lists]
           users == IF l \in ReducedLists(policy.lists, new.lists)
                    THEN ReferencingRules(l) ELSE {}
<1>1. /\ \A r \in users : ~RuleActive(r)
      /\ ~LockRefused(u, users) /\ SaveAndBurn(new, locks, u, users)
  BY DEF CommitListImport
<1>2. new.rules = policy.rules /\ new.lists = lists
  BY DEF Inv, TypeOK, IsPolicy
<1>3. /\ DOMAIN lists = DOMAIN policy.lists \cup {l}
      /\ \A x \in DOMAIN policy.lists : x # l => lists[x] = policy.lists[x]
  BY DEF WithKey
<1>4. ASSUME NEW r \in DOMAIN policy.rules, r \notin users
      PROVE  ListsKept(policy.rules[r], policy.lists, new.lists)
  <2> SUFFICES ASSUME NEW x \in (policy.rules[r].targets \cup policy.rules[r].system_targets)
                                    \cap DOMAIN policy.lists
               PROVE  x \in DOMAIN lists /\ policy.lists[x] \subseteq lists[x]
    BY <1>2 DEF ListsKept
  <2>1. CASE x # l
    BY <1>3, <2>1
  <2>2. CASE x = l
    <3>1. r \in ReferencingRules(l)
      BY <2>2 DEF ReferencingRules, References
    <3>2. l \notin ReducedLists(policy.lists, lists)
      BY <1>2, <1>4, <3>1
    <3>3. QED BY <2>2, <3>2 DEF ReducedLists
  <2>3. QED BY <2>1, <2>2
<1> HIDE DEF lists, new, users
<1>5. ASSUME NEW r \in DOMAIN policy.rules PROVE Guarded(u, new, users, r)
  <2>1. CASE r \in users
    BY <1>1, <2>1, RefusedAlone DEF Guarded
  <2>2. CASE r \notin users
    BY <1>2, <1>4, <2>2, KeptIsGuarded
  <2>3. QED BY <2>1, <2>2
<1>6. ExcludesNothing(policy) => ExcludesNothing(new)
  BY <1>2 DEF ExcludesNothing
<1>7. QED BY <1>1, <1>5, <1>6, SameLocksGuarded, GuardedCommand

LEMMA DeleteManagedListRules ==
    ASSUME Inv, Inv', NEW u \in Uids, NEW l \in ListIds, DeleteManagedList(u, l)
    PROVE  RulesStep
<1> DEFINE lists == Without(policy.lists, {l})
           new   == [policy EXCEPT !.lists = lists]
<1>1. ReferencingRules(l) = {} /\ SaveAndBurn(new, locks, u, {})
  BY DEF DeleteManagedList
<1>2. new.rules = policy.rules /\ new.lists = lists
  BY DEF Inv, TypeOK, IsPolicy
<1>3. DOMAIN lists = DOMAIN policy.lists \ {l} /\ \A x \in DOMAIN lists : lists[x] = policy.lists[x]
  BY DEF Without, Restrict
<1> HIDE DEF lists, new
<1>4. ASSUME NEW r \in DOMAIN policy.rules PROVE Guarded(u, new, {}, r)
  <2>1. l \notin policy.rules[r].targets \cup policy.rules[r].system_targets
    BY <1>1 DEF ReferencingRules, References
  <2>2. ListsKept(policy.rules[r], policy.lists, new.lists)
    BY <1>2, <1>3, <2>1 DEF ListsKept
  <2>3. QED BY <1>2, <2>2, KeptIsGuarded
<1>5. ExcludesNothing(policy) => ExcludesNothing(new)
  BY <1>2 DEF ExcludesNothing
<1>6. QED BY <1>1, <1>4, <1>5, SameLocksGuarded, GuardedCommand

\* Commands about locks save the policy as it is.
LEMMA SamePolicyGuarded ==
    ASSUME NEW u, NEW used
    PROVE  \A r \in DOMAIN policy.rules : Guarded(u, policy, used, r)
BY SameListsKept, KeptIsGuarded

LEMMA SetRuleLockRules ==
    ASSUME Inv, Inv', NEW u \in Uids, NEW r \in DOMAIN policy.rules, NEW lock \in NewLocks(r),
           SetRuleLock(u, r, lock)
    PROVE  RulesStep
<1> DEFINE l    == WithKey(locks, r, lock)
           used == IF NeedsAuthorization(u, r, lock) THEN {r} ELSE {}
<1>1. /\ SaveAndBurn(policy, l, u, used)
      /\ NeedsAuthorization(u, r, lock) => r \in used /\ ~LockRefused(u, {r})
  BY DEF SetRuleLock
<1>2. l[r] = lock /\ \A x \in DOMAIN locks : x \in DOMAIN l /\ (x # r => l[x] = locks[x])
  BY DEF WithKey
<1> HIDE DEF l, used
<1>3. ASSUME NEW x \in DOMAIN locks, EffectivelyLocked(u, x), Relaxes(locks, l, x)
      PROVE  x \in used /\ ~LockRefused(u, {x})
  <2>1. x = r
    BY <1>2, <1>3, SameLockRelaxesNothing
  <2>2. locks[r] \in Lock /\ lock \in Lock
    BY <1>3, <2>1, NewLocksAreLocks DEF Inv, TypeOK, IsPartial
  <2>3. NeedsAuthorization(u, r, lock)
    BY <1>2, <1>3, <2>1, <2>2 DEF Relaxes, NeedsAuthorization, Lock
  <2>4. QED BY <1>1, <2>1, <2>3
<1>4. QED BY <1>1, <1>3, SamePolicyGuarded, GuardedCommand DEF LockGuarded

LEMMA RemoveRuleLockRules ==
    ASSUME Inv, Inv', NEW u \in Uids, NEW r \in RuleIds, RemoveRuleLock(u, r)
    PROVE  RulesStep
<1> DEFINE l    == Without(locks, {r})
           used == IF EffectivelyLocked(u, r) THEN {r} ELSE {}
<1>1. /\ SaveAndBurn(policy, l, u, used) /\ ~LockRefused(u, {r})
      /\ EffectivelyLocked(u, r) => r \in used
  BY DEF RemoveRuleLock
<1>2. \A x \in DOMAIN locks : x # r => x \in DOMAIN l /\ l[x] = locks[x]
  BY DEF Without, Restrict
<1> HIDE DEF l, used
<1>3. \A x \in DOMAIN locks : LockGuarded(u, l, used, x)
  BY <1>1, <1>2, SameLockRelaxesNothing DEF LockGuarded
<1>4. QED BY <1>1, <1>3, SamePolicyGuarded, GuardedCommand

\* An attempt at a password changes what it has failed, and no more.
LEMMA CompletePasswordRules ==
    ASSUME Inv, Inv', NEW u \in Uids, NEW r \in RuleIds, NEW c \in ChallengeIds,
           NEW secret \in Secrets, CompletePassword(u, r, c, secret)
    PROVE  RulesStep
<1> DEFINE lock == IF secret = locks[r].secret
                   THEN PasswordSuccess(locks[r]) ELSE PasswordFailure(locks[r])
           l    == WithKey(locks, r, lock)
<1>1. SavedAs(policy, l) /\ byRoot' = (u = Root) /\ r \in DOMAIN locks
  BY SaveSaves DEF CompletePassword, Answers, EffectivelyLocked
<1>2. l[r] = lock /\ \A x \in DOMAIN locks : x \in DOMAIN l /\ (x # r => l[x] = locks[x])
  BY DEF WithKey
<1>3. lock.kind = locks[r].kind /\ lock.until = locks[r].until /\ lock.secret = locks[r].secret
  BY <1>1 DEF PasswordSuccess, PasswordFailure, Inv, TypeOK, IsPartial, Lock
<1>4. \A x \in DOMAIN locks : ~Relaxes(locks, l, x)
  <2>1. locks[r] \in Lock
    BY <1>1 DEF Inv, TypeOK, IsPartial
  <2> HIDE DEF l, lock
  <2>2. ~Relaxes(locks, l, r)
    BY <1>1, <1>2, <1>3, <2>1 DEF Relaxes, Lock
  <2>3. QED BY <1>2, <2>2, SameLockRelaxesNothing
<1> HIDE DEF l, lock
<1>5. \A x \in DOMAIN locks : LockGuarded(u, l, {}, x)
  BY <1>4 DEF LockGuarded
<1>6. QED BY <1>1, <1>5, SamePolicyGuarded, GuardedSave

LEMMA LockCommandRules ==
    ASSUME Inv, Inv', NEW u \in Uids, LockCommand(u)
    PROVE  RulesStep
<1>1. CASE \E r \in RuleIds, c \in ChallengeIds : BeginRuleAuthorization(u, r, c)
  BY <1>1, QuietRules DEF BeginRuleAuthorization, Quiet, RulesStep
<1>2. CASE \E r \in RuleIds, c \in ChallengeIds, correct \in BOOLEAN :
              CompleteAuthorization(u, r, c, correct)
  BY <1>2, QuietRules DEF CompleteAuthorization, Quiet, RulesStep
<1>3. QED BY <1>1, <1>2, SetRuleLockRules, RemoveRuleLockRules, CompletePasswordRules DEF LockCommand

LEMMA QuietSteps ==
    ASSUME Environment \/ (\E u \in Uids : ClearClockLatch(u)) \/ UNCHANGED vars
    PROVE  Quiet
BY DEF Environment, ServiceTick, Advance, LoseTrust, EnforcementFails, Crash, Restart,
       ClearClockLatch, stateVars, vars, Quiet

LEMMA NextRules == ASSUME Inv, [Next]_vars PROVE RulesStep
<1>1. Inv'
  <2>1. CASE Next
    BY <2>1, NextStep
  <2>2. CASE UNCHANGED vars
    BY <2>2 DEF vars, Inv, TypeOK, IsPolicy, Loadable, Storable
  <2>3. QED BY <2>1, <2>2
<1>2. ASSUME Environment \/ (\E u \in Uids : ClearClockLatch(u)) \/ UNCHANGED vars
      PROVE  RulesStep
  <2>1. Quiet
    BY <1>2, QuietSteps
  <2>2. QED BY <2>1, QuietRules DEF RulesStep
<1>3. ASSUME NEW u \in Uids, PolicyCommand(u)
      PROVE  RulesStep
  BY <1>1, <1>3, PutRuleRules, SetEnabledRules, DeleteRuleRules, StartFocusRules,
     CommitNativeImportRules, ReplaceRulesRules, CommitListImportRules, DeleteManagedListRules
     DEF PolicyCommand
<1>4. QED BY <1>1, <1>2, <1>3, LockCommandRules DEF Next, Command

\* A rule that is active keeps its targets, its lists' domains and the kind of
\* its schedule, in memory and in the file, whoever edits, imports or restarts
\* and whatever save fails: _weakened_active_change and _validate_replacement
\* together leave no way around.
THEOREM ActiveRulesKeepTargetsAlways == Spec => ActiveRulesKeepTargets
<1>1. Inv /\ [Next]_vars => [ActiveStep]_vars
  BY NextRules DEF RulesStep
<1>2. QED BY <1>1, InvHolds, PTL DEF Spec, ActiveRulesKeepTargets, ActiveStep

\* As long as no rule excludes domains of its lists, a locked rule loses coverage
\* by root or under a grant only, whichever command takes it away.  (With
\* exclusions it does not hold: _weakened_change does not compare them.)
THEOREM RulesHoldWithoutExclusions == ASSUME NoExclusions PROVE Spec => RulesHold
<1>1. Init => NothingExcluded
  BY DEF Init, NothingExcluded, ExcludesNothing, Nothing
<1>2. Inv /\ NothingExcluded /\ [Next]_vars => NothingExcluded' /\ [CoverageStep]_vars
  BY NextRules DEF RulesStep
<1>3. QED BY <1>1, <1>2, InvHolds, PTL DEF Spec, RulesHold, CoverageStep

\* One authorization allows one change that succeeds: what a user takes from a
\* locked rule or its lock, by whichever command and with whatever failure of the
\* save, he had a grant for, and it is gone unless the command was answered with
\* an error.  No outcome is left out; exclusions are, as above.
THEOREM OneChangeWithoutExclusions ==
    ASSUME NoExclusions PROVE Spec => OneChangePerAuthorization
<1>1. Init => NothingExcluded
  BY DEF Init, NothingExcluded, ExcludesNothing, Nothing
<1>2. Inv /\ NothingExcluded /\ [Next]_vars => NothingExcluded' /\ [OneChangeStep]_vars
  BY NextRules DEF RulesStep
<1>3. QED BY <1>1, <1>2, InvHolds, PTL DEF Spec, OneChangePerAuthorization, OneChangeStep

-----------------------------------------------------------------------------
(* Grants and guesses. *)

\* The step claim of GrantsAreEarned.
GrantStep ==
    \A g \in DOMAIN grants' :
        (g \in DOMAIN grants => grants'[g] > grants[g])
            => \E c \in DOMAIN challenges \ DOMAIN challenges' :
                 /\ challenges[c].owner = g[1] /\ challenges[c].rule = g[2]
                 /\ challenges[c].expires > now
                 /\ locks[g[2]].kind = challenges[c].kind

LEMMA NoNewGrant ==
    ASSUME Inv, DOMAIN grants' \subseteq DOMAIN grants,
           \A g \in DOMAIN grants' : grants'[g] = grants[g]
    PROVE  GrantStep
<1>1. \A g \in DOMAIN grants : grants[g] \in Nat
  BY DEF Inv, TypeOK, IsPartial
<1>2. QED BY <1>1 DEF GrantStep

LEMMA LiveGrantsAreOld ==
    ASSUME Inv, NEW K, grants' \in {LiveGrants, Without(LiveGrants, K), Nothing}
    PROVE  GrantStep
<1>1. /\ DOMAIN LiveGrants \subseteq DOMAIN grants
      /\ \A g \in DOMAIN LiveGrants : LiveGrants[g] = grants[g]
  BY LivePartial DEF Inv
<1>2. /\ DOMAIN Without(LiveGrants, K) \subseteq DOMAIN LiveGrants
      /\ \A g \in DOMAIN Without(LiveGrants, K) : Without(LiveGrants, K)[g] = LiveGrants[g]
  BY DEF Without, Restrict
<1>3. DOMAIN Nothing = {}
  BY DEF Nothing
<1>4. QED BY <1>1, <1>2, <1>3, NoNewGrant

LEMMA SavesGrantNothing ==
    ASSUME Inv, NEW u, NEW p, NEW l, NEW used, SaveAndBurn(p, l, u, used)
    PROVE  GrantStep
<1>1. grants' \in {LiveGrants, Without(LiveGrants, {u} \X used), Nothing}
  BY DEF SaveAndBurn, Save
<1>2. QED BY <1>1, LiveGrantsAreOld

\* The one step that adds a grant uses up the challenge it answers.
LEMMA AnswerEarns ==
    ASSUME Inv, NEW u, NEW r, NEW c, Answers(u, r, c), grants' = Granted(u, r),
           c \notin DOMAIN challenges'
    PROVE  GrantStep
<1>1. /\ DOMAIN LiveGrants \subseteq DOMAIN grants
      /\ \A g \in DOMAIN LiveGrants : LiveGrants[g] = grants[g]
      /\ \A g \in DOMAIN grants : grants[g] \in Nat
      /\ DOMAIN LiveChallenges \subseteq DOMAIN challenges
  BY LivePartial DEF Inv, TypeOK, IsPartial
<1>2. /\ c \in DOMAIN challenges /\ challenges[c].owner = u /\ challenges[c].rule = r
      /\ challenges[c].expires > now /\ locks[r].kind = challenges[c].kind
  BY <1>1 DEF Answers, LiveChallenges, Restrict
<1>3. ASSUME NEW g \in DOMAIN grants', g \in DOMAIN grants => grants'[g] > grants[g]
      PROVE  g = <<u, r>>
  BY <1>1, <1>3 DEF Granted, WithKey
<1>4. QED BY <1>2, <1>3 DEF GrantStep

LEMMA NextGrants == ASSUME Inv, [Next]_vars PROVE GrantStep
<1>1. CASE Environment \/ (\E u \in Uids : ClearClockLatch(u)) \/ UNCHANGED vars
  <2>1. grants' \in {grants, LiveGrants, Nothing}
    BY <1>1 DEF Environment, ServiceTick, Advance, LoseTrust, EnforcementFails, Crash, Restart,
                ClearClockLatch, authVars, vars
  <2>2. CASE grants' = grants
    BY <2>2, NoNewGrant
  <2>3. QED BY <2>1, <2>2, LiveGrantsAreOld
<1>2. ASSUME NEW u \in Uids, PolicyCommand(u)
      PROVE  GrantStep
  BY <1>2, SavesGrantNothing
     DEF PolicyCommand, PutRule, SetEnabled, DeleteRule, StartFocus, CommitNativeImport,
         ReplaceRules, CommitListImport, DeleteManagedList
<1>3. ASSUME NEW u \in Uids, LockCommand(u)
      PROVE  GrantStep
  <2>1. CASE \/ \E r \in DOMAIN policy.rules : \E lock \in NewLocks(r) : SetRuleLock(u, r, lock)
             \/ \E r \in RuleIds : RemoveRuleLock(u, r)
    BY <2>1, SavesGrantNothing DEF SetRuleLock, RemoveRuleLock
  <2>2. CASE \E r \in RuleIds, c \in ChallengeIds : BeginRuleAuthorization(u, r, c)
    BY <2>2, LiveGrantsAreOld DEF BeginRuleAuthorization
  <2>3. ASSUME NEW r \in RuleIds, NEW c \in ChallengeIds, NEW correct \in BOOLEAN,
               CompleteAuthorization(u, r, c, correct)
        PROVE  GrantStep
    <3>1. c \notin DOMAIN challenges'
      BY <2>3 DEF CompleteAuthorization, Without, Restrict
    <3>2. \/ Answers(u, r, c) /\ grants' = Granted(u, r)
          \/ grants' = LiveGrants
      BY <2>3 DEF CompleteAuthorization
    <3>3. QED BY <3>1, <3>2, AnswerEarns, LiveGrantsAreOld
  <2>4. ASSUME NEW r \in RuleIds, NEW c \in ChallengeIds, NEW secret \in Secrets,
               CompletePassword(u, r, c, secret)
        PROVE  GrantStep
    <3>1. /\ Answers(u, r, c)
          /\ \/ challenges' = Nothing
             \/ challenges' = Without(LiveChallenges, {c})
      BY <2>4 DEF CompletePassword
    <3>2. c \notin DOMAIN challenges'
      BY <3>1 DEF Without, Restrict, Nothing
    <3>3. grants' \in {Granted(u, r), LiveGrants, Nothing}
      BY <2>4 DEF CompletePassword, Save
    <3>4. QED BY <3>1, <3>2, <3>3, AnswerEarns, LiveGrantsAreOld
  <2>5. QED BY <1>3, <2>1, <2>2, <2>3, <2>4 DEF LockCommand
<1>4. QED BY <1>1, <1>2, <1>3 DEF Next, Command

\* Who holds a grant has answered a challenge for that rule since, and for the
\* kind of lock it has: no save, crash, expiry or command on another rule leaves
\* one behind.
THEOREM GrantsAreEarnedAlways == Spec => GrantsAreEarned
<1>1. Inv /\ [Next]_vars => [GrantStep]_vars
  BY NextGrants
<1>2. QED BY <1>1, InvHolds, PTL DEF Spec, GrantsAreEarned, GrantStep

\* Imported locks come without attempts.
FreshImports == \A lock \in ImportLocks : lock.failures = 0

LEMMA SavedCosts ==
    ASSUME GuessesCostTime, NEW p, NEW l, SavedAs(p, l), Costs(locks) => Costs(l)
    PROVE  GuessesCostTime'
<1>1. Costs(locks')
  BY DEF SavedAs, GuessesCostTime
<1>2. Costs(disk'.locks)
  BY DEF SavedAs, GuessesCostTime
<1>3. QED BY <1>1, <1>2 DEF GuessesCostTime, Costs

LEMMA SaveCosts ==
    ASSUME GuessesCostTime, NEW u, NEW p, NEW l, NEW used, SaveAndBurn(p, l, u, used),
           Costs(locks) => Costs(l)
    PROVE  GuessesCostTime'
<1>1. SavedAs(p, l)
  BY SaveSaves DEF SaveAndBurn
<1>2. QED BY <1>1, SavedCosts

\* Each failure makes the wait twice as long, and comes after the last wait.
LEMMA FailureCosts ==
    ASSUME NEW lock \in Lock, now \in Nat, lock.retry_after <= now,
           lock.failures \in 1 .. 6 => lock.retry_after + 2 >= 2 * RetryDelay[lock.failures],
           PasswordFailure(lock).failures \in 1 .. 6
    PROVE  PasswordFailure(lock).retry_after + 2 >= 2 * RetryDelay[PasswordFailure(lock).failures]
<1> DEFINE f == lock.failures
<1>1. f \in Nat /\ lock.retry_after \in Nat
  BY DEF Lock
<1>2. /\ PasswordFailure(lock).failures = AtMost(f + 1, 64)
      /\ PasswordFailure(lock).retry_after = now + RetryDelay[AtMost(AtMost(f + 1, 64), 6)]
  BY DEF PasswordFailure, Lock
<1>3. f \in 0 .. 5 /\ AtMost(f + 1, 64) = f + 1 /\ AtMost(f + 1, 6) = f + 1
  BY <1>1, <1>2 DEF AtMost
<1>4. /\ RetryDelay[1] = 2 /\ RetryDelay[2] = 4 /\ RetryDelay[3] = 8
      /\ RetryDelay[4] = 16 /\ RetryDelay[5] = 32 /\ RetryDelay[6] = 64
  BY DEF RetryDelay
<1>5. now + RetryDelay[f + 1] + 2 >= 2 * RetryDelay[f + 1]
  <2>1. CASE f = 0
    BY <1>4, <2>1
  <2>2. CASE f = 1
    BY <1>1, <1>4, <2>2
  <2>3. CASE f = 2
    BY <1>1, <1>4, <2>3
  <2>4. CASE f = 3
    BY <1>1, <1>4, <2>4
  <2>5. CASE f = 4
    BY <1>1, <1>4, <2>5
  <2>6. CASE f = 5
    BY <1>1, <1>4, <2>6
  <2>7. QED BY <1>3, <2>1, <2>2, <2>3, <2>4, <2>5, <2>6
<1>6. QED BY <1>2, <1>3, <1>5

LEMMA CompletePasswordCosts ==
    ASSUME Inv, GuessesCostTime, NEW u \in Uids, NEW r \in RuleIds, NEW c \in ChallengeIds,
           NEW secret \in Secrets, CompletePassword(u, r, c, secret)
    PROVE  GuessesCostTime'
<1> DEFINE lock == IF secret = locks[r].secret
                   THEN PasswordSuccess(locks[r]) ELSE PasswordFailure(locks[r])
           l    == WithKey(locks, r, lock)
<1>1. /\ r \in DOMAIN locks /\ locks[r].retry_after <= now
      /\ locks[r].kind = "password" /\ SavedAs(policy, l)
  BY SaveSaves DEF CompletePassword, Answers, EffectivelyLocked, Verifies
<1>2. locks[r] \in Lock /\ now \in Nat
  BY <1>1 DEF Inv, TypeOK, IsPartial
<1>3. ASSUME Costs(locks), lock.failures \in 1 .. 6
      PROVE  lock.retry_after + 2 >= 2 * RetryDelay[lock.failures]
  <2>1. CASE secret = locks[r].secret
    BY <1>2, <1>3, <2>1 DEF PasswordSuccess, Lock
  <2>2. CASE secret # locks[r].secret
    <3>1. locks[r].failures \in 1 .. 6 => locks[r].retry_after + 2 >= 2 * RetryDelay[locks[r].failures]
      BY <1>1, <1>3 DEF Costs
    <3>2. QED BY <1>1, <1>2, <1>3, <2>2, <3>1, FailureCosts
  <2>3. QED BY <2>1, <2>2
<1> HIDE DEF lock
<1>4. Costs(locks) => Costs(l)
  BY <1>3 DEF Costs, WithKey
<1> HIDE DEF l
<1>5. QED BY <1>1, <1>4, SavedCosts

LEMMA NextCosts == ASSUME FreshImports, Inv, GuessesCostTime, [Next]_vars PROVE GuessesCostTime'
<1>1. CASE Environment \/ (\E u \in Uids : ClearClockLatch(u)) \/ UNCHANGED vars
  <2>1. Quiet
    BY <1>1, QuietSteps
  <2>2. QED BY <2>1 DEF Quiet, stateVars, GuessesCostTime, Costs
<1>2. ASSUME NEW D PROVE Costs(locks) => Costs(Restrict(locks, DOMAIN locks \cap D))
  BY DEF Costs, Restrict
<1>3. ASSUME NEW K PROVE Costs(locks) => Costs(Without(locks, K))
  BY DEF Costs, Without, Restrict
<1>4. ASSUME NEW u \in Uids, PolicyCommand(u)
      PROVE  GuessesCostTime'
  <2>1. ASSUME NEW rules, NEW newLocks \in Partial(RuleIds, ImportLocks), ReplaceRules(u, rules, newLocks)
        PROVE  GuessesCostTime'
    <3> DEFINE l == [r \in (DOMAIN locks \cap DOMAIN rules) \cup DOMAIN newLocks |->
                        IF r \in DOMAIN newLocks THEN newLocks[r] ELSE locks[r]]
    <3>1. SaveAndBurn(SetRules(rules), l, u, ReplacementGrants(SetRules(rules)))
      BY <2>1 DEF ReplaceRules
    <3>2. \A r \in DOMAIN newLocks : newLocks[r].failures = 0
      BY DEF FreshImports, Partial
    <3>3. Costs(locks) => Costs(l)
      BY <3>2 DEF Costs
    <3> HIDE DEF l
    <3>4. QED BY <3>1, <3>3, SaveCosts
  <2>2. ASSUME NEW p, NEW used, SaveAndBurn(p, locks, u, used)
        PROVE  GuessesCostTime'
    BY <2>2, SaveCosts
  <2>3. ASSUME NEW r, DeleteRule(u, r)
        PROVE  GuessesCostTime'
    BY <1>3, <2>3, SaveCosts DEF DeleteRule
  <2>4. ASSUME NEW new, CommitNativeImport(u, new)
        PROVE  GuessesCostTime'
    BY <1>2, <2>4, SaveCosts DEF CommitNativeImport
  <2>5. QED BY <1>4, <2>1, <2>2, <2>3, <2>4
            DEF PolicyCommand, PutRule, SetEnabled, StartFocus, CommitListImport, DeleteManagedList
<1>5. ASSUME NEW u \in Uids, LockCommand(u)
      PROVE  GuessesCostTime'
  <2>1. ASSUME NEW r, NEW lock \in NewLocks(r), SetRuleLock(u, r, lock)
        PROVE  GuessesCostTime'
    <3>1. lock.failures = 0
      BY DEF NewLocks, PlainLock
    <3>2. Costs(locks) => Costs(WithKey(locks, r, lock))
      BY <3>1 DEF Costs, WithKey
    <3>3. QED BY <2>1, <3>2, SaveCosts DEF SetRuleLock
  <2>2. CASE \E r \in RuleIds : RemoveRuleLock(u, r)
    BY <1>3, <2>2, SaveCosts DEF RemoveRuleLock
  <2>3. CASE \/ \E r \in RuleIds, c \in ChallengeIds : BeginRuleAuthorization(u, r, c)
             \/ \E r \in RuleIds, c \in ChallengeIds, correct \in BOOLEAN :
                    CompleteAuthorization(u, r, c, correct)
    BY <2>3 DEF BeginRuleAuthorization, CompleteAuthorization, stateVars, GuessesCostTime, Costs
  <2>4. QED BY <1>5, <2>1, <2>2, <2>3, CompletePasswordCosts DEF LockCommand
<1>6. QED BY <1>1, <1>4, <1>5 DEF Next, Command

\* However saves, crashes and restarts fall between the attempts, guessing a
\* password costs the waits that add up, as long as no imported lock brings
\* attempts along.  (with_password_failure, persisted before the reply.)
THEOREM GuessesCostTimeAlways == ASSUME FreshImports PROVE Spec => []GuessesCostTime
<1>1. Init => GuessesCostTime
  BY DEF Init, GuessesCostTime, Costs, Nothing
<1>2. Inv /\ GuessesCostTime /\ [Next]_vars => GuessesCostTime'
  BY NextCosts
<1>3. QED BY <1>1, <1>2, InvHolds, PTL DEF Spec
=============================================================================
