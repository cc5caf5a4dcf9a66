--------------------------- MODULE MCLockedPolicy ---------------------------
(***************************************************************************)
(* Instances of LockedPolicy for TLC: the rules that clients submit and    *)
(* the locks that an import carries.                                       *)
(***************************************************************************)
EXTENDS LockedPolicy, TLC

CONSTANTS d1, d2, l1

Always == [kind |-> "indefinite", times |-> {}]
Weekly == [kind |-> "weekly", times |-> {0, 2}]
OneTime(from, to) == [kind |-> "one_time", times |-> from .. to]

BasicRule == [enabled |-> TRUE, targets |-> {d1}, system_blocking |-> FALSE,
              system_targets |-> {}, exceptions |-> {}, excluded |-> {},
              schedule |-> Weekly, time_allowance |-> NoAllowance]
ListRule == [BasicRule EXCEPT !.targets = {l1}]

\* One rule in several strengths: locks of every kind against every edit.
LockRuleValues ==
    {BasicRule,
     [BasicRule EXCEPT !.exceptions = {d1}, !.system_blocking = TRUE, !.system_targets = {d2}],
     [BasicRule EXCEPT !.targets = {d1, d2}, !.time_allowance = 1, !.schedule = Always]}

\* A rule that blocks through a managed list, beside one that does not.
ListRuleValues ==
    {[ListRule EXCEPT !.system_blocking = TRUE, !.system_targets = {l1}, !.excluded = {d2}],
     [BasicRule EXCEPT !.schedule = OneTime(1, 2)]}
RuleSymmetry == Permutations(RuleIds)
ListImportLocks == {PlainLock("friction")}

\* Two rules that differ in the domains they exclude from a managed list.
ExclusionRuleValues == {ListRule, [ListRule EXCEPT !.excluded = {d1}]}
=============================================================================
