SPECIFICATION Spec
CONSTANTS
    d1 = d1
    d2 = d2
    l1 = l1
    RuleIds = {r1, r2}
    ListIds = {l1}
    Domains = {d1, d2}
    Users = {owner}
    Root = root
    RuleValues <- ListRuleValues
    ImportLocks <- ListImportLocks
    Secrets = {}
    ChallengeIds = {}
    MaxGrants = 1
    ChallengeTime = 1
    GrantTime = 1
    FocusTime = {1}
    MaxTimedLock = 0
    Outcomes = {"saved", "unsaved"}
    MaxTime = 1
PROPERTIES
    RulesHold
    ActiveRulesKeepTargets
SYMMETRY RuleSymmetry
