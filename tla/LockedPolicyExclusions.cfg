SPECIFICATION Spec
CONSTANTS
    d1 = d1
    d2 = d2
    l1 = l1
    RuleIds = {r1}
    ListIds = {l1}
    Domains = {d1, d2}
    Users = {owner}
    Root = root
    RuleValues <- ExclusionRuleValues
    ImportLocks = {}
    Secrets = {1}
    ChallengeIds = {1}
    MaxGrants = 1
    ChallengeTime = 2
    GrantTime = 1
    FocusTime = {}
    MaxTimedLock = 2
    Outcomes = {"saved", "unsaved", "crash"}
    MaxTime = 3
PROPERTIES
    RulesHold
