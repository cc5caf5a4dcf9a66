SPECIFICATION Spec
CONSTANTS
    d1 = d1
    d2 = d2
    l1 = l1
    RuleIds = {r1}
    ListIds = {}
    Domains = {d1, d2}
    Users = {owner}
    Root = root
    RuleValues <- LockRuleValues
    ImportLocks = {}
    Secrets = {1}
    ChallengeIds = {1}
    MaxGrants = 1
    ChallengeTime = 2
    GrantTime = 1
    FocusTime = {}
    MaxTimedLock = 2
    Outcomes = {"saved", "unenforced"}
    MaxTime = 3
PROPERTIES
    OneChangeOnly
