CONSTANTS
    k1 = k1
    k2 = k2
    r1 = r1
    Commands = {c1, c2}
    Keys = {k1, k2}
    Rules = {r1}
    RuleOf <- OneRule
    Protected = {k2}
    Owners = {o1}
    Answers = {a1, a2}
    Null = null
    MaxAttempts = 2
    Disturbances = {}
SPECIFICATION FairSpec
CHECK_DEADLOCK FALSE
PROPERTIES
    CancelDuringCallSettles
