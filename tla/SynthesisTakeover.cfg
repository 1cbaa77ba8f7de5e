CONSTANTS
    k1 = k1
    k2 = k2
    r1 = r1
    Commands = {c1, c2}
    Keys = {k1}
    Rules = {r1}
    RuleOf <- OneKey
    Protected = {}
    Owners = {o1, o2}
    Answers = {a1, a2}
    Null = null
    MaxAttempts = 2
    Disturbances = {"continue", "crash", "pause", "recover", "acknowledge"}
SPECIFICATION Spec
SYMMETRY Interchangeable
CHECK_DEADLOCK FALSE
INVARIANTS
    TypeOK
    CallsAccounted
    RulesKeepTheirAnswer
    SingleFlight
PROPERTIES
    SettledIsFinal
