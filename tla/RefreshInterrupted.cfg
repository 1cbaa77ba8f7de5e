CONSTANTS
    p1 = p1
    p2 = p2
    p3 = p3
    v1 = v1
    v2 = v2
    a = a
    b = b
    c = c
    d = d
    plain = plain
    Repos      = {r1}
    Runs       = {1}
    Null       = null
    Sources    = {a}
    Configs    = {plain}
    MaxCleanup = 1
    Paths      = {p1, p2}
    Versions   = {v1, v2}
    Manifest   <- OneSource
    ConfigOf   <- OneConfig
    DependsOn  <- NoDependency
    Relabelled = {}
    Unparsable <- NoFailure
    OverBound  <- NoFailure
    Starters   = {s1}
    Drivers    = {d1}
    Cancellers = {k1}
    MaxBatch   = 1
    MaxMishaps = 1
SPECIFICATION FairSpec
PROPERTIES
    InterruptedJobResumes
