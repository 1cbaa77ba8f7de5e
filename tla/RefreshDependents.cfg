CONSTANTS
    p1 = p1
    p2 = p2
    p3 = p3
    v1 = v1
    v2 = v2
    a = a
    b = b
    c = c
    d = d
    plain = plain
    Repos      = {r1}
    Runs       = {1, 2}
    Null       = null
    Sources    = {a, b}
    Configs    = {plain}
    MaxCleanup = 1
    Paths      = {p1, p2}
    Versions   = {v1, v2}
    Manifest   <- TwoSources
    ConfigOf   <- OneConfig
    DependsOn  <- OneDependency
    Relabelled = {}
    Unparsable <- NoFailure
    OverBound  <- NoFailure
    Starters   = {s1}
    Drivers    = {d1}
    Cancellers = {}
    MaxBatch   = 2
    MaxMishaps = 1
SPECIFICATION Spec
INVARIANTS
    PlansCoverDependents
