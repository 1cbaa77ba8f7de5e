CONSTANTS
    p1 = p1
    p2 = p2
    p3 = p3
    v1 = v1
    v2 = v2
    a = a
    b = b
    c = c
    d = d
    plain = plain
    Repos      = {r1}
    Runs       = {1, 2}
    Null       = null
    Sources    = {a, b, c, d}
    Configs    = {plain}
    MaxCleanup = 1
    Paths      = {p1, p2, p3}
    Versions   = {v1, v2}
    Manifest   <- FourSources
    ConfigOf   <- OneConfig
    DependsOn  <- OneDependency
    Relabelled = {p3}
    Unparsable <- NoFailure
    OverBound  <- NoFailure
    Starters   = {s1}
    Drivers    = {d1, d2}
    Cancellers = {}
    MaxBatch   = 2
    MaxMishaps = 1
SPECIFICATION Spec
SYMMETRY DriverSymmetry
INVARIANTS
    TypeOK
    ReadyFactsCurrent
    MissingFactsHaveWork
