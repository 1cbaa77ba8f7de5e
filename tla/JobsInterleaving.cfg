CONSTANTS
    Repos         = {r1}
    Runs          = {1, 2}
    Owners        = {o1, o2}
    Null          = null
    Sources       = {a, b}
    Configs       = {p}
    Contents      = {none, x}
    NoRows        = none
    ValidContents = {none, x}
    Cursors       = {c1}
    Times         = {0, 1}
    MaxUnits      = 0
    MaxCleanup    = 1
SPECIFICATION Spec
SYMMETRY Symmetry
ACTION_CONSTRAINT OneRunGoesStale
INVARIANTS
    TypeOK
    ReadyPointerAgrees
    ActiveRunsCanEnd
    PublishedIsSealed
PROPERTIES
    ImplementsCatalog
    CancellationSticks
