CONSTANTS
    Repos         = {r1}
    Runs          = {1, 2, 3, 4}
    Owners        = {o1}
    Null          = null
    Sources       = {a}
    Configs       = {p, q}
    Contents      = {none}
    NoRows        = none
    ValidContents = {none}
    Cursors       = {}
    Times         = {0, 1}
    MaxUnits      = 0
    MaxCleanup    = 2
SPECIFICATION HistorySpec
SYMMETRY Symmetry
INVARIANT CleanupKeepsNewest
