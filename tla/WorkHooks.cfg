CONSTANTS
    i1 = i1
    repo = repo
    other = other
    Items = {i1}
    Repos = {repo}
    Sessions = {}
    SessionRepo <- MCSessionRepo
    Changes = {}
    Updates <- MCUpdates
    Columns = {}
    NULL = NULL
    Keep = Keep
    Runs = {a}
    Hooks = {h1, h2}
    Processes = {}
    Ports = {q1}
    PortsWanted = 0
    EditKinds = {"tracked", "create", "untracked", "commit", "racing"}
    Faults = {"crash"}
    MaxEdits = 2
    MaxClosures = 1
SPECIFICATION Spec
SYMMETRY Symmetry
INVARIANTS
    TypeOK
    CheckpointsAreNumbered
PROPERTIES
    ArchiveKeepsWork
