CONSTANTS
    i1 = i1
    repo = repo
    other = other
    Items = {i1}
    Repos = {repo, other}
    Sessions = {s1}
    SessionRepo <- MCSessionRepo
    Changes = {0}
    Updates <- MCUpdates
    Columns = {"plan"}
    NULL = NULL
    Keep = Keep
    Runs = {a, b}
    Hooks = {h1}
    Processes = {p1}
    Ports = {q1, q2}
    PortsWanted = 1
    EditKinds = {}
    Faults = {"worktree", "ports", "identity", "spawn", "crash", "lose"}
    MaxEdits = 0
    MaxClosures = 0
SPECIFICATION Spec
SYMMETRY Symmetry
INVARIANTS
    ItemsTypeOK
    SessionInRepository
    OneLiveRun
    PortsAreReserved
