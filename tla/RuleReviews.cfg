CONSTANTS
    e1 = e1
    e2 = e2
    c1 = c1
    c2 = c2
    r1 = r1
    r2 = r2
    Rules = {r1, r2}
    Evidence = {e1, e2}
    Contradictions = {c1, c2}
    Catalogs <- SomeCatalogs
    Reviewers = {h1, h2}
    MaxGen = 3
    MaxEvents = 3
    MaxAliasEvents = 2
    NULL = null
SPECIFICATION Spec
SYMMETRY Interchangeable
CHECK_DEADLOCK FALSE
INVARIANTS
    TypeOK
    DecisionsStand
    SupersededHasSuccessor
    AliasesAreStars
PROPERTY DecisionsAreInformed
