SPECIFICATION Spec
CONSTANTS
    Procs = {p1, p2}
    Labels = {a, b}
    Accounts = {x, y, z}
    None = None
    Stale = Stale
    Keep = 1
    MaxIssued = 1
    Kills = FALSE
    Online = TRUE
SYMMETRY Symmetry
INVARIANTS
    PairsMatch
    LockExcludes
