SPECIFICATION Spec
CONSTANTS
    Procs = {p1}
    Labels = {a, b, c}
    Accounts = {x, y, z}
    None = None
    Stale = Stale
    Keep = 0
    MaxIssued = 2
    Kills = TRUE
    Online = TRUE
SYMMETRY Symmetry
CONSTRAINT BeforeAccountSlip
INVARIANTS
    LabelsTrue
    LoginsKept
PROPERTIES
    SwapLands
