SPECIFICATION FairSpec
CONSTANTS
    Pids = {1, 2}
    Profiles = {f1}
    NoProfile = NoProfile
    Scripts = {"browser", "worktree", "runaway"}
    Stepped = {"browser", "worktree"}
    Grace = 2
    MaxBorn = 2
    MaxSteps = 1
    MaxFailures = 1
    Strict = FALSE
INVARIANTS
    GraceHeld
PROPERTIES
    PurgeSpares
    Reaped
