SPECIFICATION FairSpec
CONSTANTS
    Procs = {p1, p2, p3}
    Root = Root
    MaxSlots = 1
    WaitTimeout = 1
    Scopes = {c1, c2}
    NoScope = NoScope
    NoSlot = NoSlot
    NoProc = NoProc
    Orphaned = Orphaned
    KeepsFd = FALSE
    Kills = FALSE
PROPERTIES
    MarkerCovered
    ProbeCovered
    GateDecides
