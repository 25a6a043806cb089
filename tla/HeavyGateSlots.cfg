SPECIFICATION Spec
CONSTANTS
    Procs = {p1, p2, p3}
    Root = Root
    MaxSlots = 2
    WaitTimeout = 0
    Scopes = {}
    NoScope = NoScope
    NoSlot = NoSlot
    NoProc = NoProc
    Orphaned = Orphaned
    KeepsFd = TRUE
    Kills = TRUE
SYMMETRY Symmetry
INVARIANTS
    SlotExclusive
    PooledJobsBounded
    NoWaitOnOwnJob
PROPERTIES
    PoolSpec
