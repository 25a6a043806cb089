SPECIFICATION FairSpec
CONSTANTS
    Clis = {agent, term}
    NoCli = NoCli
    Contend = FALSE
    MaxFaults = 2
    Labels = {l1}
    Agent = agent
    Commands = {"up", "down", "status", "recover"}
    MaxNonces = 2
    NoNonce = NoNonce
INVARIANTS
    LockExcludes
    Tracked
    NoDuplicate
PROPERTIES
    BusyKept
    OrphanStopped
