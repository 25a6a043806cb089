SPECIFICATION SupervisorSpec
CONSTANTS
    Pids = {1, 2, 3, 4, 5}
    Stranger = Stranger
    None = None
    MaxFaults = 4
CHECK_DEADLOCK FALSE
INVARIANTS
    SparesStrangers
PROPERTIES
    BrowserRecovers
