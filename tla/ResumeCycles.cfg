SPECIFICATION FairSpec
CONSTANTS
    u1 = u1
    s1 = s1
    Units = {u1}
    Sessions = {s1}
    UnitOf <- OneUnit
    MaxAttempts = 2
    Hour = 2
    MaxFaults = 4
    Torn = FALSE
    Joins = FALSE
INVARIANTS
    QuarantineHolds
    OneProcess
PROPERTIES
    CardKept
    Returns
