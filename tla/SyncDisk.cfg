SPECIFICATION Spec
CONSTANTS
    SlowStops = FALSE
    MaxFaults = 3
INVARIANTS
    StoppedIsBack
PROPERTIES
    PauseHonoured
    RecoverHeals
