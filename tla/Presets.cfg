SPECIFICATION Spec
CONSTANTS
  Presets = {"p", "q"}
  Aliases <- MCAliases
  Default = "p"
  Undeclared = {"gone"}
  Sessions = {"A", "B"}
  MaxRequests = 3
  MaxWaiting = 2
  MaxFaults = 2
INVARIANTS
  RecordTrue
  FailureUndone
