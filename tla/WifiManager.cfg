CONSTANTS
  None = None
  Pid = {1, 2, 3, 4}
  WpaState = {"Completed", "Disconnected"}
  MaxFaults = 1
  MaxEvents = 2
SPECIFICATION FairSpec
INVARIANTS
  TypeOK
  ExternalIsCurrent
  GivesUpOnFailure
PROPERTIES
  BackendReturns
CHECK_DEADLOCK FALSE
