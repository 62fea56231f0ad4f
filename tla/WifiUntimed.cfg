CONSTANTS
  None = None
  Pid = {1, 2, 3}
  WpaState = {"Completed", "Disconnected"}
  MaxFaults = 1
  MaxEvents = 1
SPECIFICATION FairSpec
PROPERTIES
  RequestsEnd
CHECK_DEADLOCK FALSE
