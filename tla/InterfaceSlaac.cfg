CONSTANTS
  None = None
  em0 = em0
  wlan0 = wlan0
  iwn0 = iwn0
  i1 = i1
  i2 = i2
  i3 = i3
  addr1 = addr1
  addr2 = addr2
  gw1 = gw1
  gw2 = gw2
  Type <- MCType
  TypeOf <- MCTypeOf
  Device <- MCDevice
  ParentOf <- MCParentOf
  State <- ConnectionState
  Name <- MCName
  Index <- MCFewIndices
  Logical <- MCLogical
  AutoDevice <- MCDevice
  Addr = {}
  Gateway = {}
  Lease = {}
  PromptReuse = FALSE
  MaxStimuli = 1
SPECIFICATION Spec
INVARIANTS
  FlagsTold
CHECK_DEADLOCK FALSE
