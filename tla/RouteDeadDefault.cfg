CONSTANTS
  None = None
  Default = Default
  net1 = net1
  net2 = net2
  gw1 = gw1
  gw2 = gw2
  Oif <- MCOif
  Net = {net1}
  Gateway <- MCGateway
  MaxChanges = 3
  MaxRemovals = 0
SPECIFICATION Spec
INVARIANTS
  NoDeadDefault
CHECK_DEADLOCK FALSE
