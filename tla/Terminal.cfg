CONSTANTS
  None = None
  em0 = em0
  wlan0 = wlan0
  home = home
  a1 = a1
  a2 = a2
  c1 = c1
  Device <- MCDevice
  Wlan = wlan0
  Ssid <- MCSsid
  Lists4 <- MCLists4
  Lists6 <- MCLists6
  LinksAtStart <- MCLinks
  MaxCommands = 3
  ProfilesAtStart <- MCProfiles
  MaxTroubles = 1
SPECIFICATION FairSpec
INVARIANTS
  TypeOK
  ConnectingIsSelected
PROPERTIES
  SavedAsShown
  ConnectingEnds
CHECK_DEADLOCK FALSE
