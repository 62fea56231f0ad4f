CONSTANTS
  None = None
  home = home
  cafe = cafe
  ap1 = ap1
  p1 = p1
  s1 = s1
  u1 = u1
  Profile <- MCProfile
  Password = {p1, s1}
  Short = {s1}
  Identity = {u1}
  id1 = id1
  id2 = id2
  NetId <- MCNetId
  MaxFaults = 1
  Loads <- MCLoads
SPECIFICATION Spec
SYMMETRY Symmetry
INVARIANTS
  TypeOK
  IdsAreOwn
PROPERTIES
  SelectedStaysKnown
  SecretsSurvive
CHECK_DEADLOCK FALSE
