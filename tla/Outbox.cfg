CONSTANTS
  p1 = p1
  p2 = p2
  s1 = s1
  home = home
  branch = branch
  Products = {p1, p2}
  Sales = {s1}
  Of <- MCOf
  Stores = {home, branch}
  StoreOf <- MCTwoStores
  Refusing = {branch}
  Malformed <- MCSecondTooLong
  Coordinators = {c1}
  BatchSize = 2
  MaxBatches = 2
  MaxAttempts = 2
  MaxVersion <- MCMaxVersion
  Incidents = {"lost", "fault", "owner"}
  MaxIncidents = 2
SPECIFICATION FairSpec
INVARIANTS TypeOK NothingLost
PROPERTIES CloudInOrder SalesMeetProducts Drains
CHECK_DEADLOCK FALSE
