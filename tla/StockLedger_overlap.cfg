CONSTANTS
  p1 = p1
  p2 = p2
  m1 = m1
  m2 = m2
  owner = owner
  staff1 = staff1
  staff2 = staff2
  Sales = {s1}
  Products = {p1, p2}
  Movements = {m1, m2}
  MovementRow <- MCMovementRow
  LineChoices <- MCLineChoices
  Openings = {0}
  Actors = {owner, staff1, staff2}
  Owner = owner
  Workers = {w1, w2}
  SerialFirstPush = FALSE
  MaxRequests = 2
SPECIFICATION Spec
INVARIANTS SaleCountedOnce
CHECK_DEADLOCK FALSE
