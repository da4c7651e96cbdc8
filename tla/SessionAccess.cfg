CONSTANTS
  cashier = cashier
  Instances = {i1, i2}
  Sessions = {s1}
  Staff = {cashier}
  Owner = owner
  MemberOf <- MCMemberOf
  Workers = {w1}
  TrustWindow = 2
  LookupTime = 1
  Keepalive = 2
  LastTick = 7
  MaxChanges = 2
SPECIFICATION Spec
SYMMETRY MCSymmetry
INVARIANTS TypeOK StaleOnlyBriefly SocketHangsUp
CHECK_DEADLOCK FALSE
