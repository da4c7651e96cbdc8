CONSTANTS
    Phones = {a, b}
    Payments = {k}
    Grace = 1
    Limit = 1
    MaxAccounts = 1
    MaxRaises = 1
    MaxTime = 2
SPECIFICATION Spec
INVARIANTS AgreeingSettles MoneyAccountedFor CounterExpires
PROPERTIES NeverBeforeTheDate SweepKeepsTheDate AskedIsDeleted
