CONSTANTS
    MaxPayments = 2
    Workers = {w1, w2}
    Instances = {i1}
    TrialDays = 1
    GraceDays = 1
    MonthDays = 1
    MaxDay = 3
    ProStores = 2
    MaxStores = 3
SPECIFICATION Spec
INVARIANTS TypeOK GraceIsWhole CreditedWasCharged 
PROPERTIES AccountAddsUp PaidIsCredited OpeningShutsNoneOut
CHECK_DEADLOCK FALSE
