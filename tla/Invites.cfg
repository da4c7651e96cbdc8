CONSTANTS
    Requests = {r1, r2}
    Phones = {a, b}
    InviteLifetime = 1
    MaxCodes = 3
    MaxTime = 1
SPECIFICATION Spec
SYMMETRY InvitesSymmetry
INVARIANTS OneCodeOnePhone
PROPERTIES RemovedNeverJoins NewCodeRetiresOld
