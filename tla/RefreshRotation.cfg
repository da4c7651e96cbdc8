CONSTANTS
    Handlers = {w1, w2}
    Grace = 1
    Lifetime = 3
    KeepFor = 1
    NewFor = 1
    Dormant = 2
    Trust = 1
    MaxTokens = 3
    MaxTime = 4
SPECIFICATION RotationSpec
SYMMETRY HandlerSymmetry
PROPERTIES KeepsThePhoneSignedIn SignedOutGetsNothing PurgeTakesOnlyTheDead
CHECK_DEADLOCK FALSE
