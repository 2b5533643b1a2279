CONSTANTS
    MaxSession = 2
    MaxInterval = 1
    MaxSkew = 0
    RetroWindow = 2
    Second = 2
    MaxSeq = 4
    Horizon = 3
SPECIFICATION Spec
INVARIANTS LoopMeetsDefinition PhoneAgreesWithServer CreditWithinSpan
PROPERTY StopFreezesCredit
CHECK_DEADLOCK FALSE
