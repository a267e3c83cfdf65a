CONSTANTS
    SubCount = 2
    P = 3
    Gap = 2
    MaxGap = 4
    StartWindow = 1
    MaxWindow = 2
    Rto = 4
    MaxRetries = 2
    Burst = 6
    Rate = 3
    Packet = 1
    RequesterCount = 2
    MaxTime = 13
SPECIFICATION Spec
CHECK_DEADLOCK FALSE
INVARIANTS PacingTypeOK OutstandingExact WindowRespected CreditsSpaced RepairWithinBudget RepairServed
