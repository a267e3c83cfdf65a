CONSTANTS
    r1 = r1
    r2 = r2
    r3 = r3
    R1 = R1
    R2 = R2
    Requesters = {r1, r2}
    Responder = h
    Routers = {R1}
    Path <- PathStar
    Subchannels = {0}
    P = 1
    Pull = TRUE
    Epoch = 0
    SlotCount = 1
    CreditWindow = 2
    EntryCap = 2
    RepairMaxRetries = 1
    EndMaxRetries = 1
    RegisterMaxAttempts = 1
    MaxLoss = 0
    MaxDup = 1
    DupTypes <- DupAllButRequests
    Patient = FALSE
SPECIFICATION RegisteredSpec
CHECK_DEADLOCK FALSE
SYMMETRY Symmetry
INVARIANTS ExactResult DoubleCountOnlyInRepair
