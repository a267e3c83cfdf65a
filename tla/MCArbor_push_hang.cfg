CONSTANTS
    r1 = r1
    r2 = r2
    r3 = r3
    R1 = R1
    R2 = R2
    Requesters = {r1, r2}
    Responder = h
    Routers = {R1}
    Path <- PathStar
    Subchannels = {0}
    P = 1
    Pull = FALSE
    Epoch = 0
    SlotCount = 1
    CreditWindow = 2
    EntryCap = 2
    RepairMaxRetries = 2
    EndMaxRetries = 2
    RegisterMaxAttempts = 3
    MaxLoss = 1
    MaxDup = 0
    DupTypes <- DupAllButRequests
    Patient = TRUE
SPECIFICATION FairSpec
CHECK_DEADLOCK FALSE
PROPERTIES Termination
