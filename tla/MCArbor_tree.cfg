CONSTANTS
    r1 = r1
    r2 = r2
    r3 = r3
    R1 = R1
    R2 = R2
    Requesters = {r1, r2, r3}
    Responder = h
    Routers = {R1, R2}
    Path <- PathTree
    Subchannels = {0}
    P = 1
    Pull = TRUE
    Epoch = 0
    SlotCount = 1
    CreditWindow = 2
    EntryCap = 2
    RepairMaxRetries = 1
    EndMaxRetries = 0
    RegisterMaxAttempts = 1
    MaxLoss = 0
    MaxDup = 0
    DupTypes <- DupAllButRequests
    Patient = FALSE
SPECIFICATION Spec
CHECK_DEADLOCK FALSE
SYMMETRY SymmetryTree
INVARIANTS TypeOK AckedMeansComplete ExactResult
PROPERTIES ImplementsAllReduce
