CONSTANTS
    r1 = r1
    r2 = r2
    r3 = r3
    R1 = R1
    R2 = R2
    Requesters = {r1, r2, r3}
    Responder = h
    Routers = {R1, R2}
    Path <- PathTree
    Subchannels = {0}
    P = 2
    Pull = TRUE
    Epoch = 0
    SlotCount = 2
    EnvFrames <- Traffic
    MaxInFlight = 2
SPECIFICATION OpenSpec
INVARIANTS OpenTypeOK SlotSound OneOpenSlot NetSound
PROPERTY SlotHistory
