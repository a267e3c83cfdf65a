CONSTANTS
    Requesters = {r1}
    Responder = h
    Subchannels = {0, 1}
    Ids = 3
    FirstEpoch = 1
    Calls = 4
    RxCap = 5
    SendCap = 3
SPECIFICATION FairSpec
CHECK_DEADLOCK FALSE
INVARIANTS QueuesTypeOK  GateMeansPresent
PROPERTIES EveryCallSucceeds
