CONSTANTS
    Requesters = {r1}
    Responder = h
    Subchannels = {0, 1}
    Ids = 3
    FirstEpoch = 1
    Calls = 4
    RxCap = 2
    SendCap = 4
SPECIFICATION FairSpec
CHECK_DEADLOCK FALSE
PROPERTIES EveryCallSucceeds
