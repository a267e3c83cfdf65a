CONSTANTS
    MaxMessages = 3
    SeqSpace = 7
    MaxCalls = 4
    Totals <- MixedTotals
    Depth = 2
    Orders = {TRUE, FALSE}
    Overlap = FALSE
SPECIFICATION Spec
CHECK_DEADLOCK FALSE
INVARIANTS TablesTypeOK  RequestsResolve NoSlotLeaks TombstoneKept Paired ResponsesResolve OkMeansAnswered
