CONSTANTS
    RankCount = 4
    SubCount = 2
    MaxStackDepth = 3
    RingSize = 3
    Topologies <- Shipped
    Workloads <- AllWork
SPECIFICATION Spec
CHECK_DEADLOCK FALSE
INVARIANTS ForwardingTypeOK MulticastOnce UnicastArrives UnwindsWherePushed AggregateOrMiss PortsServedInTurn
PROPERTIES ExchangesEnd
