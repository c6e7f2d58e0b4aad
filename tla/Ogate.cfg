SPECIFICATION Spec
CONSTANTS
    MaxRequests <- MCMaxRequests
    MaxPlans <- MCMaxPlans
    MaxTick <- MCMaxTick
INVARIANTS
    InterfacesAgree
    StatusIsTrue
    TicksInOrder
PROPERTIES
    StopEnds
CHECK_DEADLOCK FALSE
