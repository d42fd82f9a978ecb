SPECIFICATION Spec
CONSTANTS
    LastDate = 9
    Horizon = 6
    Stride = 2
INVARIANTS TypeOK TableIsExpected HorizonIsFarEnough TurnedDownOnlyNearTheEnd
PROPERTY LoopEnds
CHECK_DEADLOCK FALSE
