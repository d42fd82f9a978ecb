SPECIFICATION Spec
CONSTANTS
    Maturities = {1, 2, 3, 5, 6, 8, 10}
    Starts = {0, 1, 2, 4}
    Grids <- MCGrids
    Zeros <- MCZeros
    Needed = 5
INVARIANTS TypeOK QuotesOfTheirPair ClosestFirst EndsNearMaturity NeverTooFew FailsOnlyWhenShort
CHECK_DEADLOCK FALSE
