SPECIFICATION Spec
CONSTANTS
    Maturities = {1, 2, 3, 5, 6, 8, 10}
    Starts = {0, 1, 2, 4}
    Grids <- WholeYears
    Zeros <- MCZeros
    Needed = 5
INVARIANT ClosestIsCalibrated
CHECK_DEADLOCK FALSE
