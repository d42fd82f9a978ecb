SPECIFICATION Spec
CONSTANTS
    Maturities = {5, 6, 8}
    Starts = {0, 1, 2, 4}
    Grids <- WholeYears
    Zeros <- MCZeros
    Needed = 5
INVARIANT OnlyOutOfBoundsRemoved
CHECK_DEADLOCK FALSE
