SPECIFICATION Spec
CONSTANTS
    Expiries <- MCExpiries
    Tenors <- MCTenors
    Spreads <- MCSpreads
    Asks <- MCAsks
    LeapDays <- MCLeapDays
    UsMoves <- MCUsMoves
    TargetMoves <- MCTargetMoves
    None = None
INVARIANT TypeOK
INVARIANT CubeHoldsQuotes
INVARIANT NothingInvented
INVARIANT CutFailsExactlyWhen
INVARIANT LookedUpInTheCube
INVARIANT SensitivityIsOneBump
INVARIANT ExercisedOnAnniversaries
CHECK_DEADLOCK FALSE
