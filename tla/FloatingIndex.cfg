SPECIFICATION Spec
CONSTANTS
    ImmDates <- MCImmDates
    Calls <- MCCalls
INVARIANT IndexAsAsked
CHECK_DEADLOCK FALSE
