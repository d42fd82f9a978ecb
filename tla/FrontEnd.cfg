SPECIFICATION Spec
CONSTANTS
    ImmDates <- MCImmDates
    Calls <- MCCalls
INVARIANTS TypeOK TermsAsAsked LegsShareTheirWord SameCurveEitherWay OneHelperPerQuote FuturesOnImmDates
CHECK_DEADLOCK FALSE
