SPECIFICATION Spec
CONSTANTS
    MaxDay <- MCMaxDay
    Given <- MCTwoGiven
    Calendars <- MCCalendars
    Target = "TARGET"
    Names <- MCNames
    Offsets <- MCOffsets
    Retreat <- MCRetreat
    None = None
    Ops <- TwoCurveOps
INVARIANT PricedUnderOwnDate
INVARIANT FuturesFromOwnSettle
PROPERTY ImplementsContract
