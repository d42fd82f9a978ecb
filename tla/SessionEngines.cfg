SPECIFICATION Spec
CONSTANTS
    MaxDay <- MCMaxDay
    Given <- MCTwoGiven
    Calendars <- MCCalendars
    Target = "TARGET"
    Names <- MCNames
    Offsets <- MCOffsets
    Retreat <- MCRetreat
    None = None
    Ops <- EngineOps
INVARIANT TypeOK
INVARIANT PricedUnderOwnDate
INVARIANT FuturesFromOwnSettle
INVARIANT DiscountCurveRestores
INVARIANT OptionsOnOneDate
PROPERTY PinnedForGood
PROPERTY CalendarAfterDays
PROPERTY ImplementsContract
