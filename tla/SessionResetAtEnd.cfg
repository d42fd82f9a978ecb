SPECIFICATION Spec
CONSTANTS
    MaxDay <- MCMaxDay
    Given <- MCGiven
    Calendars <- MCCalendars
    Target = "TARGET"
    Names <- MCNames
    Offsets <- MCOffsets
    Retreat <- MCRetreat
    None = None
    Ops <- CurveAlone
INVARIANT EvaluationDateResetAtEnd
