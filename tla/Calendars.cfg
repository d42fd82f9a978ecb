SPECIFICATION Spec
CONSTANTS
    Names <- MCNames
    Markets <- MCMarkets
    Days <- MCDays
    Regular <- MCRegular
    Lookup <- MCLookup
    Target = "TARGET"
    Bespoke = Bespoke
    Unknown = Unknown
INVARIANTS TypeOK OnlyExceptions HeardUnderEveryName
PROPERTY ImplementsBook
