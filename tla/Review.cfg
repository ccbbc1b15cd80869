SPECIFICATION Spec
CONSTANTS
    None = None
    Symbols <- Characters
    Fold <- Lower
    ExactDigits = 15
    Rounded <- RoundedDecimal
    TicksPerDay = 2
    Merchant <- Record
    AllowedLinkHosts <- Hosts
    Inputs <- AllInputs
CHECK_DEADLOCK FALSE
INVARIANTS
    VerdictReachesReviewer
    ScreenHasGatedText
    CapIsExact
    NoNumberInvented
    HonestNumbersPass
    GroundsAreDisjoint
    GroundedIsLinked
    UnlinkedIsOverCited
    ClaimsLandWhereComposed
    SegmentsReproduceBody
    SegmentsCarryTheirMarks
