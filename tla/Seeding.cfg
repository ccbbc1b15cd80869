SPECIFICATION Spec
CONSTANTS
    None = None
    Symbols <- MCSymbols
    ExactDigits = 15
    Rounded <- MCRounded
    Nul = "U+0000"
    Indexable <- MCIndexable
    MaxInteger = 5000
    Countries <- MCCountries
    Locales <- MCLocales
    AsciiLetters <- MCLetters
    Decomposed <- MCDecomposed
    LowerCase <- MCLower
    Adjectives <- MCAdjectives
    OwnerNames <- MCOwners
    AccentedOwnerNames <- MCAccented
    Nouns <- MCNouns
    CityProfiles <- MCPlaces
    DefaultLocale = "en-GB"
    ReferenceDate <- MCReference
    Draws <- MCDraws
    MIN_PER_EDGE_CASE = 1
    Count = 10
    CHUNK_SIZE = 5
    MAX_BATCH_SIZE = 6
    Nows <- MCNows
    Posts <- MCPosts
    MaxNeutral = 3
    PageLimits <- MCLimits
    PageCategories <- MCCategories
    IdBefore <- MCBefore
    MAX_LIST_LIMIT = 2
INVARIANTS
    CasesStayCovered
    AddressesAreOwn
    SeedIsAccepted
    AcceptedMeetsChecks
    PagingMissesNone
    GeneratedSignalsAreGrounded
CHECK_DEADLOCK FALSE
