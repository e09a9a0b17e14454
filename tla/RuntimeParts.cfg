SPECIFICATION MCSpec
CONSTANTS
    Calls = {1, 2, 3, 4}
    Kind <- FourKinds
    NoCall = NoCall
    MaxPages = 2
    MaxLimits = 1
    MaxExpiries = 1
    Readers = {1, 2}
    Orders = {1}
    MaxFlights = 2
    Tickers = {1, 2, 3}
    Protected = {1}
    Slots = 2
    MaxAge = 1
    MaxClock = 2
    MaxLinks = 2
    Receipts = {1, 2}
    Day <- TwoDays
    Issuer <- TwoIssuers
    Corrections = {1}
    Held = {"b"}
    RecentDays = 1
    MaxDay = 2
    MaxUpgrades = 1
    Runtimes = {"r1", "r2"}
    Commands = {"c1", "c2"}
    Dir <- TwoDirs
    Nobody = Nobody
    MaxEvidence = 1
    MaxVersion = 3
    MaxReviews = 2
    MaxRetries = 1
    MaxRepairs = 1
    Symbols = {1, 2}
    Capital = 19
    Limit = 4
    Asks = {4, 6}
    Bids = {8}
    RatePart = 2
    MinFee = 3
    TaxPart = 4
    TransmissionDelay = 1
    CancelDelay = 2
    Life = 3
    Sizes <- OneSize
    MaxQuantity = 2
    MaxOrders = 3
    MaxTime = 3
    MaxSplits = 1
INVARIANTS
    OutcomeHonest
    SnapshotCurrent
    RegistrationsHeld
    NoDisclosureLost
    OneOwner
    OpenOrdersCovered
    BooksBalance
PROPERTIES
    CooldownRespected
    QuoteOfThisSession
    JudgementCurrent
CHECK_DEADLOCK FALSE
