CONSTANTS
    t1 = t1
    t2 = t2
    b1 = b1
    b2 = b2
    s1 = s1
    s2 = s2
    stock = stock
    None = None
    Threads = {t1, t2}
    Reviewers = {t2}
    Monitors = {t1}
    Intents = {b1, s1}
    Buys = {b1}
    Instruments = {stock}
    Instrument <- OneStock
    Quantity <- TwoShares
    Price <- OneWon
    UnitReserve <- ReserveTwo
    InitialCash = 5
    InitialHoldings <- TwoHeld
    BrokerEchoesIntent = FALSE
    SessionEnds = TRUE
    MaxCrashes = 1
    MaxLateFills = 1
SPECIFICATION Spec
INVARIANTS
    TypeOK
    UncertaintyBlocksTrading
    ClosedMeansDone
    NoOppositeOrdersLive
PROPERTIES
    SentOnlyWhenAllowed
    PromiseKept
