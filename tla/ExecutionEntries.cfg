CONSTANTS
    t1 = t1
    t2 = t2
    b1 = b1
    b2 = b2
    s1 = s1
    s2 = s2
    stock = stock
    None = None
    Threads = {t1, t2}
    Reviewers = {t2}
    Monitors = {t1}
    Intents = {b1, b2}
    Buys = {b1, b2}
    Instruments = {stock}
    Instrument <- OneStock
    Quantity <- TwoAndOne
    Price <- OneWon
    UnitReserve <- ReserveTwo
    InitialCash = 5
    InitialHoldings <- OneHeld
    BrokerEchoesIntent = TRUE
    SessionEnds = FALSE
    MaxCrashes = 0
    MaxLateFills = 0
SPECIFICATION Spec
INVARIANTS
    CashCoversReservations
