SPECIFICATION MCSpec
CONSTANTS
    A = A
    Orders <- MCOrders
    Instruments = {A}
    Instrument <- MCInstrument
    Side <- MCSide
    Quantity <- MCQuantity
    Prices = {1, 2}
    Fee = 1
    Capital = 6
    Adopted <- MCAdopted
    MaxReads = 3
    MaxBusts = 1
    MaxTransfers = 1
    MaxEvidence = 2
    MaxLives = 2
    Start = 10
    Moves <- MCMoves
    Deposits <- MCDeposits
    MinWorth = 7
    MaxClock = 9
INVARIANTS CashExplained CostsSettled ExplainedOnce
PROPERTIES NewestBookingWins NewestCashWins LossPauses
CHECK_DEADLOCK FALSE
