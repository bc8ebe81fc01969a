CONSTANTS
    Borrowers = {a, b, c}
    NULL = NULL
    DECIMAL_PRECISION = 1000
    NICR_PRECISION = 100000
    MaxRatio = 10000000
    MCR = 1100
    CCR = 1500
    PERCENT_DIVISOR = 10
    ZUSD_GAS_COMPENSATION = 5
    MIN_NET_DEBT = 20
    Prices = {1000, 700}
    OpenColl = {46, 47, 52}
    OpenZUSD = {20}
    AdjustColl = {}
    AdjustZUSD = {}
    BorrowingRates = {50}
    Deposits = {52}
    RedeemAmounts = {}
    RedemptionRates = {}
    MaxBatch = 2
    MaxTransactions = 5
SPECIFICATION MCSpec
SYMMETRY Symmetry
PROPERTIES LiquidatedBelowTCR
