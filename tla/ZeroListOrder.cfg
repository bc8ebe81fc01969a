CONSTANTS
    Borrowers = {a, b, c}
    NULL = NULL
    DECIMAL_PRECISION = 1000
    NICR_PRECISION = 100000
    MaxRatio = 10000000
    MCR = 1100
    CCR = 1500
    PERCENT_DIVISOR = 10
    ZUSD_GAS_COMPENSATION = 5
    MIN_NET_DEBT = 20
    Prices = {1000, 650}
    OpenColl = {40, 61}
    OpenZUSD = {20}
    AdjustColl = {10}
    AdjustZUSD = {7}
    BorrowingRates = {50}
    Deposits = {}
    RedeemAmounts = {}
    RedemptionRates = {}
    MaxBatch = 0
    MaxTransactions = 6
SPECIFICATION MCSpec
SYMMETRY Symmetry
INVARIANTS ListInOrder
