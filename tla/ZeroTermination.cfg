CONSTANTS
    Borrowers = {a, b, c}
    NULL = NULL
    DECIMAL_PRECISION = 1000
    NICR_PRECISION = 100000
    MaxRatio = 10000000
    MCR = 1100
    CCR = 1500
    PERCENT_DIVISOR = 10
    ZUSD_GAS_COMPENSATION = 5
    MIN_NET_DEBT = 20
    Prices = {1000, 700, 650}
    OpenColl = {42, 80}
    OpenZUSD = {20}
    AdjustColl = {}
    AdjustZUSD = {}
    BorrowingRates = {50}
    Deposits = {26}
    RedeemAmounts = {21, 28}
    RedemptionRates = {5, 1000}
    MaxBatch = 2
    MaxTransactions = 4
SPECIFICATION MCFairSpec
PROPERTIES TransactionsEnd
