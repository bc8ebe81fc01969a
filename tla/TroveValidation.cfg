CONSTANTS
    Borrowers = {a, b, c}
    NULL = NULL
    DECIMAL_PRECISION = 1000
    NICR_PRECISION = 100000
    MaxRatio = 10000000
    MCR = 1100
    CCR = 1500
    PERCENT_DIVISOR = 10
    ZUSD_GAS_COMPENSATION = 5
    MIN_NET_DEBT = 20
    Prices = {1000, 650}
    OpenColl = {40, 61}
    OpenZUSD = {20}
    AdjustColl = {}
    AdjustZUSD = {7}
    BorrowingRates = {50}
    Deposits = {}
    RedeemAmounts = {}
    RedemptionRates = {}
    MaxBatch = 0
    MaxTransactions = 5
    DIGITS = 1000
    INFINITY = 10000000
    MINIMUM_COLLATERAL_RATIO = 1100
    CRITICAL_COLLATERAL_RATIO = 1500
    ZUSD_LIQUIDATION_RESERVE = 5
    ZUSD_MINIMUM_NET_DEBT = 20
    EditedColl = {0, 27, 38, 40, 58, 61, 90}
    EditedDebt = {0, 3, 24, 25, 26, 29, 33, 47}
    AccountBalance = 45
    ClientRate = 50
SPECIFICATION MCSpec
SYMMETRY Symmetry
INVARIANTS ValidChangeIsMined RefusedChangeReverts
