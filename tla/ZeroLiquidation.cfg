CONSTANTS
    Borrowers = {a, b, c}
    NULL = NULL
    DECIMAL_PRECISION = 1000
    NICR_PRECISION = 100000
    MaxRatio = 10000000
    MCR = 1100
    CCR = 1500
    PERCENT_DIVISOR = 10
    ZUSD_GAS_COMPENSATION = 5
    MIN_NET_DEBT = 20
    Prices = {1000, 700, 650}
    OpenColl = {42, 80, 180}
    OpenZUSD = {20, 100}
    AdjustColl = {}
    AdjustZUSD = {}
    BorrowingRates = {50}
    Deposits = {26, 110}
    RedeemAmounts = {}
    RedemptionRates = {}
    MaxBatch = 2
    MaxTransactions = 7
SPECIFICATION MCSpec
SYMMETRY Symmetry
INVARIANTS TypeOK ActivePoolHoldsTroves TotalStakesIsSum OwnersIndexed ReservePerTrove SurplusBacked
PROPERTIES LastTroveStays SequenceLiquidatesBelowTCR NoRevertAfterLiquidation DepositsStayForLiquidations
