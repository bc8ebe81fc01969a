CONSTANTS
    Users = {a, b, f}
    NULL = NULL
    DECIMAL_PRECISION = 100
    SCALE_FACTOR = 10
    Amounts = {137}
    KickbackRates = {60}
    Offsets <- FewOffsets
    Issuances = {13}
    ZEROSupplyCap = 200
    MaxCalls = 7
SPECIFICATION MCSpec
SYMMETRY Symmetry
INVARIANTS DepositsCoveredUpToRounding GainsCovered IssuanceCovered
PROPERTIES OthersUndisturbed
