SPECIFICATION Spec
CONSTANTS
  DECIMAL_PRECISION = 1000
  SECONDS_IN_ONE_MINUTE = 2
  MINUTE_DECAY_FACTOR = 870
  BETA = 2
  BORROWING_FEE_FLOOR = 50
  REDEMPTION_FEE_FLOOR = 19
  MAX_BORROWING_FEE = 75
  BlockTimes = {1, 6}
  MaxTime = 7
  Amounts = {100}
  Fractions = {33, 99}
  BORROWING_TOLERANCE = 1
  REDEMPTION_TOLERANCE = 1
  MINIMUM_NET_DEBT = 20
  MAX_BASE_RATE = 16
  NONE = NONE
INVARIANTS QuotedBorrowingIsMined QuotedRedemptionIsMined DecayNotPostponed
CHECK_DEADLOCK FALSE
