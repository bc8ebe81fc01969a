SPECIFICATION FairSpec
CONSTANTS
  Stores = {s1}
  UPDATE_PERIOD = 2
  MAX_BLOCKS = 3
  INITIAL_DEBT = 2
  MAX_REDISTRIBUTED = 3
  MAX_TIME = 3
  MAX_FAILURES = 1
  NULL = NULL
INVARIANTS StoreHoldsItsBlock CachedReadIsNearSomeTrove ShownStoreIsMonitoring
PROPERTY MountedStoreIsShown
CHECK_DEADLOCK FALSE
