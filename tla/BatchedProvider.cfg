SPECIFICATION FairSpec
CONSTANTS
  Calls = {c1, c2, c3}
  LATEST = LATEST
  REJECTED = REJECTED
  PENDING = PENDING
  MAX_BLOCK = 2
INVARIANT AnswerIsOwn
PROPERTIES SettledOnce EveryCallIsSettled
CHECK_DEADLOCK FALSE
