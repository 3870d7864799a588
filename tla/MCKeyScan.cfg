SPECIFICATION KeyFairSpec
CONSTANTS
  Keys = {1, 2}
  Shake <- Debounce
  Rounds = 2
  QueueSize = 1
  MaxHold = 2
  NoKey = NoKey
INVARIANT EdgeNotMissed
INVARIANT EventIsDebounced
PROPERTY LongPressReported
PROPERTY LongPressKept
