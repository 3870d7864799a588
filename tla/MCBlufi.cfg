SPECIFICATION Spec
CONSTANTS
  MaxEvents = 3
  MaxKeys = 2
INVARIANT Connectable
INVARIANT MemoryIsSafe
INVARIANT KeyAgrees
