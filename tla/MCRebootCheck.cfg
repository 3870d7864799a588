SPECIFICATION FairSpec
CONSTANTS
  NvsMayFail = TRUE
  Garbage <- AnyInt
  Absent = Absent
  MaxBoots = 5
INVARIANT EraseIsEarned
PROPERTY RecordedIsErased
PROPERTY Settles
PROPERTY RecordIsKept
