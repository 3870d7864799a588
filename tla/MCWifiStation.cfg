SPECIFICATION FairSpec
CONSTANTS
  Configs = {home}
  Blank = Blank
  Oversize = Oversize
  Absent = Absent
  MaxEvents = 2
  MaxPolls = 1
  Forever = Forever
INVARIANT NotStranded
INVARIANT DisconnectHolds
INVARIANT FlagIsFresh
PROPERTY Reassociates
