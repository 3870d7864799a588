SPECIFICATION FairSpec
CONSTANTS
  Readers = {"app", "debug task"}
  Wants <- AppAndDebugTask
  Selectable = {"config", "none"}
  Packets = {p1, p2, p3}
  MaxRecv = 2
  NoPacket = NoPacket
PROPERTY ServiceSpec
INVARIANT OwnedOnce
INVARIANT PeekedIsTaken
INVARIANT AtMostOneStale
PROPERTY QueuedIsRead
