SPECIFICATION FairSpec
CONSTANTS
  a1 = a1
  a2 = a2
  f1 = f1
  f2 = f2
  f3 = f3
  Apps = {a1, a2}
  WriteTask = WriteTask
  Frames = {f1, f2, f3}
  MaxSend = 1
  NoFrame = NoFrame
INVARIANT AnswerIsComing
INVARIANT ReplyIsOwnFate
INVARIANT BuffersExclusive
PROPERTY ServiceSpec
PROPERTY PostedIsWritten
PROPERTY LockIsReturned
CHECK_DEADLOCK FALSE
