SPECIFICATION SessionSpec
CONSTANTS
  m1 = m1
  m2 = m2
  Macs = {m1, m2}
  Channels = 3
  Chan <- Listening
  Null = Null
INVARIANT OneTarget
INVARIANT AnswersMean
