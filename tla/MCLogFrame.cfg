SPECIFICATION LogSpec
CONSTANTS
  t1 = t1
  t2 = t2
  Loggers = {t1, t2}
  Header = 1
  Bodies = {1, 3, 5, 7}
  Size = 8
  Width = 6
  MaxLen = 4
  NUL = NUL
SYMMETRY Symmetric
INVARIANT LogTypeOK
INVARIANT SoloLine
INVARIANT OverrunIsLong
