SPECIFICATION Spec
CONSTANTS
  v1 = v1
  v2 = v2
  v3 = v3
  A = A
  B = B
  Slots = {A, B}
  Versions = {v1, v2, v3}
  Bad = Bad
  None = None
  Size = 2
  Chunk = 2
SYMMETRY Symmetric
INVARIANT AlwaysBootable
INVARIANT RecordIsImage
PROPERTY SwitchIsAsked
