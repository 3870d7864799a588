SPECIFICATION DeviceSpec
CONSTANTS
  m1 = m1
  m2 = m2
  o1 = o1
  o2 = o2
  Macs = {m1, m2}
  Loggers = {"logger"}
  Commands = {"set_mac", "set_log", "unset_mac"}
  Levels = {4, 6}
  Verbose = 6
  Objs = {o1, o2}
  Null = Null
  MaxSend = 1
  Registrars = {"app", "main"}
  Mine <- Two
  BuiltIn <- Protocol
  MaxCount = 3
  Names = {"set_mac", "set_log", "unset_mac", "reset"}
SYMMETRY Symmetric
INVARIANT DeviceTypeOK
INVARIANT OnePeer
INVARIANT LogsGoToController
INVARIANT NoHoles
INVARIANT RegisteredIsFound
PROPERTY BindingSpec
