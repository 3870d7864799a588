SPECIFICATION Spec
CONSTANTS
  Registrars = {"app", "main"}
  Mine <- Two
  BuiltIn <- Protocol
  Commands = {"set_mac", "set_log", "unset_mac", "reset", "restart", "send2root"}
  MaxCount = 4
  Null = Null
INVARIANT UndefinedIsIgnored
