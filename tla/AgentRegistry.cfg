SPECIFICATION RegistrySpec
CONSTANTS
  Fields = {"database", "role-ladder"}
  Versions = {1, 2}
  Absent = 0
  Threads = {loop, worker}
  TTL = 2
  LoadTime = 1
  Alone = FALSE
INVARIANTS
  RegistryTypeOK
  ServesNothingOlder
