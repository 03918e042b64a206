SPECIFICATION Spec
CONSTANTS
  Clients <- HastyClients
  ShortLen = 5
  WideBytes = 3
  BufSize = 36
  HeaderLimit = 1
INVARIANT
  QueriedOnce
