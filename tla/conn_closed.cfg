SPECIFICATION Spec
CONSTANTS
  Clients <- LineClients
  ShortLen = 5
  WideBytes = 3
  BufSize = 28
  HeaderLimit = 1
PROPERTY
  NothingConnectedAfterClose
