SPECIFICATION Spec
CONSTANTS
  Clients <- AnyClients
  ShortLen = 5
  WideBytes = 3
  BufSize = 28
  HeaderLimit = 1
PROPERTY
  AnsweredHoweverCut
