SPECIFICATION Spec
CONSTANTS
  Clients <- PatientClients
  ShortLen = 5
  WideBytes = 3
  BufSize = 28
  HeaderLimit = 1
INVARIANTS
  TypeOK
  RecvHasRoom
  UpgradeNeedsAll
  OutcomeOfWsData
  PeersClosed
PROPERTIES
  SilentWhenClosed
  KeepsPromise
  HandshakeAnswered
  MessagesForwarded
