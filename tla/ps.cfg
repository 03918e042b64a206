SPECIFICATION Spec
CONSTANTS
  Peers <- MCPeers
  BufSize = 8
  SizeBytes = 2
  ShortLen = 5
  WideBytes = 3
INVARIANTS
  TypeOK
  NothingHeldBack
  OldBytesNeverFramedAlone
PROPERTIES
  FramesTheStream
  LoopEnds
