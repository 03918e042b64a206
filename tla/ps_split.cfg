SPECIFICATION Spec
CONSTANTS
  Peers <- CutLines
  BufSize = 8
  SizeBytes = 2
  ShortLen = 5
  WideBytes = 3
INVARIANT
  OneLineEach
