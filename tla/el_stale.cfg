SPECIFICATION MCSpec
CONSTANTS
  Fd = {1, 2, 3, 4}
  listen_fd = 1
  KeepAlive = FALSE
  Pipelined = FALSE
INVARIANT
  PeerReadsAreReady
