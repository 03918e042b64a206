SPECIFICATION MCLiveSpec
CONSTANTS
  Fd = {1, 2, 3}
  listen_fd = 1
  KeepAlive = TRUE
  Pipelined = TRUE
PROPERTIES
  ClientServed
  BrokenClosed
  ShutdownCompletes
